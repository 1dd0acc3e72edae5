# A formal model of fut_manager_app_api

The program is the backend of an application that manages amateur football: groups of
people who play a weekly *pelada* (confirmations, teams, matches, sheets of matches,
seasons), and clubs that play championships. It is a FastAPI service on PostgreSQL, in
Portuguese; paths below are relative to the repository.

## Inventory

Every request is one coroutine with one SQLAlchemy session. A handler takes a row lock
(`SELECT ... FOR UPDATE`) on the aggregate it writes (an event, a group, a
championship, a club), reads, writes and commits once; an `HTTPException` rolls all of
it back. The isolation level is PostgreSQL's default, READ COMMITTED. So the unit of
interleaving is the handler, except where something is read before the lock, or two
handlers lock different rows and touch the same data.

| Component | State | Operations | Talks to | What is hard | What makes it correct |
|---|---|---|---|---|---|
| Confirmation list (`controllers/groups.py`, `services/groups.py`, migration 014) | `event_presences`: status, role, waitlist position, time; limits in `pelada_events` | confirm, cancel_confirmation, guest's presence (CRUD), update_confirmation_settings, the triggers | the event's status and limits; the triggers run after every write | two pools, three ways to enter, guests behind members, promotion written in SQL and in Python | limits never exceeded, nobody waits beside a free place, the line is served in order, nobody loses a place to another request |
| Event life cycle (`controllers/lifecycle.py`) | `pelada_events.status`, `event_teams`, `event_team_players`, `event_team_queue_entries`, `matches`, `match_lineups` | build_teams, start, kickoff, finish_match, add_temporary_player, finish_event | reads the list at every step; creates the match of a sheet; scheduling, seasons and trophies on finish | court, queue and rosters are rewritten apart from each other; people leave while the day goes on; keepers change teams | each team plays or waits, in turn; both sides complete, with a keeper; nothing moves after the end |
| Sheet of a match (`controllers/lifecycle.py`, `lifecycle_support.py`, `helpers/cards.py`) | `game_actions`, `match_teams.goals`, `.result` | add_action, remove_action, finish_match | the line-up and the status of the match | launches repeated, late, corrected, in any order | score, automatic expulsions and results agree with the sheet |
| Championship (`controllers/championships.py`, `helpers/championships.py`) | `championships`, `championship_entries`, `championship_matches` | register, withdraw, assign_groups, start, kickoff, score, punish, respond | clubs and their members | the edition decides rounds, walkovers and replacements in a loop, with clubs disqualified at any time | always a next match or a champion; nobody disqualified goes on; every slot filled |
| Sheet of a championship match (`helpers/championship_goalkeepers.py`, `helpers/cards.py`, `helpers/championship_trophies.py`) | a JSON document of launches, the current keepers and their history, statistics, awards | add_action, remove_action, set_goalkeepers, kickoff, score, save_statistics, award_championship | the squads registered in the edition; the champion | launches belong to the keeper of the moment, are repeated and corrected; results may come without launches; clubs are disqualified | cards exact, each goal charged to one keeper, statistics add up, awards earned |
| Clubs (`controllers/championships.py`) | `clubs`, `club_members`, the keepers of entries and matches | invite, respond, join_club, approve, set_club_goalkeeper, set_entry_goalkeeper, register, withdraw | open editions copy the keeper | several rows locked one after the other; the editions are read before the club is locked | keepers are of the squad; matches follow the entry unless the organiser decided; no deadlock |
| Seasons, rankings, trophies (`controllers/seasons.py`, `rankings.py`, `trophies.py`) | `group_seasons`, the group's settings, `season_trophies` | synchronize, archive, update_settings, award_season | matches of the period, finished under another lock | a match ends while its season is archived; periods expire unseen; settings change | seasons follow one another; archives and titles are final |
| Weekly scheduling (`controllers/scheduling.py`) | the next event | schedule, schedule_next | called when an event ends | two ways to end an event | one successor per recurring event |
| Join requests, roles, codes (`controllers/group_requests.py`, `groups.py`, `draw.py`) | requests, memberships, grades | request_join, review, update_member_role, update_settings, update_rating | the permission checks of everything else | reviewed twice; the role changes under a running request | one answer per request; nobody slips in; whoever writes was entitled |
| Sessions (`controllers/auth.py`) | an in-memory table under a `Lock` | login, current profile, logout, expiry; lost at a restart | every router | expiry, restart and deactivation against use | an expired session names nobody |
| Draw and balance (`helpers/team_balance.py`, `controllers/draw.py`) | none | pure | build_teams | heuristics | squads of equal size, one keeper each |
| Generic CRUD (`__main__.py`, an external library) | all tables it exposes | create, update, delete | `event_write_guard.py` | written without the handlers' checks | out of scope, save the guests' presences |
| Schemas, routers, privacy, configuration, scripts | none | | | | |

`PROJECT.json` lists these components with their sources, and the hazards line by line.

## Modules

| Module | Stands for |
|---|---|
| `Slots` | The confirmation list without positions and times: who has a place, who waits. The promoted or demoted person is any one the limits allow. |
| `Waitlist` | The rows of `event_presences`, the handlers, the triggers of migration 014 and the Python fallback of `services/groups.py`. Implements `Slots`. |
| `Rotation` | What a day promises: two play, the others wait in a line; winner stays, first of the line comes in, loser goes to its end. |
| `EventLifecycle` | An event on top of `Slots`: formation, start, kick-off, matches, substitutions, end. Implements `Rotation` (and `Slots`). |
| `MatchSheet` | The sheets of all the matches of a day under repeated and late launches. |
| `Championship` | One edition from the registrations to the champion: registration, groups, fixtures, results, walkovers, punishments and `progress_championship` for the four formats. |
| `ChampionshipSheet` | The sheets of the two legs between two clubs up to the awards: launches, cards, goalkeepers and who conceded which goal, results, statistics. |
| `Clubs` | Clubs, members and goalkeepers, and the editions they enter: requests that lock several rows one by one, beside the organiser's. |
| `Membership` | Sessions, the dependencies of a request, join requests, roles, and what managers write; each request in steps. |
| `Calendar` | The seasons, archives and titles of a group, and its weekly events, while matches are being committed. |
| `WaitlistProofs`, `EventLifecycleProofs`, `MatchSheetProofs`, `ChampionshipProofs`, `ChampionshipSheetProofs`, `MembershipProofs`, `ClubsProofs`, `CalendarProofs` | The theorems; those about `Slots` alone begin `EventLifecycleProofs`. |
| `MCWaitlist`, `MCEventLifecycle`, `MCMatchSheet`, `MCChampionship`, `MCChampionshipSheet`, `MCClubs`, `MCMembership`, `MCCalendar` | Instances for TLC: constants, symmetry, initial states, bounds. |

How they compose: `EventLifecycle` EXTENDS `Slots`, which `Waitlist` implements, so what is
shown of the rows of one event holds beneath its teams and matches. The other modules are
the aggregates that handlers lock as a whole; where one handler touches two of them, both
are in the module that is about it (`Calendar` has the end of a match and the seasons,
`Clubs` the editions and the clubs). `MatchSheet` and `ChampionshipSheet` abstract who plays
next, which `EventLifecycle` and `Championship` have.

A definition preceding the one it would replace and marked `mutant` is that definition
with a plausible bug; no specification uses it. `PROJECT.json` pairs each property with
a mutant that TLC finds it violated under.

### How state and actions correspond to the code

*Waitlist* has one variable per column of `event_presences` (`presence`, `role`,
`position`) and keeps the two timestamps as the orders they induce (`order`,
`created`: sets of pairs, the earlier first). `Confirm`, `CancelConfirmation`, `AddGuest`, `RemoveGuest` and
`ChangeSettings` are whole transactions: the guard is the handler's refusals, the
writes, and then `Rebalance`, which is what the trigger runs after them.
`FallbackRows` is the Python version of the same promotion; `FallbackAgrees` compares
the two on every step in which the fallback would run.

*EventLifecycle* uses `team`/`job` for `event_team_players`, `queue` for
`event_team_queue_entries` by position, `court`/`side`/`active`/`replaced` for the match
in progress and its `match_lineups`. `BuildTeams` accepts every formation the handler's
checks accept, whether it was drawn or chosen by hand, so the balancing heuristics need
not be modelled to be covered. Whoever wins is any of the two teams. `Attendance` is any
step of the list, taken while the event goes on.

*MatchSheet* names launches by the UUID the client sends, so a repeated request is the
same action with the same `id`, and one that the handler ignores or refuses is a
stuttering step.

*Championship* has the edition's row (`rules`, `status`, `champion`), its entries by seed
(`entries`) with their columns (`pool`, `banned`, `deducted`) and its matches by sequence.
Every handler locks the edition first, so each is one action. `Score`, `Walkover`,
`TakePoints` and `Disqualify` end, as in the code, with `Progress`: walkovers for pending
matches of disqualified clubs, then the champion or the next fixtures. `progress_championship`
is a loop; all fixtures it adds are between eligible clubs, so its second round
finds a match to be played and returns (`PlayGoesOn` checks that). Its decisions are
operators over `ed`, the edition as the handler has written it so far; `Add` is refused when
it would violate the constraint `different_clubs`, as the transaction is. Tables are sorted
by the keys of `standings`; the league schedule is the rotation of `initial_fixtures` in
closed form (`Holder`), and `EveryoneMeets` compares its outcome with what a round robin is.

*ChampionshipSheet* has the columns of `championship_matches` that a sheet is made of:
`sheet` (`actions`), `keeper`, `history` (`goalkeeper_history`, per club), `started`,
`score`, `walkover`, `complete`, `stats`. `Synced` is `sync_championship_cards`, `Begun` is
`begin_goalkeeping`, `ConcededBy` is `goalkeeper_totals`. `score` is three actions:
`ScoreFromSheet` (with the ids of the launches the client has seen), `ScoreAlone` (an older
client sends a result and perhaps statistics) and `Walkover`; each ends with the part of
`progress_championship` that finishes the edition and gives the awards.

*Clubs* gives each row a lock. A request of a club's owner is `Ask...`, for
`set_club_goalkeeper` then `LookUp` (the open editions are selected), then `Acquire` once
for each row, in the order of `NextRow`, then one step that writes, commits and releases.
`seen` is the keeper in the club's row when the request first read it: `SELECT ... FOR
UPDATE` on an object the session has already does not refresh its attributes, and
SQLAlchemy writes a column only if it differs from the value it holds. A club that withdraws
while `set_club_goalkeeper` waits makes the latter fail (`next` on an empty generator), which is one
of the cases of `Refused`. Requests with one lock are single steps that need it free.

*Membership* takes a request through `step`: the session (`Authenticate`), the profile
(`LoadProfile`), the group and the membership (`AccessibleGroup`), the manager's right and
the person graded where the handler asks for them first (`CheckManager`, `CheckTarget`),
then the write. `Review` and `UpdateMemberRole` check again under the lock of the group. The
library's CRUD on `group_members` is refused by `event_write_guard.py` (lines 52-53);
nothing in `src/` sets a membership to blocked or invited, or deactivates an account, but
handlers read these columns, so `SetStanding` and `SetEnabled` are operators of the database
(external). `held` is a history variable: what the caller has held at some moment since the
request began.

*Calendar* counts time in ticks. `synchronize` reads the clock before it waits for the
group, so it comes with a time up to `MaxWait` old (`Synchronize(at)`); `TurnedOver` is its
loop in closed form: how many periods have ended, and the seasons that follow from it. `finish_match` is two steps, `BeginFinish` (it has read the clock) and `FinishMatch` (it
commits): a season may be archived in between. `Follow` is `schedule_next`.

### What is abstracted

- Names, colours, jersey numbers, modality, the timer and all texts: no guard of another
  operation reads them.
- The registration window: time does not pass, `registration_open` is the state in which
  confirming is allowed. The statuses `draft`, `registration_closed` and `cancelled` are
  only set through the generic CRUD and are left out.
- A `NULL` maximum is a number the people of the instance cannot reach.
- In `Championship`: squads (a club whose squad is not fit to enter does not ask to),
  goalkeepers and launches, of which only `mark` remains (a keeper was chosen for the match,
  it has begun, or neither), and the rules that tie a score to the sheet where there is one;
  these are the subjects of `Clubs` and `ChampionshipSheet`. Cascades of 8 or 16, which only
  old editions have, are left out.
- In `Clubs`: which fixtures an edition has, and how one round leads to the next.
- In `ChampionshipSheet`: all but two clubs and two matches of the edition.
- In `Calendar`: calendar months (a length in ticks), draws and goals of the ranking.
- Permissions, outside `Membership`: requests are those of somebody who may send them.
- Guests come and go through the generic CRUD. The library is external: `AddGuest` and
  `RemoveGuest` are modelled from `check_write` and the triggers that its inserts and
  deletes of presences fire. What deleting the guest's *own* row does is not visible in
  the sources and is not modelled.

## Runs

`tlc -workers 2 -config <cfg> <module>` in this directory.

| Run | Shows | Bounds |
|---|---|---|
| `waitlist` | numbering, order, fallback, refinement of `Slots` | 3 members, 1 guest, limits split and combined, below and above the number of people: both pools overflow, a line of two members and a guest |
| `two_keepers` | three teams, exactly two keepers, substitutions, absences and promotions; places used exactly beneath | 6 members, 1 guest, 3 teams, one person off the list at a time |
| `long_day` | every team plays again and again; the line is kept in order (`ImplementsRotation`) | 4 teams of one person, without separate places for keepers, for ever: two wait, so the order of the line matters |
| `match_sheets` | score, expulsions, results | 3 people, 3 launches, 2 matches: two yellow cards and a third launch, one match over and one running |
| `editions` | an edition goes on, its fixtures are complete, the right champion | 5 clubs that register and withdraw in any order; knockout and cascade of 4, leagues of 2 and 3 (of 2 with return matches) to the champion; groups of 4 and longer leagues to the first result; 3 points taken from each club at most, any disqualifications, one match begun without a result (none in a cascade) |
| `brackets` | vacancies, reserves, reduced brackets, each group represented, records kept | 8 clubs, the first stage over but for one match or, for groups, not begun, groups dealt out again in all 70 ways; goalless ties, so that either side may go on; any set of clubs disqualified in one request, at any time |
| `membership` | rights, answers and entries under requests that take their time | an owner, a member who may be promoted, an outsider who comes, goes, is blocked and deactivated; 2 requests in progress, 1 session of one tick |
| `calendar` | seasons, archives, titles, successors | 4 ticks, seasons of 2 ticks or to a fixed date, 3 of them, 2 matches, 2 events, a member and a guest |
| `clubs` | keepers and matches under interleaved locks; no deadlock | 2 clubs that share a player, 2 leagues, 2 requests with several locks, 2 matches |
| `late_keeper` | *violation*: an edition keeps the old keeper | as `clubs` |
| `club_sheets` | cards, goals conceded, statistics, awards | 2 legs, 3 launches in the second, 2 players at home and 1 away, goalkeepers changed twice |
| `cascade_final` | *violation*: an edition ends without a champion | a cascade of 4 |

Named bounds: `MaxMatches` (MatchSheet, matches of the day), `AbsenceBound` and
`QuietList` (MCEventLifecycle, a state constraint: at most that many people are off the
list at a time, and only those in `MayKeep` change roles), `MCInit` (the list is full at
the start, a state `Init` reaches by confirmations), `MCDayInit` (one build and one start
later). In MCChampionship: `Clubs` and
`MaxDeducted` (points taken from one club), `FewTouched` with `MaxTouched` (matches begun
without a result; `FewTouchedLate` in the late start), `LateInit` (registrations are closed,
and all matches of the first stage but one were won at home, or none of the groups has been
played: states that registrations, `Start` and `Score` reach) with `LateNext` (what may
happen then), `OnFixturesOrLate` (groups nothing of which was played are followed to their
first result), `PlayedInOrder` and `Closed` (clubs are alike, so one order of entry is
followed to the end), `ShortSeason` and `OnlyFixtures` (longer editions are followed to the
first result), `UpToKnockout` (groups are followed to the knockout, whose rounds the other
edition of the run follows) and `PunishedOnce` (one request of disqualification, of any
clubs). In MCMembership: `MCInit` (the insider has been approved), `OnlyTheOutsider` (only
the outsider is deactivated, blocked or graded), `Lifetime`. In MCCalendar: `MaxTime`,
`MaxMatches`, `MaxWait` (ticks that `synchronize` waits), `MaxSeasons` with `FewSeasons`, `FirstDay` (one
event is scheduled; others follow it). In MCClubs: `MCInit` with `Founders` (both clubs have two
members and the first is in the second league), `MaxGames`, `OneNewcomer` (one person joins,
the first club only), `OneAmbitious` (one request is the first club's, of any kind; the
other changes its keeper or registers the second club), `OneLeaguePlayed` (matches are in
the first league). In MCChampionshipSheet: `FewKinds` (cards of one player, assists of one
club), `FirstLeg` (the first leg is played before the second, from a client without
launches), `MaxGoals` (in a result without launches), `MaxStints` (keepers in a history).

The cutoffs are chosen so that each choice the code makes is made both ways: both pools
above and below their limit, a line longer than the places that become free, a second team
behind the first of the queue, an exact pair of keepers and a different number, a match
behind the one being recorded; a season that ends before, at and after the moment a match
is committed, one and two periods at once; the two orders in which two requests may meet at
every row; a keeper before and after a goal, and a tie for every award; in an edition, as many vacancies as reserves and more,
one, two and more eligible clubs left, odd and even leagues, one group and several.

Symmetry sets contain people with the same habits, teams, launches, requests, tokens and
events, and are used in runs of safety properties only. `CHECK_DEADLOCK FALSE` because an event that is finished,
or a day without launches left, really stops.

### Fairness

Nothing in the program obliges anybody to send a request. `EveryTeamReturns` is therefore
conditional: *if* matches keep being finished with another one to follow, then every team
plays again and again; its premise is the users' behaviour, its conclusion is about the
code's queue, and no fairness is assumed.

`Clubs` assumes fairness of requests that have been sent (`Fairness`), never of sending one:
a coroutine that can run does (weak fairness of `LookUp` and `Finish`), and PostgreSQL lets
those who wait for a row have it in the order in which they came, so whoever waits gets it if it
becomes free again and again (strong fairness of `Acquire`). Under it `EveryRequestEnds` says
that there is no deadlock: "Mesma ordem de locks usada na inscrição: edições, depois o
clube" (`controllers/championships.py:235`). With the club locked first, TLC finds two
requests that wait for each other.

### Two violations

- `late_keeper`: "Mudar o padrão do clube também atualiza as edições abertas em que o novo
  goleiro já está inscrito" (`Feedback.md`), but `set_club_goalkeeper` selects the open editions before
  it locks the club. A registration that commits in between is not among them: its entry
  keeps the old keeper, though the new one is in the squad.
- `cascade_final`: "a final define o campeão e encerra a edição" (`docs/DEVELOPMENT.md`), but
  a grand final between two clubs disqualified in one request has no winner, and the edition
  ends with `champion_id` NULL; the knockout falls back to the best eligible club, the
  cascade does not.

Other disagreements seen while modelling, which no run asks about:

- when somebody leaves between the start and the kick-off, `kickoff` answers "A lista de
  confirmados mudou. Monte os times novamente.", and `build_teams` refuses because the event
  is in progress;
- vacancies are filled "sem duplicar participantes já classificados" (`Feedback.md`), but the
  losers' final of a cascade may get the club that waits in the grand final;
- "semifinais A × B e C × D" (`docs/DEVELOPMENT.md`), but groups are taken in the order in
  which the entries name them, so with groups dealt out by the organiser A may meet C;
- a match that ends in a season and is committed after its archive was made counts in no
  season: the archive is final (`ArchiveIsFinal`);
- a weekly event that is ended more than a week late gets a successor in the past.

## Proofs

`tlapm <module>` checks them. All assume only the named assumptions on the constants
(people and launches are finite sets, members and guests are disjoint, settings are
records of the declared type, there is a match, an edition's matches are finitely many and
between two clubs with squads of their own, editions have smaller numbers than clubs, a
session lasts some time, a week is longer than nothing, an organiser creates editions of the
formats and sizes the schema allows).

- The list, in `EventLifecycleProofs`: `SlotsInv` is `SlotsTypeOK /\ PlacesUsedExactly`, which is inductive;
  the work is in the lemma that `Rebalance` re-establishes the second conjunct whatever
  the rows written before it, which needs cardinalities of the two pools apart.
- `WaitlistProofs`: `WaitInv` says that the line is numbered, that no two people have one
  position, and that the places are used exactly. `Rebalance` counts the people ahead of
  each one, so everything rests on ranks in a finite order: they grow along the order
  (`RankGrows`), they are all the numbers from 0 on (`RanksAreAll`), and so taking those of
  rank below n takes n of them (`FirstOnes`). What the triggers do to one pool is
  `PoolServed`; `RebalancedPools`, `RebalancedLine` and `RebalancedOrders` carry it to the
  rows, for whatever a request has written (`Written`), and each request has one lemma about
  what it writes. A step is then a step of `Slots` (`WaitlistImplementsSlots`). Two requests
  need more: a guest is inserted as confirmed and put in the line by the trigger, which in
  `Slots` is decided at once: the two agree since the guest was the last to be confirmed
  (`GuestBehind`); a withdrawal of somebody who has none changes nothing, since the places
  were used exactly before (`NothingToDo`). `FirstComesFirst` follows from the order of
  the line being that of the ranks (`ServedInTurn`), and for a member who leaves one line for
  the other from the fact that a pool with a line is full (`NobodyOvertakes`).
- The event, in the same module: every step is a step of `Slots` or leaves the list alone, so
  the list's invariants hold in an event (`EventImplementsSlots`). The day's invariant
  adds that court and queue partition the teams; with it every step maps to a step of
  `Rotation` or a stutter (`EventImplementsRotation`).
  The same invariant gives that rosters are frozen
  (`RostersStayFrozen`), that a finished event is read-only (`NothingAfterTheEnd`) and, with
  `SubstInv` (whoever replaced somebody is on a side), that substitutes pair up.
  `LineupInv` is about the match in progress: everybody active was lined up from the
  roster of the side or came from a team that waits, and each side has as many in each role
  as its roster. It is kept by a substitution because exactly one goes out and one of the
  same role comes in; at a change of teams the counts are of the rosters themselves, and a
  keeper who changes teams is one less there and one more here. From it follow
  `SidesAreAtFullStrength` and, with the number of keepers over all the teams,
  `KeeperOnEachSide`.
- `MatchSheetProofs`: score, expulsions and results are one inductive invariant
  (`SheetInv`): a result is right only if the score is, and a finished sheet is frozen
  only if nothing is recorded ahead of the current match (`NothingAhead`), which is the
  strengthening.
- `ChampionshipProofs`: `EditionInv` joins the types, `Sizes` (the entries fill the edition
  from the start on, groups are complete or not dealt out at all), `Rounds`, `Underway` and
  `ChampionIsEligible`. `Underway` has what `PlayGoesOn` says, and two strengthenings.
  `Staged`: the stage of the last match and the number of matches tell what comes next; a grand
  final is the last thing to be decided, so its winner, if any, was eligible when it was
  played. `AllIn`: everybody entered has a match in the groups, which is why groups may
  be dealt out again after the start: nothing on record means that all these matches are to be
  played, hence nobody was disqualified, and the fixtures made anew are among eligible clubs.
  `Rounds` is what `OneMatchPerRound` needs: matches of one round share no club (`Tidy`), the
  winner of a match is one of its sides, so that those who go on from a tidy round are all
  different; no round of the knockout comes after the one of the last match, so that a new
  round is new; and a cascade has its matches in the one order they can have (`InCascade`).
  Of the fixtures made at the start it is the rotation: two positions of one round hold
  different clubs.
  The rest is what the operators do. Tables, brackets and groups are all sorted by a
  key (`SortedProperties`, from ranks in a finite order: `PlacesAreAll`); a table has each
  club once because the last part of its key is the seed (`SevenAreAKey`). From
  these: `FilledProperties` (vacancies are filled by clubs that are not in the round),
  `ReducedProperties` (a smaller bracket is not empty and has different clubs), together
  `DrawnProperties`; `GroupsGoOn`, `CascadeGoesOn` and `KnockoutGoesOn` say so of each round,
  `LeagueRoundsOpen` (rotation modulo the number of clubs) and `GroupsOpen` of the first
  fixtures. `ProgressStep` is then the whole of `progress_championship`, whichever handler
  calls it: its loop ends after one round, with a match to play or a champion.
  Who must be in a round follows from the same invariant. Whoever has a place and is still in
  keeps it when vacancies are filled (`PlacesKept`), and where the reserves are too few the
  smaller bracket is strictly smaller (`TooFewLeft`): so if the new round is as large as the
  old one asks for, it is that of the winners (`WinnersGoOn`) or of the groups
  (`GroupsGoThrough`). New matches appear only when play goes on or groups are dealt out
  anew (`WhenMatchesCome`). The champion of a league is the first of a table, which is of
  the points the matches on record give: `CountedOnce`, that the set of matches of a club
  has as many elements as places, needs `Tidy`. `TwoDefeatsAndOut` is not inductive: who meets
  whom in a cascade (`CascadeRuns`) is, as long as nobody is out and no place is vacant
  (`NoVacancy`), and says where each club has lost (`NobodyIsOut`).
  `EveryoneMeets` is the arithmetic of the rotation of `initial_fixtures`, for any number
  of clubs: the numbers of the two that sit opposite each other in the round r add up
  to the same modulo the number of rounds, whichever the place, so they tell the round, and
  one of them the place; two meet once at most (`MeetOnce`), and for every two there is
  a round and a place (`MeetInARound`). Its inductive form `TablesInv` compares the matches
  one by one with the pairs of opponents; it stays because all that comes later are rounds of
  a knockout (`OnlyRoundsFollow`), and becomes the count of the property by a bijection.
- `ChampionshipSheetProofs`: `SheetInv` is `Columns` (the types of what a match's row holds),
  `Row` of every match, and `EditionOK` (champion, bans and awards fit the results). `Row` is
  a conjunction of predicates of columns, not of states, so that each lemma is about one
  write and all handlers share it: `CardsOK` (a sheet is the automatic expulsions of its own
  launches, and those are fair), `KeepersOK` and `DutyOK` (the history ends with the keeper
  of now, and has everyone who was charged with a goal), `BegunOK`, `ResultOK` (a result with
  launches is theirs, complete statistics add up to it). `ExpulsionsAreExact` is not
  inductive alone: what keeps it so is that the sheet can be computed again from the launches
  of people. `EveryGoalIsConceded` equates a sum over keepers with a number of goals: the
  launches are classified by keeper (`SumOfClasses`). Awards are the maximum of a finite
  set of numbers, which are sums over matches.
  The library has no theorem about `MapThenSumSet`, which the community modules define by
  recursion over subsets. The first part of the module shows that the recursion has one
  solution on every finite set, by the well-founded order of its subsets, and that a sum
  can therefore be taken apart at any element.
- `MembershipProofs`: `Backed` is the heart: what the caller holds now has been recorded,
  and a request at a given step has held what the steps before it asked for. Nothing less
  is inductive, since any of it may be lost right after it was read. `GroupInv` adds that
  nobody who is in has a request pending, which `OneAnswerPerRequest` and `NobodySlipsIn` do
  not need but managers' lists do.
- `ClubsProofs`: `ClubInv` joins the types, the locks (`LocksInv`: a row is held only by a
  request that has taken it off its list), the members, and each edition (`EditionInv`). The
  strengthening is `NoGamesYet`: an edition open for registration has no matches, so a
  withdrawal cannot take the squad from under a match's keeper.
- `CalendarProofs`: `CalendarInv` is `SeasonInv /\ EventInv`. `Rows` says what a group's
  seasons are at a given time: in order, begun, each archive made of matches of its own
  period, the running one without a table. The loop of `synchronize` is
  modelled in closed form (`TurnedOver`, with the number of periods by division), so that
  `Rows` of its outcome is arithmetic on the limits of the k-th period, stated for
  sequences and not for states.
  `PlansMet` (an event follows another that is there) makes `OneSuccessor` inductive.

Model-checked only: liveness (`EveryTeamReturns`, `EveryRequestEnds`), properties with
`ENABLED`, and that the fallback in Python and the SQL agree (`FallbackAgrees`: the fallback
is a loop over the line, a fold over a sequence of any length).

## Plan

1. `Slots`, `Waitlist`; `Rotation`, `EventLifecycle`; `MatchSheet`; and their proofs:
   done.
2. `Championship`: modelled and checked; all its safety properties proved.
   `ChampionshipSheet`: modelled, checked and proved.
3. `Membership`, `Clubs`, `Calendar` and their proofs: done.
4. `FullStrength`, `AKeeperOnEachSide` and the sheets of championships: proved.

## Not modelled

- The draw and the balance of teams: a heuristic search. `EventLifecycle` allows every
  formation the checks of `build_teams` accept, so no property depends on which one it finds.
- The generic CRUD of the external library, but for guests' presences: its code is not in
  the repository.
- Registration of accounts, hashing and policy of passwords, codes of groups and clubs,
  jersey numbers, modality, the timer of a match, reading views: they change no guard of
  the operations modelled.
- The encryption and privacy of columns, schemas, configuration, migrations and scripts:
  conversions, declarations and one-off programs; the triggers that stay in force are in
  `Waitlist`.
