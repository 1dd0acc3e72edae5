----------------------------- MODULE Championship -----------------------------
(***************************************************************************)
(* One edition of a championship, from the registrations to the champion   *)
(* (controllers/championships.py, helpers/championships.py).               *)
(*                                                                         *)
(* Every handler locks the edition's row first (require_entity with        *)
(* lock=True), commits once and rolls back when it refuses or when a       *)
(* constraint of the database does: each is one atomic action.             *)
(*                                                                         *)
(* Squads, goalkeepers and the launches on the sheet are left out: of them *)
(* only `mark' remains, what a match has on record that other handlers     *)
(* look at.  A club whose squad is not fit to enter is a club that does    *)
(* not ask to.                                                             *)
(***************************************************************************)
EXTENDS Integers, Sequences, FiniteSets, SequencesExt

CONSTANTS
  Club,          \* the clubs there are
  NoClub,        \* winner_id or champion_id IS NULL
  Edition,       \* the editions an organiser may create: format, capacity, homeAndAway
  Goals,         \* the scores <<home, away>> a match may end with
  Penalty,       \* the points an organiser may take away
  MaxDeducted    \* bound on the points taken from one club

Format == {"league", "knockout", "groups_knockout", "cascade"}

(* ChampionshipCreate and the constraints of the table. *)
EditionType ==
  {e \in [format : Format, capacity : Nat, homeAndAway : BOOLEAN] :
     /\ IF e.format = "league" THEN e.capacity >= 2 ELSE e.capacity \in {4, 8, 12, 16}
     /\ e.capacity = 12 => e.format \in {"league", "groups_knockout"}
     /\ e.format = "cascade" => e.capacity = 4
     /\ e.homeAndAway => e.format = "league"}

ASSUME ClubAssumption == NoClub \notin Club
ASSUME EditionAssumption == Edition \subseteq EditionType
ASSUME NumbersAssumption ==
  Goals \subseteq Nat \X Nat /\ Penalty \subseteq Nat \ {0} /\ MaxDeducted \in Nat

VARIABLES
  rules,         \* format, capacity, home_and_away of the edition
  status,        \* championships.status
  entries,       \* championship_entries, by seed
  pool,          \* ... their pool, 0 for NULL
  banned,        \* ... the disqualified ones
  deducted,      \* ... their points_deducted
  matches,       \* championship_matches, by sequence
  champion       \* championships.champion_id

vars == <<rules, status, entries, pool, banned, deducted, matches, champion>>

Entered  == Range(entries)
Eligible == Entered \ banned

Seed(c) == CHOOSE i \in DOMAIN entries : entries[i] = c

GroupSize == IF rules.capacity = 12 THEN 3 ELSE 4

(* The group of a club when `groups' are the pools given by the organiser. *)
PoolOf(groups, c) == IF groups[c] # 0 THEN groups[c] ELSE 1 + (Seed(c) - 1) \div GroupSize

-----------------------------------------------------------------------------
(* Fixtures *)

Fixture(stage, round, group, home, away) ==
  [stage |-> stage, round |-> round, pool |-> group, home |-> home, away |-> away,
   mark |-> "nothing", decided |-> FALSE, score |-> <<0, 0>>, winner |-> NoClub]

(* The fixtures of one stage: a pair of neighbours in s for each of ties.  *)
Paired(ties, s) ==
  [k \in DOMAIN ties |-> Fixture(ties[k].stage, ties[k].round, 0, s[2 * k - 1], s[2 * k])]

Ties(stage, round, n) == [k \in 1 .. n |-> [stage |-> stage, round |-> round]]

(* The first components of pairs, sorted by the second (no two are equal). *)
Precedes(a, b) == \E i \in DOMAIN a : a[i] < b[i] /\ \A j \in 1 .. i - 1 : a[j] = b[j]

Sorted(pairs) ==
  LET placed == {<<p[1], 1 + Cardinality({q \in pairs : Precedes(q[2], p[2])})>> : p \in pairs}
  IN [k \in 1 .. Cardinality(pairs) |-> (CHOOSE p \in placed : p[2] = k)[1]]

(* The elements of s in the places I, in their order. *)
Picked(s, I) ==
  LET order == Sorted({<<i, <<i>> >> : i \in I})
  IN [k \in DOMAIN order |-> s[order[k]]]

(***************************************************************************)
(* initial_fixtures, league: the first club stays, the others go round; an *)
(* odd number of clubs is made even by one that nobody plays against.      *)
(***************************************************************************)
LeagueRounds(slots) ==
  LET half     == slots \div 2
      Holder(i, r) == IF i = 0 THEN 1 ELSE 2 + ((i - r) % (slots - 1))
      Held(i, r) == IF Holder(i, r) \in DOMAIN entries THEN entries[Holder(i, r)] ELSE NoClub
      all      == [k \in 1 .. half * (slots - 1) |->
                     LET r == 1 + (k - 1) \div half
                         i == (k - 1) % half
                     IN Fixture("league", r, 0, Held(i, r), Held(slots - 1 - i, r))]
  IN Picked(all, {k \in DOMAIN all : NoClub \notin {all[k].home, all[k].away}})

WithReturn(legs, Back(_)) ==
  IF rules.homeAndAway THEN legs \o [k \in DOMAIN legs |-> Back(legs[k])] ELSE legs

(* mutant: return matches at the same home *)
ReturnAtSameHome ==
  LET slots == Len(entries) + (Len(entries) % 2)
      Back(m) == Fixture("league", m.round + slots - 1, 0, m.home, m.away)
  IN WithReturn(LeagueRounds(slots), Back)

LeagueFixtures ==
  LET slots == Len(entries) + (Len(entries) % 2)
      Back(m) == Fixture("league", m.round + slots - 1, 0, m.away, m.home)
  IN WithReturn(LeagueRounds(slots), Back)

(* ... groups: all against all in each group, group by group, by seed.     *)
GroupFixtures(groups) ==
  LET pairs == {f \in Entered \X Entered :
                  Seed(f[1]) < Seed(f[2]) /\ PoolOf(groups, f[1]) = PoolOf(groups, f[2])}
      order == Sorted({<<f, <<PoolOf(groups, f[1]), Seed(f[1]), Seed(f[2])>> >> : f \in pairs})
  IN [k \in DOMAIN order |->
        Fixture("groups", 1, PoolOf(groups, order[k][1]), order[k][1], order[k][2])]

InitialFixtures(groups) ==
  CASE rules.format = "league"          -> LeagueFixtures
    [] rules.format = "cascade"         -> Paired(Ties("winners", 1, 2),
                                             <<entries[1], entries[4], entries[2], entries[3]>>)
    [] rules.format = "knockout"        -> Paired(Ties("knockout", 1, Len(entries) \div 2), entries)
    [] rules.format = "groups_knockout" -> GroupFixtures(groups)

-----------------------------------------------------------------------------
(***************************************************************************)
(* Standings and progress work on the edition as the handler has written   *)
(* it so far, ed = [matches, banned, deducted]; the entries stay.          *)
(***************************************************************************)
StillIn(ed) == Entered \ ed.banned

Plays(m, c) == c \in {m.home, m.away}
Scored(m, c)   == IF c = m.home THEN m.score[1] ELSE m.score[2]
Conceded(m, c) == IF c = m.home THEN m.score[2] ELSE m.score[1]

(* The results of a club in the games of a table. *)
Form(games, c) ==
  LET mine == {m \in games : m.decided /\ Plays(m, c)}
  IN [won   |-> Cardinality({m \in mine : Scored(m, c) > Conceded(m, c)}),
      drawn |-> Cardinality({m \in mine : Scored(m, c) = Conceded(m, c)}),
      lost  |-> Cardinality({m \in mine : Scored(m, c) < Conceded(m, c)}),
      goals |-> Cardinality(UNION {{m} \X (1 .. Scored(m, c)) : m \in mine})]

Points(form) == 3 * form.won + form.drawn

(* standings: what rows are sorted by, least first. *)
RankOf(out, points, form, c) ==
  <<IF c \in out THEN 1 ELSE 0, -points, -form.won, -form.drawn, form.lost, -form.goals, Seed(c)>>

(* mutant: the points taken away are given *)
RankRewarding(ed, games, c) ==
  LET form == Form(games, c) IN RankOf(ed.banned, Points(form) + ed.deducted[c], form, c)

Rank(ed, games, c) ==
  LET form == Form(games, c) IN RankOf(ed.banned, Points(form) - ed.deducted[c], form, c)

Table(ed, games, S) == Sorted({<<c, Rank(ed, games, c)>> : c \in S})

GeneralTable(ed, S) == Table(ed, Range(ed.matches), S)

-----------------------------------------------------------------------------
(* Progress: what follows from the results and the punishments.            *)

Open(ms) == {i \in DOMAIN ms : ~ms[i].decided}

(* A match with a disqualified club is lost by it; with two, by both.      *)
ByWalkover(m, out) ==
  LET home == IF m.home \in out THEN 0 ELSE 3
      away == IF m.away \in out THEN 0 ELSE 3
  IN [m EXCEPT !.decided = TRUE, !.score = <<home, away>>,
               !.winner = IF home > away THEN m.home ELSE IF away > home THEN m.away ELSE NoClub]

(* mutant: only the home side is looked at *)
WalkoversAtHome(ms, out) ==
  [i \in DOMAIN ms |-> IF ~ms[i].decided /\ ms[i].home \in out THEN ByWalkover(ms[i], out) ELSE ms[i]]

WalkoversGiven(ms, out) ==
  [i \in DOMAIN ms |-> IF ~ms[i].decided /\ {ms[i].home, ms[i].away} \cap out # {}
                       THEN ByWalkover(ms[i], out) ELSE ms[i]]

(* mutant: a place is vacant only when nobody won it *)
VacantWithoutWinner(ed, s) == {k \in DOMAIN s : s[k] = NoClub}

Vacant(ed, s) == {k \in DOMAIN s : s[k] \notin StillIn(ed)}

(* mutant: whoever has a place may take another *)
ReservesAnybody(ed, s) == GeneralTable(ed, StillIn(ed))

(* The eligible clubs that s leaves out, best first. *)
Reserves(ed, s) == GeneralTable(ed, StillIn(ed) \ Range(s))

(* Vacancies are filled by the reserves, in order. *)
Filled(ed, s) ==
  LET next   == Reserves(ed, s)
      vacant == Vacant(ed, s)
  IN [k \in DOMAIN s |-> IF k \in vacant
                         THEN next[Cardinality({j \in vacant : j <= k})] ELSE s[k]]

Enough(ed, s) == Cardinality(Vacant(ed, s)) <= Cardinality(StillIn(ed) \ Range(s))

(* The largest power of two that n reaches; brackets have 16 clubs at most. *)
PowerWithin(n) == CHOOSE p \in {1, 2, 4, 8, 16} : p <= n /\ n < 2 * p

(* A smaller bracket of the best eligible clubs. *)
Reduced(ed) ==
  LET n     == PowerWithin(Cardinality(StillIn(ed)))
      round == Max({0} \cup {m.round : m \in {d \in Range(ed.matches) : d.stage = "knockout"}})
  IN Paired(Ties("knockout", round + 1, n \div 2), GeneralTable(ed, StillIn(ed)))

(* The next fixtures are `ties' between the clubs of s, taken in the order *)
(* `seat' once the vacancies of s are filled.                              *)
Drawn(ed, ties, s, seat) ==
  LET clubs == Filled(ed, s)
  IN IF Enough(ed, s) THEN Paired(ties, [k \in DOMAIN seat |-> clubs[seat[k]]]) ELSE Reduced(ed)

InOrder(s) == [k \in DOMAIN s |-> k]

(* mutant: who won *)
LoserWinning(m) == m.winner

(* cascade_next *)
Loser(m) == IF m.winner = m.home THEN m.away ELSE m.home

CascadeNext(ed) ==
  LET ms   == ed.matches
      ties == CASE Len(ms) = 2 -> Ties("winners", 2, 1) \o Ties("losers", 1, 1)
                [] Len(ms) = 4 -> Ties("losers", 2, 1)
                [] Len(ms) = 5 -> Ties("grand_final", 1, 1)
      s    == CASE Len(ms) = 2 -> <<ms[1].winner, ms[2].winner, Loser(ms[1]), Loser(ms[2])>>
                [] Len(ms) = 4 -> <<Loser(ms[3]), ms[4].winner>>
                [] Len(ms) = 5 -> <<ms[3].winner, ms[5].winner>>
  IN Drawn(ed, ties, s, InOrder(s))

(***************************************************************************)
(* From the groups to the knockout: the best one or two of each group,     *)
(* groups taken in the order in which the entries first name them.         *)
(***************************************************************************)
PerPool == IF Len(entries) = 12 THEN 1 ELSE 2

GroupOrder ==
  LET pools == {PoolOf(pool, c) : c \in Entered}
      First(g) == Min({Seed(c) : c \in {d \in Entered : PoolOf(pool, d) = g}})
  IN Sorted({<<g, <<First(g)>> >> : g \in pools})

(* mutant: the disqualified hold their place in the group *)
QualifiedOfAll(ed, g) ==
  LET members == {c \in Entered : PoolOf(pool, c) = g}
      games   == {m \in Range(ed.matches) : m.stage = "groups"}
  IN SubSeq(Sorted({<<c, Tail(Rank(ed, games, c))>> : c \in members}), 1, PerPool)

Qualified(ed, g) ==
  LET members == {c \in StillIn(ed) : PoolOf(pool, c) = g}
      games   == {m \in Range(ed.matches) : m.stage = "groups"}
      best    == Table(ed, games, members)
  IN IF Len(best) >= PerPool THEN SubSeq(best, 1, PerPool)
     ELSE best \o [k \in 1 .. PerPool - Len(best) |-> NoClub]

FromGroups(ed) ==
  LET order == GroupOrder
      best  == {<<i, Qualified(ed, order[i])>> : i \in DOMAIN order}
      Place(k) == (CHOOSE b \in best : b[1] = 1 + (k - 1) \div PerPool)[2][1 + ((k - 1) % PerPool)]
      s     == [k \in 1 .. PerPool * Len(order) |-> Place(k)]
      Crossed(k) == CASE k % 4 = 2 -> k + 2 [] k % 4 = 0 -> k - 2 [] OTHER -> k
      seat  == [k \in DOMAIN s |-> IF PerPool = 1 \/ Len(s) = 2 THEN k ELSE Crossed(k)]
  IN Drawn(ed, Ties("knockout", 1, Len(s) \div 2), s, seat)

LastRound(ms) ==
  Picked(ms, {i \in DOMAIN ms : ms[i].stage = "knockout" /\ ms[i].round = Last(ms).round})

(* mutant: the losers go on *)
LosersGoOn(ms) == LET round == LastRound(ms) IN [k \in DOMAIN round |-> Loser(round[k])]

(* From one knockout round to the next, or to the champion. *)
Winners(ms) == LET round == LastRound(ms) IN [k \in DOMAIN round |-> round[k].winner]

FromKnockout(ed) ==
  LET s == Winners(ed.matches)
  IN Drawn(ed, Ties("knockout", Last(ed.matches).round + 1, Len(s) \div 2), s, InOrder(s))

(* mutant: whoever won the final, if anybody *)
FinalWinner(ed) == Winners(ed.matches)[1]

KnockoutChampion(ed) ==
  LET s == Winners(ed.matches)
  IN IF s[1] \in StillIn(ed) THEN s[1] ELSE GeneralTable(ed, StillIn(ed))[1]

(***************************************************************************)
(* The database refuses a match of a club against itself, and with it the  *)
(* whole request.  All new matches are between eligible clubs, so the loop *)
(* of the handler ends with them if there are any.                         *)
(***************************************************************************)
Add(ms, drawn) ==
  /\ \A k \in DOMAIN drawn : drawn[k].home # drawn[k].away
  /\ matches' = ms \o drawn
  /\ UNCHANGED <<status, champion>>

Finish(ms, c) ==
  /\ status' = "finished"
  /\ champion' = c
  /\ matches' = ms

AfterStage(ed, last) ==
  \/ rules.format = "league" /\ Finish(ed.matches, GeneralTable(ed, Entered)[1])
  \/ last.stage = "grand_final" /\ Finish(ed.matches, last.winner)
  \/ last.stage \in {"winners", "losers"} /\ Add(ed.matches, CascadeNext(ed))
  \/ last.stage = "groups" /\ Add(ed.matches, FromGroups(ed))
  \/ /\ last.stage = "knockout"
     /\ IF Len(Winners(ed.matches)) = 1 THEN Finish(ed.matches, KnockoutChampion(ed))
        ELSE Add(ed.matches, FromKnockout(ed))

(* progress_championship, on the matches and entries just written. *)
Onward(ed) ==
  \/ \E c \in Club : StillIn(ed) = {c} /\ Finish(ed.matches, c)
  \/ /\ Cardinality(StillIn(ed)) > 1
     /\ Open(ed.matches) # {}
     /\ matches' = ed.matches
     /\ UNCHANGED <<status, champion>>
  \/ /\ Cardinality(StillIn(ed)) > 1
     /\ Open(ed.matches) = {}
     /\ AfterStage(ed, Last(ed.matches))

Progress(ms, out, taken) ==
  Onward([matches |-> WalkoversGiven(ms, out), banned |-> out, deducted |-> taken])

-----------------------------------------------------------------------------
(* Registration *)

Register(c) ==
  /\ status = "registration"
  /\ c \notin Entered
  /\ rules.format # "league" => Len(entries) < rules.capacity
  /\ entries' = Append(entries, c)
  /\ UNCHANGED <<rules, status, pool, banned, deducted, matches, champion>>

(* withdraw: the seeds close up and the groups are given up. *)
Withdraw(c) ==
  /\ status = "registration"
  /\ c \in Entered
  /\ entries' = RemoveAt(entries, Seed(c))
  /\ pool' = [d \in Club |-> 0]
  /\ UNCHANGED <<rules, status, banned, deducted, matches, champion>>

(* The pools of the whole edition when the organiser assigned these. *)
Pools(groups) == [c \in Club |-> IF c \in Entered THEN groups[c] ELSE 0]

Groupings ==
  LET last == rules.capacity \div GroupSize
  IN {groups \in [Entered -> 1 .. last] :
        \A g \in 1 .. last : Cardinality({c \in Entered : groups[c] = g}) = GroupSize}

Redrawn(groups) == IF status = "in_progress" THEN InitialFixtures(Pools(groups)) ELSE matches

(* mutant: goalkeepers and launches are not looked at *)
WithoutResults == \A i \in DOMAIN matches : ~matches[i].decided

NothingOnRecord == \A i \in DOMAIN matches : ~matches[i].decided /\ matches[i].mark = "nothing"

(***************************************************************************)
(* assign_groups, by hand or drawn by random_groups: until something is on *)
(* record of a match; after the start the fixtures are made anew.          *)
(***************************************************************************)
AssignGroups ==
  /\ rules.format = "groups_knockout"
  /\ status # "finished"
  /\ NothingOnRecord
  /\ Len(entries) = rules.capacity
  /\ \E groups \in Groupings : pool' = Pools(groups) /\ matches' = Redrawn(groups)
  /\ UNCHANGED <<rules, status, entries, banned, deducted, champion>>

Start ==
  /\ status = "registration"
  /\ IF rules.format = "league" THEN Len(entries) >= 2 ELSE Len(entries) = rules.capacity
  /\ rules' = [rules EXCEPT !.capacity = Len(entries)]
  /\ matches' = InitialFixtures(pool)
  /\ status' = "in_progress"
  /\ UNCHANGED <<entries, pool, banned, deducted, champion>>

-----------------------------------------------------------------------------
(* Matches *)

(* editable_match: in a cascade the matches are played in their order. *)
Editable(i) ==
  /\ status = "in_progress"
  /\ ~matches[i].decided
  /\ rules.format = "cascade" => \A j \in 1 .. i - 1 : matches[j].decided

(* set_goalkeepers before the match begins. *)
SetGoalkeepers(i) ==
  /\ Editable(i)
  /\ matches[i].mark = "nothing"
  /\ matches' = [matches EXCEPT ![i].mark = "goalkeeper"]
  /\ UNCHANGED <<rules, status, entries, pool, banned, deducted, champion>>

(* kickoff_match, or the first launch of add_action. *)
KickoffMatch(i) ==
  /\ Editable(i)
  /\ matches[i].mark # "begun"
  /\ matches' = [matches EXCEPT ![i].mark = "begun"]
  /\ UNCHANGED <<rules, status, entries, pool, banned, deducted, champion>>

(* score: a tie needs a winner, except in tables. *)
Score(i, score, winner) ==
  LET m == matches[i]
  IN /\ Editable(i)
     /\ winner = IF score[1] > score[2] THEN m.home
                 ELSE IF score[2] > score[1] THEN m.away
                 ELSE IF m.stage \in {"groups", "league"} THEN NoClub ELSE winner
     /\ winner = NoClub => m.stage \in {"groups", "league"}
     /\ UNCHANGED <<rules, entries, pool, banned, deducted>>
     /\ Progress([matches EXCEPT ![i].mark = "begun", ![i].decided = TRUE,
                                 ![i].score = score, ![i].winner = winner], banned, deducted)

Walkover(i, winner) ==
  /\ Editable(i)
  /\ matches[i].mark # "begun"
  /\ UNCHANGED <<rules, entries, pool, banned, deducted>>
  /\ Progress([matches EXCEPT ![i].decided = TRUE, ![i].winner = winner,
                              ![i].score = IF winner = matches[i].home THEN <<3, 0>> ELSE <<0, 3>>],
              banned, deducted)

(* punish: points, or disqualification while somebody eligible remains. *)
Punishable(S) ==
  /\ status = "in_progress"
  /\ S # {}
  /\ S \subseteq Eligible

Fined(S, points) == [c \in Club |-> IF c \in S THEN deducted[c] + points ELSE deducted[c]]

TakePoints(S, points) ==
  /\ Punishable(S)
  /\ rules.format \in {"league", "groups_knockout"}
  /\ \A c \in S : deducted[c] + points <= MaxDeducted
  /\ deducted' = Fined(S, points)
  /\ UNCHANGED <<rules, entries, pool, banned>>
  /\ Progress(matches, banned, Fined(S, points))

Disqualify(S) ==
  /\ Punishable(S)
  /\ Eligible \ S # {}
  /\ banned' = banned \cup S
  /\ UNCHANGED <<rules, entries, pool, deducted>>
  /\ Progress(matches, banned \cup S, deducted)

-----------------------------------------------------------------------------
Init ==
  /\ rules \in Edition
  /\ status = "registration"
  /\ entries = <<>>
  /\ pool = [c \in Club |-> 0]
  /\ banned = {}
  /\ deducted = [c \in Club |-> 0]
  /\ matches = <<>>
  /\ champion = NoClub

Result(i) ==
  \/ \E score \in Goals, winner \in {matches[i].home, matches[i].away, NoClub} : Score(i, score, winner)
  \/ \E winner \in {matches[i].home, matches[i].away} : Walkover(i, winner)

Next ==
  \/ \E c \in Club : Register(c)
  \/ \E c \in Club : Withdraw(c)
  \/ AssignGroups
  \/ Start
  \/ \E i \in DOMAIN matches : SetGoalkeepers(i)
  \/ \E i \in DOMAIN matches : KickoffMatch(i)
  \/ \E i \in DOMAIN matches : Result(i)
  \/ \E S \in SUBSET Club, points \in Penalty : TakePoints(S, points)
  \/ \E S \in SUBSET Club : Disqualify(S)

Spec == Init /\ [][Next]_vars

-----------------------------------------------------------------------------
MatchType ==
  [stage : {"league", "knockout", "groups", "winners", "losers", "grand_final"},
   round : Nat, pool : 0 .. 4, home : Club, away : Club,
   mark : {"nothing", "goalkeeper", "begun"}, decided : BOOLEAN,
   score : Nat \X Nat, winner : Club \cup {NoClub}]

TypeOK ==
  /\ rules \in EditionType
  /\ status \in {"registration", "in_progress", "finished"}
  /\ entries \in Seq(Club) /\ IsInjective(entries)
  /\ pool \in [Club -> 0 .. 4]
  /\ banned \subseteq Entered
  /\ deducted \in [Club -> 0 .. MaxDeducted]
  /\ matches \in Seq(MatchType)
  /\ champion \in Club \cup {NoClub}

(***************************************************************************)
(* An edition in progress can go on: some match is to be played, and all   *)
(* that are have two different clubs, neither of them disqualified.  It is *)
(* what the loop of progress_championship is for, and why it ends.  Its    *)
(* rows are what they should be throughout.                                *)
(***************************************************************************)
PlayGoesOn ==
  /\ TypeOK
  /\ status = "in_progress" =>
    /\ Open(matches) # {}
    /\ \A i \in DOMAIN matches : ~matches[i].decided =>
         matches[i].home # matches[i].away /\ {matches[i].home, matches[i].away} \subseteq Eligible

(***************************************************************************)
(* "Cada time participa no máximo uma vez por rodada" (Feedback.md, 10),   *)
(* also when vacancies are filled: "sem duplicar participantes já          *)
(* classificados" (Feedback.md, 1).  The groups have no rounds.            *)
(***************************************************************************)
OneMatchPerRound ==
  \A j \in DOMAIN matches : \A i \in 1 .. j - 1 :
    /\ matches[i].stage = matches[j].stage /\ matches[i].stage # "groups"
    /\ matches[i].round = matches[j].round
    => {matches[i].home, matches[i].away} \cap {matches[j].home, matches[j].away} = {}

(***************************************************************************)
(* "Resultados finalizados são preservados" (Feedback.md, 1), and a match  *)
(* of which something is on record stays the match it is, whoever is       *)
(* punished later and however the groups are changed.                      *)
(***************************************************************************)
RecordsAreKept ==
  [][ \A i \in DOMAIN matches :
        /\ matches[i].decided => i \in DOMAIN matches' /\ matches'[i] = matches[i]
        /\ matches[i].mark # "nothing" =>
             /\ i \in DOMAIN matches'
             /\ matches'[i].home = matches[i].home /\ matches'[i].away = matches[i].away ]_vars

(***************************************************************************)
(* The champion is a club of the edition that is not disqualified, also    *)
(* when the final has no winner; only a cascade may then go without.       *)
(***************************************************************************)
ChampionIsEligible ==
  status = "finished" => champion \in Eligible \/ (champion = NoClub /\ rules.format = "cascade")

(***************************************************************************)
(* In a league everybody meets everybody else, once or once at each home;  *)
(* in the groups, complete ones, everybody meets the others of the group.  *)
(***************************************************************************)
TableMatches == {i \in DOMAIN matches : matches[i].stage \in {"league", "groups"}}

EveryoneMeets ==
  status # "registration" /\ rules.format \in {"league", "groups_knockout"} =>
    LET group == [c \in Entered |-> IF rules.format = "league" THEN 0 ELSE PoolOf(pool, c)]
        pairs == {f \in Entered \X Entered : f[1] # f[2] /\ group[f[1]] = group[f[2]]}
        Meeting(p) == IF rules.homeAndAway THEN p ELSE {p[1], p[2]}
        meetings == {Meeting(p) : p \in pairs}
    IN /\ {Meeting(<<matches[i].home, matches[i].away>>) : i \in TableMatches} = meetings
       /\ Cardinality(TableMatches) = Cardinality(meetings)
       /\ rules.format = "groups_knockout" =>
            \A c \in Entered : Cardinality({d \in Entered : group[d] = group[c]}) = GroupSize

(***************************************************************************)
(* The league goes to an eligible club that no eligible club has more      *)
(* points than, after walkovers and punishments.                           *)
(***************************************************************************)
PointsOf(c) ==
  LET Won(m) == Scored(m, c) > Conceded(m, c)
      Drew(m) == Scored(m, c) = Conceded(m, c)
      Games(Test(_)) == Cardinality({i \in DOMAIN matches :
                          matches[i].decided /\ Plays(matches[i], c) /\ Test(matches[i])})
  IN 3 * Games(Won) + Games(Drew) - deducted[c]

BestOfTheLeague ==
  status = "finished" /\ rules.format = "league" /\ Cardinality(Eligible) > 1 =>
    \A c \in Eligible : PointsOf(c) <= PointsOf(champion)

(***************************************************************************)
(* Whoever wins a knockout match and is not disqualified plays the next    *)
(* round, unless there are too few clubs left for it.                      *)
(***************************************************************************)
NewOnes == {i \in DOMAIN matches' : i > Len(matches)}

WinnersAdvance ==
  [][ status' = "in_progress" /\ NewOnes # {} /\ matches # <<>> /\ Last(matches).stage = "knockout" =>
        LET round == {i \in DOMAIN matches : matches[i].stage = "knockout"
                                            /\ matches[i].round = Last(matches).round}
        IN 2 * Cardinality(NewOnes) = Cardinality(round) =>
             \A i \in round : matches'[i].winner \in Eligible' =>
               \E k \in NewOnes : Plays(matches'[k], matches'[i].winner) ]_vars

(***************************************************************************)
(* Each group sends as many of its eligible clubs to the knockout as it    *)
(* has places there, unless there are too few clubs for the whole bracket. *)
(***************************************************************************)
GroupsSendTheirs ==
  [][ status' = "in_progress" /\ matches # <<>> /\ NewOnes # {}
      /\ <<Last(matches).stage, Last(matches').stage>> = <<"groups", "knockout">> =>
        LET Of(g) == {c \in Eligible' : PoolOf(pool, c) = g}
            groups == {PoolOf(pool, c) : c \in Entered}
            sent == {matches'[k].home : k \in NewOnes} \cup {matches'[k].away : k \in NewOnes}
        IN 2 * Cardinality(NewOnes) = PerPool * Cardinality(groups) =>
             \A g \in groups :
               Cardinality(sent \cap Of(g)) >= Min({PerPool, Cardinality(Of(g))}) ]_vars

(***************************************************************************)
(* A cascade nobody is disqualified from: two defeats and one is out, and  *)
(* the grand final is between an unbeaten club and one beaten once.        *)
(***************************************************************************)
Defeats(c) ==
  Cardinality({i \in DOMAIN matches :
    matches[i].decided /\ Plays(matches[i], c) /\ matches[i].winner # c})

TwoDefeatsAndOut ==
  status = "in_progress" /\ rules.format = "cascade" /\ banned = {} =>
    \A i \in DOMAIN matches : ~matches[i].decided =>
      /\ Defeats(matches[i].home) = IF matches[i].stage = "losers" THEN 1 ELSE 0
      /\ Defeats(matches[i].away) = IF matches[i].stage = "winners" THEN 0 ELSE 1

(***************************************************************************)
(* "a final define o campeão e encerra a edição" (docs/DEVELOPMENT.md): an *)
(* edition is not closed without a champion.                               *)
(***************************************************************************)
TheFinalNamesAChampion == status = "finished" => champion # NoClub
=============================================================================
