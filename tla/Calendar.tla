------------------------------- MODULE Calendar -------------------------------
(***************************************************************************)
(* The calendar of one group: its seasons and their archives, the titles   *)
(* they award, and the weekly events.                                      *)
(*                                                                         *)
(* Seasons are turned over by whoever looks (controllers/seasons.py        *)
(* synchronize), under the lock of the group; matches end under the lock   *)
(* of their event (controllers/lifecycle.py finish_match).  Nothing orders *)
(* the two, and each reads the clock before it writes.                     *)
(***************************************************************************)
EXTENDS Integers, Sequences, FiniteSets

CONSTANTS
  Player,       \* people on the sheets of matches
  Guest,        \* those of them without a profile
  Event,        \* ids of events
  NoEvent,
  Length,       \* durations of a season that managers may choose
  Week,         \* ticks from one event to its successor
  MaxTime,      \* bound: the clock stops
  MaxMatches,   \* bound: so many matches end
  MaxWait       \* bound: ticks synchronize may wait for the lock

ASSUME PlayerAssumption == IsFiniteSet(Player) /\ Guest \subseteq Player
ASSUME EventAssumption == NoEvent \notin Event
ASSUME TimeAssumption ==
  /\ Length \subseteq Nat \ {0}
  /\ Week \in Nat \ {0}
  /\ MaxTime \in Nat /\ MaxMatches \in Nat /\ MaxWait \in Nat

VARIABLES
  now,        \* the clock
  settings,   \* seasons_enabled, season_mode, duration, season_fixed_end
  seasons,    \* group_seasons by number
  trophies,   \* season_trophies of the category season_champion
  matches,    \* finished matches, by their ended_at
  ending,     \* for each event, the end of its match that is being written
  event,      \* pelada_events
  plan        \* recurrence_parent_id: the event each one follows

seasonVars == <<settings, seasons, trophies>>
eventVars  == <<event, plan>>
vars == <<now, settings, seasons, trophies, matches, ending, event, plan>>

Time == 0 .. MaxTime

(* Months are periods of some days; the calendar in between is abstracted. *)
Setting == [enabled : BOOLEAN, mode : {"days", "fixed"}, length : Length, fixedEnd : Int]

Match  == [id : Nat, ended : Int, winner : Player, loser : Player]
Season == [starts : Int, ends : Int, archived : BOOLEAN, table : SUBSET Match]

(* A finish_match that has read the clock and not yet committed.           *)
Nothing == [going |-> FALSE]
Finishing(m, c) == [going |-> TRUE, match |-> m, close |-> c]

NoSuchEvent == [there |-> FALSE]
Planned(at, weekly) == [there |-> TRUE, at |-> at, weekly |-> weekly, over |-> FALSE]

-----------------------------------------------------------------------------
(* Rankings and titles *)

(* season_filters: a match counts in the period in which it ended.         *)
Within(m, s) == s.starts <= m.ended /\ m.ended < s.ends

Ranking(s) == {m \in matches : Within(m, s)}

Wins(p, table)   == Cardinality({m \in table : m.winner = p})
Losses(p, table) == Cardinality({m \in table : m.loser = p})
Played(table)    == {m.winner : m \in table} \cup {m.loser : m \in table}

(* standings_key, without draws and goals.                                 *)
Better(p, q, table) ==
  \/ Wins(p, table) > Wins(q, table)
  \/ Wins(p, table) = Wins(q, table) /\ Losses(p, table) < Losses(q, table)

(* season_winners: all who share the best place; guests get no trophy.     *)
Champions(table) ==
  {p \in Played(table) : \A q \in Played(table) : ~Better(q, p, table)} \ Guest

Titles(i, s) == {[season |-> i, person |-> p] : p \in Champions(s.table)}

TitlesNow(i, s) == {[season |-> i, person |-> p] : p \in Champions(Ranking(s))}  \* mutant: of the matches now

AwardedAnew(ss, some) == UNION {TitlesNow(i, ss[i]) : i \in some}     \* mutant

(* award_season for some archived seasons: rows that exist stay.           *)
Awarded(ss, some) == UNION {Titles(i, ss[i]) : i \in some}

Archived(ss) == {i \in DOMAIN ss : ss[i].archived}

-----------------------------------------------------------------------------
(* Seasons *)

Archive(s) == [s EXCEPT !.archived = TRUE, !.table = Ranking(s)]

PeriodEnd(set, start) == IF set.mode = "fixed" THEN set.fixedEnd ELSE start + set.length

Opened(set, at) == [starts |-> at, ends |-> PeriodEnd(set, at), archived |-> FALSE, table |-> {}]

(* How many periods have ended since the last season began, seen at `at'.  *)
Expired(set, ss, at) ==
  LET last == ss[Len(ss)]
  IN IF last.ends > at THEN 0
     ELSE IF set.mode = "fixed" THEN 1 ELSE 1 + (at - last.ends) \div set.length

(* The loop of synchronize, which archives and opens one after the other.  *)
TurnedOver(set, ss, at) ==
  LET n    == Len(ss)
      k    == Expired(set, ss, at)
      last == ss[n]
      Following(i) == [starts |-> last.ends + (i - 1) * set.length,
                       ends |-> last.ends + i * set.length, archived |-> FALSE, table |-> {}]
      all  == [i \in 1 .. n + (IF set.mode = "fixed" THEN 0 ELSE k) |-> IF i <= n THEN ss[i] ELSE Following(i - n)]
  IN [i \in DOMAIN all |-> IF i >= n /\ i < n + k THEN Archive(all[i]) ELSE all[i]]

(* The settings and seasons after synchronize, which read the clock at `at'. *)
Synced(at) ==
  IF ~settings.enabled THEN [settings |-> settings, seasons |-> seasons]
  ELSE [settings |-> [settings EXCEPT !.enabled = settings.mode = "days" \/ Expired(settings, seasons, at) = 0],
        seasons |-> TurnedOver(settings, seasons, at)]

(***************************************************************************)
(* Settings, history or rankings are asked for.  The clock is read before  *)
(* the lock of the group is waited for.                                    *)
(***************************************************************************)
Synchronize(at) ==
  /\ at <= now /\ at >= now - MaxWait
  /\ settings' = Synced(at).settings
  /\ seasons' = Synced(at).seasons
  /\ trophies' = trophies \cup Awarded(seasons', Archived(seasons') \ Archived(seasons))
  /\ UNCHANGED <<now, matches, ending, eventVars>>

(* A profile asks for its trophies: every archived season is awarded again. *)
MyTrophies(at) ==
  /\ at <= now /\ at >= now - MaxWait
  /\ settings' = Synced(at).settings
  /\ seasons' = Synced(at).seasons
  /\ trophies' = trophies \cup Awarded(seasons', Archived(seasons'))
  /\ UNCHANGED <<now, matches, ending, eventVars>>

(* Switched off: the season ends now, but not before it has begun.         *)
ClosedAtOnce(s) == Archive([s EXCEPT !.ends = now])                    \* mutant

ClosedNow(s) == Archive([s EXCEPT !.ends = IF now > s.starts THEN now ELSE s.starts + 1])

ResetReopening(was, set, ss) ==      \* mutant: switched on again, the last season goes on
  LET n == Len(ss)
  IN IF was.enabled /\ ~set.enabled THEN [ss EXCEPT ![n] = ClosedNow(ss[n])]
     ELSE IF set.enabled /\ n > 0 /\ ~was.enabled
          THEN [ss EXCEPT ![n] = [ss[n] EXCEPT !.ends = PeriodEnd(set, now), !.archived = FALSE]]
     ELSE IF set.enabled /\ n = 0 THEN Append(ss, Opened(set, now))
     ELSE ss

(* What update_settings does to the seasons it finds turned over.          *)
Reset(was, set, ss) ==
  LET n       == Len(ss)
      changed == was.mode # set.mode \/ was.fixedEnd # set.fixedEnd
  IN IF was.enabled /\ ~set.enabled THEN [ss EXCEPT ![n] = ClosedNow(ss[n])]
     ELSE IF ~was.enabled /\ set.enabled THEN Append(ss, Opened(set, now))
     ELSE IF set.enabled /\ changed THEN [ss EXCEPT ![n].ends = PeriodEnd(set, now)]
     ELSE ss

(***************************************************************************)
(* A manager changes the settings.  The lock comes first, then the clock;  *)
(* no two requests of this kind read the same time.                        *)
(***************************************************************************)
UpdateSettings(set) ==
  /\ now < MaxTime
  /\ set.enabled /\ set.mode = "fixed" => set.fixedEnd > now
  /\ LET found == Synced(now)
     IN seasons' = Reset(found.settings, set, found.seasons)
  /\ settings' = set
  /\ trophies' = trophies \cup Awarded(seasons', Archived(seasons') \ Archived(seasons))
  /\ now' = now + 1
  /\ UNCHANGED <<matches, ending, eventVars>>

-----------------------------------------------------------------------------
(* Events and their matches *)

(* A manager schedules an event under an id of the client's choice; the    *)
(* request may come again, and changes nothing then.                       *)
Schedule(e, at, weekly) ==
  /\ ~event[e].there
  /\ at > now
  /\ event' = [event EXCEPT ![e] = Planned(at, weekly)]
  /\ UNCHANGED <<now, seasonVars, matches, ending, plan>>

Open(e) == event[e].there /\ ~event[e].over

Numbers == {m.id : m \in matches} \cup {ending[e].match.id : e \in {f \in Event : ending[f].going}}

(* finish_match has the lock of the event, and reads the clock.            *)
BeginFinish(e, w, l, close) ==
  /\ Open(e)
  /\ ~ending[e].going
  /\ w # l
  /\ \E id \in 1 .. MaxMatches :
       /\ id \notin Numbers /\ 1 .. id - 1 \subseteq Numbers
       /\ ending' = [ending EXCEPT ![e] = Finishing([id |-> id, ended |-> now, winner |-> w, loser |-> l], close)]
  /\ UNCHANGED <<now, seasonVars, matches, eventVars>>

(* schedule_next, before the event is closed in the same transaction.      *)
Follow(e) ==
  IF event[e].weekly /\ \A f \in Event : plan[f] # e
  THEN \E f \in Event :
         /\ ~event[f].there
         /\ event' = [event EXCEPT ![e].over = TRUE, ![f] = Planned(event[e].at + Week, TRUE)]
         /\ plan' = [plan EXCEPT ![f] = e]
  ELSE /\ event' = [event EXCEPT ![e].over = TRUE]
       /\ UNCHANGED plan

(* finish_match commits, and closes the event if it was asked to.          *)
FinishMatch(e) ==
  /\ ending[e].going
  /\ matches' = matches \cup {ending[e].match}
  /\ ending' = [ending EXCEPT ![e] = Nothing]
  /\ IF ending[e].close THEN Follow(e) ELSE UNCHANGED eventVars
  /\ UNCHANGED <<now, seasonVars>>

(* ... or fails, and the transaction is rolled back.                       *)
FinishFails(e) ==
  /\ ending[e].going
  /\ ending' = [ending EXCEPT ![e] = Nothing]
  /\ UNCHANGED <<now, seasonVars, matches, eventVars>>

FinishEventAlone(e) ==                        \* mutant: no next week
  /\ Open(e)
  /\ ~ending[e].going
  /\ event' = [event EXCEPT ![e].over = TRUE]
  /\ UNCHANGED <<now, seasonVars, matches, ending, plan>>

(* finish_event, with no match in progress; it waits for the same lock.    *)
FinishEvent(e) ==
  /\ Open(e)
  /\ ~ending[e].going
  /\ Follow(e)
  /\ UNCHANGED <<now, seasonVars, matches, ending>>

Tick ==
  /\ now < MaxTime
  /\ now' = now + 1
  /\ UNCHANGED <<seasonVars, matches, ending, eventVars>>

-----------------------------------------------------------------------------
Init ==
  /\ now = 0
  /\ settings \in [enabled : {FALSE}, mode : {"days"}, length : Length, fixedEnd : {0}]
  /\ seasons = <<>>
  /\ trophies = {}
  /\ matches = {}
  /\ ending = [e \in Event |-> Nothing]
  /\ event = [e \in Event |-> NoSuchEvent]
  /\ plan = [e \in Event |-> NoEvent]

(* fixed_end is sent with the mode that uses it.                           *)
Choices == {s \in [enabled : BOOLEAN, mode : {"days", "fixed"}, length : Length, fixedEnd : Time] :
              s.mode = "days" => s.fixedEnd = 0}

EventStep ==
  \E e \in Event :
    \/ \E at \in Time, weekly \in BOOLEAN : Schedule(e, at, weekly)
    \/ \E w, l \in Player, close \in BOOLEAN : BeginFinish(e, w, l, close)
    \/ FinishMatch(e)
    \/ FinishFails(e)
    \/ FinishEvent(e)

Next ==
  \/ Tick
  \/ \E at \in Time : Synchronize(at) \/ MyTrophies(at)
  \/ \E set \in Choices : UpdateSettings(set)
  \/ EventStep

Spec == Init /\ [][Next]_vars

-----------------------------------------------------------------------------
(***************************************************************************)
(* Rows of settings, seasons, matches and events; no event follows itself  *)
(* or one that is not there.                                               *)
(***************************************************************************)
TypeOK ==
  /\ now \in Time
  /\ settings \in Setting
  /\ seasons \in Seq(Season)
  /\ trophies \subseteq [season : Nat, person : Player \ Guest]
  /\ matches \subseteq Match
  /\ \A e \in Event :
       /\ ending[e] = Nothing \/ (ending[e].match \in Match /\ ending[e].close \in BOOLEAN /\ Open(e))
       /\ event[e] = NoSuchEvent \/ (event[e].at \in Nat /\ event[e].weekly \in BOOLEAN /\ event[e].over \in BOOLEAN)
       /\ plan[e] # NoEvent => plan[e] \in Event \ {e} /\ event[e].there /\ event[plan[e]].there

(***************************************************************************)
(* However seldom anybody looks, and whatever is switched on, off or       *)
(* changed: seasons last some time, follow one another without overlap,    *)
(* and all but the running one are archived.                               *)
(***************************************************************************)
SeasonsFollow ==
  /\ \A i \in DOMAIN seasons :
       /\ seasons[i].starts < seasons[i].ends
       /\ i > 1 => seasons[i - 1].ends <= seasons[i].starts
       /\ seasons[i].archived <=> (i < Len(seasons) \/ ~settings.enabled)
  /\ settings.enabled => seasons # <<>>

(***************************************************************************)
(* A match counts in one season at most: the limit at which one ends and   *)
(* the next begins belongs to the next ("O limite final e exclusivo").     *)
(***************************************************************************)
NoMatchTwice ==
  \A i, j \in DOMAIN seasons : i # j => seasons[i].table \cap seasons[j].table = {}

(***************************************************************************)
(* The titles are those of the archives, however often they are awarded    *)
(* again and whatever was committed since.                                 *)
(***************************************************************************)
TitlesFollowTheArchive == trophies = Awarded(seasons, Archived(seasons))

(***************************************************************************)
(* A weekly event that is over has exactly one successor, a week later and *)
(* weekly itself, whichever of the two handlers ended it; no other event   *)
(* has any.                                                                *)
(***************************************************************************)
OneSuccessor ==
  \A e \in Event :
    LET after == {f \in Event : plan[f] = e}
    IN IF event[e].there /\ event[e].over /\ event[e].weekly
       THEN \E f \in Event : after = {f} /\ event[f].at = event[e].at + Week /\ event[f].weekly
       ELSE after = {}

(***************************************************************************)
(* An archive is for reading: once a season is archived neither its period *)
(* nor its ranking changes, whatever is committed or set afterwards.       *)
(***************************************************************************)
ArchiveIsFinal ==
  [][ \A i \in Archived(seasons) : i \in DOMAIN seasons' /\ seasons'[i] = seasons[i] ]_vars
=============================================================================
