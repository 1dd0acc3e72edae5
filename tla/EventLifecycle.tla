---------------------------- MODULE EventLifecycle ----------------------------
(***************************************************************************)
(* The life of one event, from the confirmations to the last match:        *)
(* controllers/lifecycle.py on top of the confirmation list of Slots.      *)
(*                                                                         *)
(* Every handler takes the lock of the event's row before it reads         *)
(* (managed_event, group_event with lock=True), commits in one transaction *)
(* and rolls everything back when it refuses: each is one atomic action    *)
(* whose guard is the conjunction of its refusals.  Team names, colours,   *)
(* jersey numbers, the timer and the sheet of the match change no guard    *)
(* here; the score only decides who may win, so the winner is any of the   *)
(* two teams (module MatchSheet has the score).                            *)
(***************************************************************************)
EXTENDS Slots, Sequences, Functions

CONSTANTS
  Team,        \* the teams a formation may use (event_teams rows)
  NoTeam,      \* somebody without a row in event_team_players
  Nobody       \* replaced_lineup_id IS NULL

ASSUME TeamAssumption == IsFiniteSet(Team) /\ NoTeam \notin Team
ASSUME NobodyAssumption == Nobody \notin Person

VARIABLES
  teams,       \* event_teams
  team,        \* event_team_players: the team of each person, or NoTeam
  job,         \* event_team_players.role
  queue,       \* event_team_queue_entries by position
  kicked,      \* does the event have a first match?
  court,       \* the teams of the match in progress ({} when there is none)
  side,        \* match_lineups of that match: the side each person is on
  active,      \* ... and who is still active in it
  replaced     \* ... and whom a substitute replaced

rosterVars == <<teams, team, job>>
matchVars  == <<kicked, court, side, active, replaced>>
dayVars    == <<teams, team, job, queue, kicked, court, side, active, replaced>>
vars       == <<status, settings, confirmed, waiting, role,
                teams, team, job, queue, kicked, court, side, active, replaced>>

(* What the day looks like to somebody who only watches the teams play.    *)
Phase == IF status = "finished" THEN "over" ELSE IF kicked THEN "playing" ELSE "before"

Rota == INSTANCE Rotation WITH phase <- Phase

-----------------------------------------------------------------------------
(* Rosters *)

Squad(t) == {p \in Person : team[p] = t}
Rostered == {p \in Person : team[p] # NoTeam}
Keepers  == {p \in Rostered : job[p] = "goalkeeper"}
Waits    == Range(queue)

(***************************************************************************)
(* The formations build_teams accepts, drawn or chosen by hand: every      *)
(* confirmed person in exactly one team, nobody else in any, at most one   *)
(* keeper per team; with split places the roles are the confirmed ones and *)
(* every team has a field player.                                          *)
(***************************************************************************)
ValidFormation(all, squadOf, jobs) ==
  /\ \A t \in all : \E p \in confirmed : squadOf[p] = t
  /\ \A p, q \in confirmed :
       jobs[p] = "goalkeeper" /\ jobs[q] = "goalkeeper" /\ squadOf[p] = squadOf[q] => p = q
  /\ settings.split =>
       /\ \A p \in confirmed : jobs[p] = role[p]
       /\ \A t \in all : \E p \in confirmed : squadOf[p] = t /\ jobs[p] = "player"

(* The roles an organiser may give: free only when places are not split.   *)
JobChoices == IF settings.split THEN {[p \in confirmed |-> role[p]]} ELSE [confirmed -> Role]

FormTeams(all, squadOf, jobs) ==
  /\ ~kicked
  /\ Cardinality(all) \in 3 .. 4
  /\ ValidFormation(all, squadOf, jobs)
  /\ teams' = all
  /\ team' = [p \in Person |-> IF p \in confirmed THEN squadOf[p] ELSE NoTeam]
  /\ job' = [p \in Person |-> IF p \in confirmed THEN jobs[p] ELSE "player"]
  /\ queue' = <<>>
  /\ UNCHANGED <<slotVars, matchVars>>

BuildTeams(all, squadOf, jobs) ==
  /\ status = "registration_open"
  /\ FormTeams(all, squadOf, jobs)

NoFormation ==
  /\ teams' = {}
  /\ team' = [p \in Person |-> NoTeam]
  /\ job' = [p \in Person |-> "player"]
  /\ queue' = <<>>

(***************************************************************************)
(* update_confirmation_settings: new limits void the formation.            *)
(***************************************************************************)
UpdateConfirmationSettings(s) ==
  /\ ~kicked
  /\ ChangeSettings(s)
  /\ NoFormation
  /\ UNCHANGED matchVars

(* start: enough people, all of them in the three or four teams, in the    *)
(* roles they confirmed.                                                   *)
StartEvent ==
  /\ Begin
  /\ settings.split => \A p \in Rostered : p \in confirmed /\ job[p] = role[p]
  /\ Cardinality(teams) \in 3 .. 4
  /\ \A t \in teams : Squad(t) # {}
  /\ Rostered = confirmed
  /\ UNCHANGED dayVars

-----------------------------------------------------------------------------
(* Matches *)

(***************************************************************************)
(* create_match: the lineup is the rosters of the two teams, all of whom   *)
(* must still be confirmed.                                                *)
(***************************************************************************)
CreateMatch(pair, squadOf) ==
  LET players == {p \in Person : squadOf[p] \in pair}
  IN /\ players # {}
     /\ players \subseteq confirmed
     /\ court' = pair
     /\ side' = [p \in Person |-> IF p \in players THEN squadOf[p] ELSE NoTeam]
     /\ active' = players
     /\ replaced' = [p \in Person |-> Nobody]

TwoKeepers == settings.split /\ Cardinality(Keepers) = 2

(* The orders in which the teams of S may wait. *)
LinesOf(S) == Bijection(1 .. Cardinality(S), S)

(***************************************************************************)
(* kickoff, first match between a and b: the other teams wait, in draw     *)
(* order when the pair was chosen and in any order when it was drawn; with *)
(* exactly two keepers each side gets one of them.                         *)
(***************************************************************************)
FirstMatch(a, b, outside) ==
  /\ status = "in_progress"
  /\ Cardinality(teams) >= 3
  /\ a # b
  /\ Rostered = confirmed
  /\ queue' \in LinesOf(outside)
  /\ IF TwoKeepers
     THEN \E k \in Keepers :
            team' = [p \in Person |-> IF p = k THEN a
                                      ELSE IF p \in Keepers THEN b ELSE team[p]]
     ELSE UNCHANGED team
  /\ CreateMatch({a, b}, team')
  /\ kicked' = TRUE
  /\ UNCHANGED <<slotVars, teams, job>>

KickoffAgain(a, b) == FirstMatch(a, b, teams \ {a, b})        \* mutant: a second one

Kickoff(a, b) == ~kicked /\ FirstMatch(a, b, teams \ {a, b})

(***************************************************************************)
(* finish_match with continue_cycle: the winner stays, the first of the    *)
(* queue comes in, the loser goes to its end; with exactly two keepers the *)
(* loser's goes to the team that comes in.                                 *)
(***************************************************************************)
KeepersMoved(loser, challenger) ==
  IF TwoKeepers
  THEN [p \in Person |-> IF p \in Keepers /\ team[p] = loser THEN challenger ELSE team[p]]
  ELSE team

NextMatch(loser, squadOf, line) ==
  /\ status = "in_progress"
  /\ loser \in court
  /\ queue # <<>>
  /\ Waits \cap court = {}
  /\ team' = squadOf
  /\ queue' = line
  /\ CreateMatch((court \ {loser}) \cup {Head(queue)}, squadOf)
  /\ UNCHANGED <<slotVars, teams, job, kicked>>

FinishKeepersStay(loser) ==                           \* mutant: the keeper leaves with them
  NextMatch(loser, team, Append(Tail(queue), loser))
FinishChallengerWaits(loser) ==                       \* mutant: the one who came in still waits
  NextMatch(loser, KeepersMoved(loser, Head(queue)), Append(queue, loser))
FinishLoserFirst(loser) ==                            \* mutant: the loser is the next to play
  NextMatch(loser, KeepersMoved(loser, Head(queue)), <<loser>> \o Tail(queue))

FinishAndContinue(loser) ==
  NextMatch(loser, KeepersMoved(loser, Head(queue)), Append(Tail(queue), loser))

(* The match in progress, or the lack of one, after the event is over.     *)
NoMatch ==
  /\ court' = {}
  /\ side' = [p \in Person |-> NoTeam]
  /\ active' = {}
  /\ replaced' = [p \in Person |-> Nobody]

(* finish_match with continue_cycle=false: the match ends and so does the  *)
(* event.                                                                  *)
FinishAndClose ==
  /\ court # {}
  /\ End
  /\ queue' = <<>>
  /\ NoMatch
  /\ UNCHANGED <<rosterVars, kicked>>

(* finish_event: only when no match is in progress.                        *)
FinishEvent ==
  /\ court = {}
  /\ End
  /\ queue' = <<>>
  /\ UNCHANGED <<rosterVars, matchVars>>

(***************************************************************************)
(* add_temporary_player: somebody of a waiting team comes in for an active *)
(* player of the same role, once per person and match.                     *)
(***************************************************************************)
SwapIn(t, in, out) ==
  /\ status = "in_progress"
  /\ t \in court
  /\ in \in confirmed
  /\ team[in] \in Waits
  /\ in # out
  /\ side[out] = t
  /\ side[in] = NoTeam
  /\ side' = [side EXCEPT ![in] = t]
  /\ active' = (active \ {out}) \cup {in}
  /\ replaced' = [replaced EXCEPT ![in] = out]
  /\ UNCHANGED <<slotVars, rosterVars, queue, kicked, court>>

SwapAnyRole(t, in, out) ==                            \* mutant: a field player for a keeper
  out \in active /\ SwapIn(t, in, out)
AddTemporaryPlayer(t, in, out) ==
  /\ out \in active
  /\ job[in] = job[out]
  /\ SwapIn(t, in, out)

-----------------------------------------------------------------------------
Init ==
  /\ SlotsInit
  /\ teams = {}
  /\ team = [p \in Person |-> NoTeam]
  /\ job = [p \in Person |-> "player"]
  /\ queue = <<>>
  /\ kicked = FALSE
  /\ court = {}
  /\ side = [p \in Person |-> NoTeam]
  /\ active = {}
  /\ replaced = [p \in Person |-> Nobody]

Attendance == PresenceStep /\ UNCHANGED dayVars

Next ==
  \/ Attendance
  \/ \E s \in Settings : UpdateConfirmationSettings(s)
  \/ \E all \in SUBSET Team : \E squadOf \in [confirmed -> all], jobs \in JobChoices :
       BuildTeams(all, squadOf, jobs)
  \/ StartEvent
  \/ \E a, b \in teams : Kickoff(a, b)
  \/ \E loser \in court : FinishAndContinue(loser)
  \/ FinishAndClose
  \/ FinishEvent
  \/ \E t \in court, in, out \in Person : AddTemporaryPlayer(t, in, out)

Spec == Init /\ [][Next]_vars
-----------------------------------------------------------------------------
TypeOK ==
  /\ SlotsTypeOK
  /\ teams \in SUBSET Team
  /\ team \in [Person -> teams \cup {NoTeam}]
  /\ job \in [Person -> Role]
  /\ queue \in Seq(Team)
  /\ kicked \in BOOLEAN
  /\ court \in SUBSET Team
  /\ side \in [Person -> court \cup {NoTeam}]
  /\ active \in SUBSET Person
  /\ replaced \in [Person -> Person \cup {Nobody}]

(***************************************************************************)
(* From kick-off to the end of the event every team either plays or waits, *)
(* never both and never twice, and two teams are always on the court:      *)
(* kickoff, finish_match and replace_queue rewrite the two halves apart.   *)
(***************************************************************************)
EveryTeamPlaysOrWaits ==
  status = "in_progress" /\ kicked =>
    /\ court \cup Waits = teams
    /\ court \cap Waits = {}
    /\ IsInjective(queue)
    /\ Cardinality(court) = 2
    /\ queue # <<>>

(* Before kick-off and after the end nobody plays and nobody waits.        *)
NoMatchOutsideTheDay ==
  ~(status = "in_progress" /\ kicked) => court = {} /\ queue = <<>> /\ active = {}

(***************************************************************************)
(* With split places and exactly two keepers, both sides of every match    *)
(* have a keeper, however often they changed teams: "o goleiro do time que *)
(* sai assume o time que entra" (docs/DEVELOPMENT.md).                     *)
(***************************************************************************)
AKeeperOnEachSide ==
  TwoKeepers /\ court # {} =>
    \A t \in court : \E k \in active : side[k] = t /\ job[k] = "goalkeeper"

(***************************************************************************)
(* Substitutions keep each side at full strength: as many active people,   *)
(* and as many active keepers, as the team's roster has, all coming from   *)
(* that roster or from a team that waits.                                  *)
(***************************************************************************)
FullStrength ==
  \A t \in court :
    LET playing == {p \in active : side[p] = t}
        Count(S, j) == Cardinality({p \in S : job[p] = j})
    IN /\ \A j \in Role : Count(playing, j) = Count(Squad(t), j)
       /\ \A p \in playing : team[p] = t \/ team[p] \in Waits

(***************************************************************************)
(* Each substitute stands for one person, who is out of the match and whom *)
(* nobody else stands for.                                                 *)
(***************************************************************************)
SubstitutesPairUp ==
  \A p \in Person : replaced[p] # Nobody =>
    /\ replaced[p] \notin active
    /\ side[replaced[p]] = side[p]
    /\ \A q \in Person : replaced[q] = replaced[p] => q = p

(***************************************************************************)
(* After the start only a keeper may change teams, one who goes from the   *)
(* team that leaves to the team that comes in; nobody joins or leaves.     *)
(***************************************************************************)
RostersAreFrozen ==
  [][ status # "registration_open" =>
        /\ UNCHANGED <<teams, job>>
        /\ \A p \in Person : team'[p] # team[p] =>
             /\ p \in Keepers
             /\ team'[p] \in court'
             /\ kicked => team[p] \in court /\ team[p] \notin court' ]_vars

(* A finished event is for reading only.                                   *)
FinishedIsReadOnly == [][status # "finished"]_vars

(* The event implements the rotation.                                      *)
ImplementsRotation == Rota!RotationSpec

(***************************************************************************)
(* If matches keep being finished with another to follow, every team plays *)
(* again and again.                                                        *)
(***************************************************************************)
EveryTeamReturns ==
  ([]<><<\E loser \in court : FinishAndContinue(loser)>>_vars) =>
    \A t \in Team : []<>(t \in teams => t \in court)
=============================================================================
