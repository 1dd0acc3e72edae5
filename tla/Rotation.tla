------------------------------- MODULE Rotation -------------------------------
(***************************************************************************)
(* The rotation a pelada promises: two teams play, the others wait in a    *)
(* line; the winner stays, the first of the line comes in and the loser    *)
(* goes to its end, until somebody closes the day.                         *)
(* EventLifecycle is shown to implement this.                              *)
(***************************************************************************)
EXTENDS Sequences, Functions

CONSTANT Team        \* the teams an event may have

VARIABLES
  phase,       \* "before" the first match, "playing", "over"
  teams,       \* the teams of the day
  court,       \* the two that play
  queue        \* the ones that wait, in order

rotationVars == <<phase, teams, court, queue>>

(* All the teams of S, in some order. *)
IsLine(q, S) == q \in Seq(S) /\ IsInjective(q) /\ Range(q) = S

PickTeams ==
  /\ phase = "before"
  /\ teams' \in SUBSET Team
  /\ UNCHANGED <<phase, court, queue>>

FirstMatch ==
  /\ phase = "before"
  /\ phase' = "playing"
  /\ \E a, b \in teams :
       /\ a # b
       /\ court' = {a, b}
  /\ IsLine(queue', teams \ court')
  /\ queue' # <<>>
  /\ UNCHANGED teams

NextMatch ==
  /\ phase = "playing"
  /\ \E loser \in court :
       /\ court' = (court \ {loser}) \cup {Head(queue)}
       /\ queue' = Append(Tail(queue), loser)
  /\ UNCHANGED <<phase, teams>>

Close ==
  /\ phase # "over"
  /\ phase' = "over"
  /\ court' = {}
  /\ queue' = <<>>
  /\ UNCHANGED teams

RotationInit ==
  /\ phase = "before"
  /\ teams \in SUBSET Team
  /\ court = {}
  /\ queue = <<>>

RotationNext == PickTeams \/ FirstMatch \/ NextMatch \/ Close

RotationSpec == RotationInit /\ [][RotationNext]_rotationVars
=============================================================================
