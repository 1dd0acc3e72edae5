------------------------------ MODULE MCCalendar ------------------------------
(* A group whose two people play two weekly events.                        *)
EXTENDS Calendar, TLC

CONSTANT MaxSeasons      \* so many seasons are followed

(* Seasons of one length, and at most so many of them.                     *)
FewSeasons == Len(seasons) <= MaxSeasons

(* One event is scheduled, for the first day; others only follow it.       *)
FirstDay ==
  LET roots == {e \in Event : event[e].there /\ plan[e] = NoEvent}
  IN Cardinality(roots) <= 1 /\ \A e \in roots : event[e].at = 1

(* Events are interchangeable.                                             *)
Alike == Permutations(Event)
=============================================================================
