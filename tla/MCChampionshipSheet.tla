------------------------- MODULE MCChampionshipSheet -------------------------
(* Two matches between two clubs; players are numbers.                     *)
EXTENDS ChampionshipSheet, TLC

CONSTANTS leg1, leg2

MCSquad == [home |-> {1, 2}, away |-> {3}]

(* Cards are shown to the first player only, and assists are of the home   *)
(* club.                                                                   *)
FewKinds ==
  \A m \in Match : \A a \in sheet[m] :
    /\ a.kind \in {"yellow_card", "red_card"} => a.person = 1
    /\ a.kind = "assist" => SideOf(a.person) = "home"

Goalkeepers == [home |-> 1, away |-> 3]

(* The first leg was played before the second, from an older client that   *)
(* sends no launches: the home club won it by a goal of its second player, *)
(* or of nobody in particular.  Each side had named a goalkeeper.          *)
FirstLeg ==
  IF Open(leg1)
  THEN /\ ~started[leg1] /\ ~started[leg2] /\ Open(leg2) /\ banned = {}
       /\ \A m \in Match : keeper[m] = Goalkeepers
  ELSE /\ sheet[leg1] = {} /\ ~walkover[leg1]
       /\ score[leg1] = [s \in Side |-> IF s = "home" THEN 1 ELSE 0]
       /\ stats[leg1] \in {[p \in Person |-> [NoTally EXCEPT !.goals = IF p = 2 THEN n ELSE 0]] : n \in {0, 1}}

Alike == Permutations(Id)
=============================================================================
