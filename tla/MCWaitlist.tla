------------------------------ MODULE MCWaitlist ------------------------------
(* Small instances of the confirmation list.                               *)
EXTENDS Waitlist

CONSTANTS ana, bia, caio, davi, gil

Limits(split, minP, maxP, minK, maxK) ==
  [split |-> split, minPlayers |-> minP, maxPlayers |-> maxP,
   minKeepers |-> minK, maxKeepers |-> maxK]

(* A split list, the same one with fewer places, and a combined list.      *)
MCSettings == {Limits(TRUE, 0, 2, 0, 1), Limits(TRUE, 0, 1, 0, 1), Limits(FALSE, 0, 3, 0, 0)}

(* Members and guests are interchangeable among themselves.                *)
People == Permutations(Profile) \cup Permutations(Guest)
=============================================================================
