----------------------------- MODULE MCMatchSheet -----------------------------
(* Small instances of the sheets of a day.                                 *)
EXTENDS MatchSheet, TLC

CONSTANTS ana, bia, caio, l1, l2, l3

(* People are interchangeable, and so are the ids of launches.             *)
Alike == Permutations(Player) \cup Permutations(Launch)
=============================================================================
