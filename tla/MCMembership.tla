----------------------------- MODULE MCMembership -----------------------------
(* A group of three accounts, with two requests in progress at a time.     *)
EXTENDS Membership, TLC

CONSTANTS
  Insider,     \* is a member already, whom the owner may make an administrator
  Outsider     \* comes, goes, is blocked, deactivated and graded

(* The insider has asked to join and been approved, which Init leads to.   *)
MCInit ==
  /\ session = [t \in Token |-> Nobody]
  /\ left = [t \in Token |-> 0]
  /\ enabled = Profile
  /\ standing = [p \in Profile |-> IF p = Outsider THEN "none" ELSE "active"]
  /\ post = [p \in Profile |-> "member"]
  /\ request = [p \in Profile |-> IF p = Insider THEN "approved" ELSE "none"]
  /\ draws = FALSE
  /\ rating = [p \in Profile |-> {}]
  /\ step = [c \in Call |-> "idle"]
  /\ caller = [c \in Call |-> Nobody]
  /\ subject = [c \in Call |-> Nobody]
  /\ held = [c \in Call |-> {}]

MCSpec == MCInit /\ [][Next]_vars

(* What happens to the outsider does not happen to the others.             *)
OnlyTheOutsider ==
  /\ Profile \ enabled \subseteq {Outsider}
  /\ standing[Insider] = "active"
  /\ \A p \in Profile \ {Outsider} : rating[p] = {}

(* Requests and tokens are interchangeable.                                *)
Alike == Permutations(Call) \cup Permutations(Token)
=============================================================================
