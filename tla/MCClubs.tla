------------------------------- MODULE MCClubs -------------------------------
(***************************************************************************)
(* One club (10) that enters two leagues (1, 2), and another (20) that     *)
(* plays the first and shares a player with it.                            *)
(***************************************************************************)
EXTENDS Clubs, TLC

CONSTANTS ana, bia, caio, eva

MCOwner    == (10 :> ana) @@ (20 :> bia)
MCCapacity == (1 :> 2) @@ (2 :> 2)

(* Those who have accepted at the beginning, when the first club is in the  *)
(* second league already; invitations and a registration lead there.       *)
Founders == (10 :> {ana, eva}) @@ (20 :> {bia, caio})

MCInit ==
  /\ member = [c \in Club |-> [p \in Person |-> IF p \in Founders[c] THEN "accepted" ELSE "none"]]
  /\ clubKeeper = [c \in Club |-> Nobody]
  /\ status = [e \in Edition |-> "registration"]
  /\ roster = [e \in Edition |-> [c \in Club |-> IF e = 2 /\ c = 10 THEN Founders[c] ELSE {}]]
  /\ entryKeeper = [e \in Edition |-> [c \in Club |-> Nobody]]
  /\ games = [e \in Edition |-> <<>>]
  /\ lock = [r \in Row |-> Free]
  /\ call = [k \in Call |-> Idle]

MCSpec == MCInit /\ [][Next]_vars /\ Fairness

-----------------------------------------------------------------------------
(* Bounds *)

(* Only caio changes his mind, once, and only about the first club.  An    *)
(* invitation is answered at once, a request of his may take its time.     *)
OneNewcomer ==
  /\ member[10][caio] # "declined"
  /\ member[10][caio] = "pending" => \A k \in Call : call[k] = Idle
  /\ \A c \in Club, p \in Person :
       (c = 10 /\ p = caio) \/ member[c][p] = IF p \in Founders[c] THEN "accepted" ELSE "none"

(***************************************************************************)
(* The first request is the first club's; the second may change its keeper *)
(* or register the second club.                                            *)
(***************************************************************************)
OneAmbitious ==
  /\ call["first"].club # 20
  /\ call["second"].op \in {"idle", "looking", "club"} \/ (call["second"].op = "register" /\ call["second"].club = 20)
  /\ call["second"].op \in {"looking", "club"} => call["second"].club = 10
  /\ \A k \in Call : call[k].keeper \in IF call[k].op \in {"looking", "club"} THEN {ana, caio} ELSE {ana, Nobody}

(* The second league stays as it is; in the first, a second match follows  *)
(* the first one, where the organiser may give eva the goal.               *)
OneLeaguePlayed ==
  /\ status[2] = "registration" /\ Entries(2) = {10}
  /\ \A k \in Call : call[k].op \in {"register", "withdraw", "entry"} => call[k].editions = {1}
  /\ \A i \in DOMAIN games[1] :
       /\ games[1][i].club = IF i = 1 THEN <<10, 20>> ELSE <<20, 10>>
       /\ \A s \in Side : games[1][i].chosen[s] => i = 1 /\ games[1][i].keeper[s] = eva
       /\ i = 2 => games[1][1].state = "decided" /\ ~games[1][1].chosen[1] /\ games[1][2].state = "pending"
=============================================================================
