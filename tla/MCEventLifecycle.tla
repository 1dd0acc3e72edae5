--------------------------- MODULE MCEventLifecycle ---------------------------
(***************************************************************************)
(* Small instances of an event.  They start from a list that is already    *)
(* full, a state that Init reaches by letting everybody in FirstIn confirm *)
(* in turn: how the list fills is module Waitlist's business.              *)
(***************************************************************************)
EXTENDS EventLifecycle, TLC

CONSTANTS ana, bia, caio, davi, edu, fabi, gil, red, blue, gold, lime

CONSTANTS
  FirstIn,        \* who holds a place at first
  Keepers0,       \* ... and asked to keep goal
  MayKeep,        \* the people who may ask for either role
  AbsenceBound    \* how many people may be off the list at a time

Limits(split, minP, maxP, minK, maxK) ==
  [split |-> split, minPlayers |-> minP, maxPlayers |-> maxP,
   minKeepers |-> minK, maxKeepers |-> maxK]

TwoKeepersSettings == {Limits(TRUE, 3, 4, 1, 2), Limits(TRUE, 3, 3, 2, 2)}
CombinedSettings   == {Limits(FALSE, 3, 4, 0, 0)}

MCInit ==
  /\ status = "registration_open"
  /\ settings \in {s \in Settings : Cardinality(FirstIn \ (IF s.split THEN Keepers0 ELSE {})) <= s.maxPlayers}
  /\ confirmed = FirstIn
  /\ waiting = {}
  /\ role = [p \in Person |-> IF p \in Keepers0 THEN "goalkeeper" ELSE "player"]
  /\ teams = {}
  /\ team = [p \in Person |-> NoTeam]
  /\ job = [p \in Person |-> "player"]
  /\ queue = <<>>
  /\ kicked = FALSE
  /\ court = {}
  /\ side = [p \in Person |-> NoTeam]
  /\ active = {}
  /\ replaced = [p \in Person |-> Nobody]

MCSpec == MCInit /\ [][Next]_vars

(***************************************************************************)
(* For liveness: the day has just started, one person in each team.  From  *)
(* MCInit one BuildTeams and StartEvent lead here.                         *)
(***************************************************************************)
MCDayInit ==
  /\ status = "in_progress"
  /\ settings \in Settings
  /\ confirmed = Person
  /\ waiting = {}
  /\ role = [p \in Person |-> "player"]
  /\ teams = Team
  /\ team \in {f \in [Person -> Team] : f[ana] = red /\ f[bia] = blue /\ f[caio] = gold /\ f[davi] = lime}
  /\ job = [p \in Person |-> "player"]
  /\ queue = <<>>
  /\ kicked = FALSE
  /\ court = {}
  /\ side = [p \in Person |-> NoTeam]
  /\ active = {}
  /\ replaced = [p \in Person |-> Nobody]

MCDaySpec == MCDayInit /\ [][Next]_vars

(* Nearly everybody is on the list, and most people play one role only.    *)
QuietList ==
  /\ Cardinality(Person \ (confirmed \cup waiting)) <= AbsenceBound
  /\ \A p \in Person \ MayKeep : role[p] = IF p \in Keepers0 THEN "goalkeeper" ELSE "player"

(* People with the same habits are interchangeable, and so are the teams.  *)
Alike ==
  UNION {Permutations(g) : g \in {Team, Guest, MayKeep, Keepers0 \ MayKeep,
                                   Profile \ (Keepers0 \cup MayKeep)}}
=============================================================================
