------------------------- MODULE EventLifecycleProofs -------------------------
(***************************************************************************)
(* Proofs about the confirmation list and the life of an event, for any    *)
(* people, teams and limits.  The list's theorems, which come first, hold  *)
(* of the event too, since every step of it is a step of the list or       *)
(* leaves the list alone; the rest follows from the inductive invariant    *)
(* DayInv.                                                                 *)
(***************************************************************************)
EXTENDS EventLifecycle, FiniteSetTheorems, SequenceTheorems, TLAPS

-----------------------------------------------------------------------------
(* The confirmation list                                                   *)

(* A list as a request writes it, before the database rebalances it.       *)
List(s, ro, conf, wait) ==
  /\ s \in SettingsType
  /\ ro \in [Person -> Role]
  /\ conf \in SUBSET Person
  /\ wait \in SUBSET Person
  /\ conf \cap wait = {}

(* PlacesUsedExactly of a list. *)
Exact(s, ro, conf, wait) ==
  \A r \in Pools(s) :
    LET pool == InPool(s, ro, r)
    IN /\ Cardinality(conf \cap pool) <= Limit(s, r)
       /\ wait \cap pool # {} => Cardinality(conf \cap pool) = Limit(s, r)

Within(s, ro, conf) ==
  \A r \in Pools(s) : Cardinality(conf \cap InPool(s, ro, r)) <= Limit(s, r)

SlotsInv == SlotsTypeOK /\ PlacesUsedExactly

-----------------------------------------------------------------------------
(* There are finitely many people, so every set of them can be counted.    *)
LEMMA Countable ==
  ASSUME NEW S \in SUBSET Person
  PROVE  IsFiniteSet(S) /\ Cardinality(S) \in Nat
<1>1. IsFiniteSet(Person)
  BY PeopleAssumption, FS_Union DEF Person
<1> QED
  BY <1>1, FS_Subset, FS_CardinalityType

(* A limit is a number. *)
LEMMA LimitType ==
  ASSUME NEW s \in SettingsType, NEW r
  PROVE  Limit(s, r) \in Nat
BY DEF SettingsType, Limit

(* One pool: after the rebalancing nobody waits next to a free place.      *)
LEMMA OnePool ==
  ASSUME NEW C \in SUBSET Person, NEW W \in SUBSET Person, C \cap W = {},
         NEW C2 \in SUBSET (C \cup W), NEW limit \in Nat,
         PoolRebalanced(C, W, C2, limit)
  PROVE  /\ Cardinality(C2) <= limit
         /\ (C \cup W) \ C2 # {} => Cardinality(C2) = limit
<1>1. /\ Cardinality(C) \in Nat /\ Cardinality(W) \in Nat /\ Cardinality(C2) \in Nat
      /\ IsFiniteSet(C) /\ IsFiniteSet(W) /\ IsFiniteSet(C \cup W)
  BY Countable
<1>2. CASE Cardinality(C) > limit
  BY <1>1, <1>2 DEF PoolRebalanced
<1>3. CASE ~(Cardinality(C) > limit)
  <2>1. Cardinality(C2) = Smaller(limit, Cardinality(C) + Cardinality(W))
    BY <1>3 DEF PoolRebalanced
  <2>2. CASE limit < Cardinality(C) + Cardinality(W)
    BY <1>1, <2>1, <2>2 DEF Smaller
  <2>3. CASE ~(limit < Cardinality(C) + Cardinality(W))
    <3>1. Cardinality(C2) = Cardinality(C) + Cardinality(W)
      BY <2>1, <2>3 DEF Smaller
    <3>2. Cardinality(C \cup W) = Cardinality(C) + Cardinality(W)
      <4>1. Cardinality(C \cap W) = 0
        BY FS_EmptySet
      <4>2. Cardinality(C \cup W) = Cardinality(C) + Cardinality(W) - Cardinality(C \cap W)
        BY <1>1, FS_Union
      <4> QED
        BY <1>1, <4>1, <4>2
    <3>3. C2 = C \cup W
      BY <1>1, <3>1, <3>2, FS_Subset
    <3> QED
      BY <1>1, <2>3, <3>1, <3>3
  <2> QED
    BY <2>2, <2>3
<1> QED
  BY <1>2, <1>3

(* The whole list: every step that rebalances ends with the places used.   *)
LEMMA RebalanceIsExact ==
  ASSUME NEW s, NEW ro, NEW conf, NEW wait,
         List(s, ro, conf, wait), Rebalance(s, ro, conf, wait)
  PROVE  /\ confirmed' \in SUBSET Person
         /\ waiting' \in SUBSET Person
         /\ confirmed' \cap waiting' = {}
         /\ Exact(s, ro, confirmed', waiting')
<1>1. /\ confirmed' \in SUBSET Person
      /\ waiting' \in SUBSET Person
      /\ confirmed' \cap waiting' = {}
  BY DEF List, Rebalance, PoolsRebalanced
<1>2. ASSUME NEW r \in Pools(s)
      PROVE  /\ Cardinality(confirmed' \cap InPool(s, ro, r)) <= Limit(s, r)
             /\ waiting' \cap InPool(s, ro, r) # {} =>
                  Cardinality(confirmed' \cap InPool(s, ro, r)) = Limit(s, r)
  <2> DEFINE pool == InPool(s, ro, r)
             C == conf \cap pool
             W == wait \cap pool
             C2 == confirmed' \cap pool
  <2>1. PoolRebalanced(C, W, C2, Limit(s, r))
    BY <1>2 DEF Rebalance, PoolsRebalanced
  <2>2. /\ C \in SUBSET Person
        /\ W \in SUBSET Person
        /\ C \cap W = {}
        /\ C2 \in SUBSET (C \cup W)
    BY DEF List, Rebalance, PoolsRebalanced
  <2>3. Limit(s, r) \in Nat
    BY LimitType DEF List
  <2>4. waiting' \cap pool = (C \cup W) \ C2
    BY DEF Rebalance, PoolsRebalanced
  <2>5. /\ Cardinality(C2) <= Limit(s, r)
        /\ (C \cup W) \ C2 # {} => Cardinality(C2) = Limit(s, r)
    <3> HIDE DEF C, W, C2
    <3> QED
      BY <2>1, <2>2, <2>3, OnePool
  <2> QED
    BY <2>4, <2>5
<1> QED
  BY <1>1, <1>2 DEF Exact

(* Where no pool is over its limit, the rebalancing demotes nobody.        *)
LEMMA RebalanceKeepsConfirmed ==
  ASSUME NEW s, NEW ro, NEW conf, NEW wait,
         List(s, ro, conf, wait), Within(s, ro, conf), Rebalance(s, ro, conf, wait)
  PROVE  conf \subseteq confirmed'
<1> SUFFICES ASSUME NEW p \in conf PROVE p \in confirmed'
  OBVIOUS
<1>1. PICK r \in Pools(s) : p \in InPool(s, ro, r)
  BY DEF Pools, InPool, List, Role
<1> DEFINE C == conf \cap InPool(s, ro, r)
<1>2. Cardinality(C) \in Nat /\ Limit(s, r) \in Nat
  BY Countable, LimitType DEF List
<1>3. Cardinality(C) <= Limit(s, r)
  BY DEF Within
<1>4. PoolRebalanced(C, wait \cap InPool(s, ro, r), confirmed' \cap InPool(s, ro, r), Limit(s, r))
  BY DEF Rebalance, PoolsRebalanced
<1>5. C \subseteq confirmed'
  <2> HIDE DEF C
  <2> QED
    BY <1>2, <1>3, <1>4 DEF PoolRebalanced
<1> QED
  BY <1>1, <1>5

-----------------------------------------------------------------------------
(* Adding a person to a pool with a free place keeps it within its limit.  *)
LEMMA OneMoreFits ==
  ASSUME NEW C \in SUBSET Person, NEW p \in Person, NEW limit \in Nat,
         Cardinality(C) < limit
  PROVE  Cardinality(C \cup {p}) <= limit
BY Countable, FS_AddElement

(* Fewer people stay within a limit.                                       *)
LEMMA FewerFit ==
  ASSUME NEW C \in SUBSET Person, NEW D \in SUBSET C, NEW limit \in Nat,
         Cardinality(C) <= limit
  PROVE  Cardinality(D) <= limit
BY Countable, FS_Subset

(* What Confirm writes before the rebalancing stays within every limit.    *)
LEMMA ConfirmWithin ==
  ASSUME SlotsInv, NEW p \in Person, NEW r \in Role, NEW conf,
         LET full == Cardinality(confirmed \cap InPool(settings, role, r)) >= Limit(settings, r)
         IN conf = IF full THEN confirmed \ {p} ELSE confirmed \cup {p}
  PROVE  Within(settings, [role EXCEPT ![p] = r], conf)
<1> DEFINE ro == [role EXCEPT ![p] = r]
<1>1. /\ settings \in SettingsType
      /\ confirmed \in SUBSET Person
      /\ role \in [Person -> Role]
  BY SettingsAssumption DEF SlotsInv, SlotsTypeOK
<1> SUFFICES ASSUME NEW q \in Pools(settings)
             PROVE  Cardinality(conf \cap InPool(settings, ro, q)) <= Limit(settings, q)
  BY DEF Within
<1> DEFINE C == confirmed \cap InPool(settings, role, q)
           D == conf \cap InPool(settings, ro, q)
<1>2. /\ C \in SUBSET Person /\ D \in SUBSET Person
      /\ Cardinality(C) \in Nat /\ Limit(settings, q) \in Nat
      /\ Cardinality(C) <= Limit(settings, q)
  BY <1>1, Countable, LimitType DEF SlotsInv, PlacesUsedExactly, InPool
<1>3. CASE D \subseteq C
  BY <1>2, <1>3, FewerFit
<1>4. CASE ~(D \subseteq C)
  <2>1. /\ Cardinality(confirmed \cap InPool(settings, role, r)) < Limit(settings, r)
        /\ conf = confirmed \cup {p}
    <3>1. ~(Cardinality(confirmed \cap InPool(settings, role, r)) >= Limit(settings, r))
      BY <1>1, <1>4 DEF InPool
    <3>2. Cardinality(confirmed \cap InPool(settings, role, r)) \in Nat /\ Limit(settings, r) \in Nat
      BY <1>1, Countable, LimitType
    <3> QED
      BY <3>1, <3>2
  <2>2. D \subseteq C \cup {p}
    BY <1>1, <2>1 DEF InPool
  <2>3. p \in D
    BY <1>4, <2>2
  <2>4. InPool(settings, role, q) = InPool(settings, role, r) /\ Limit(settings, q) = Limit(settings, r)
    BY <1>1, <2>3 DEF InPool, Limit, Pools
  <2>5. Cardinality(C \cup {p}) <= Limit(settings, q)
    BY <1>2, <2>1, <2>4, OneMoreFits
  <2> QED
    BY <1>1, <1>2, <2>2, <2>5, FewerFit DEF InPool
<1> QED
  BY <1>3, <1>4

-----------------------------------------------------------------------------
(* A request that left every limit respected, once rebalanced: the list is *)
(* exact again and nobody in conf lost a place.                            *)
LEMMA RequestIsExact ==
  ASSUME SlotsInv, NEW ro \in [Person -> Role], NEW conf \in SUBSET Person, NEW wait \in SUBSET Person,
         conf \cap wait = {},
         role' = ro, settings' = settings, status' = status,
         Rebalance(settings, ro, conf, wait)
  PROVE  SlotsInv' /\ (Within(settings, ro, conf) => conf \subseteq confirmed')
<1>1. List(settings, ro, conf, wait)
  BY SettingsAssumption DEF List, SlotsInv, SlotsTypeOK
<1>2. /\ confirmed' \in SUBSET Person
      /\ waiting' \in SUBSET Person
      /\ confirmed' \cap waiting' = {}
      /\ Exact(settings, ro, confirmed', waiting')
  BY <1>1, RebalanceIsExact
<1>3. PlacesUsedExactly'
  BY <1>2 DEF PlacesUsedExactly, Exact
<1>4. SlotsTypeOK'
  BY <1>2 DEF SlotsInv, SlotsTypeOK
<1> QED
  BY <1>1, <1>3, <1>4, RebalanceKeepsConfirmed DEF SlotsInv

(* A member's confirmation. *)
LEMMA ConfirmStep ==
  ASSUME SlotsInv, NEW p \in Profile, NEW r \in Role, Confirm(p, r)
  PROVE  /\ SlotsInv'
         /\ \A q \in confirmed \cap waiting' : role'[q] # role[q]
<1> DEFINE full == Cardinality(confirmed \cap InPool(settings, role, r)) >= Limit(settings, r)
           conf == IF full THEN confirmed \ {p} ELSE confirmed \cup {p}
           wait == IF full THEN waiting \cup {p} ELSE waiting \ {p}
           ro   == [role EXCEPT ![p] = r]
<1>1. /\ p \in Person /\ ro \in [Person -> Role]
      /\ conf \in SUBSET Person /\ wait \in SUBSET Person /\ conf \cap wait = {}
  BY DEF SlotsInv, SlotsTypeOK, Person
<1>2. /\ role' = ro /\ settings' = settings /\ status' = status
      /\ Rebalance(settings, ro, conf, wait)
      /\ ~(p \in confirmed \cup waiting /\ role[p] = r)
  BY DEF Confirm, ConfirmAs
<1>3. Within(settings, ro, conf)
  BY <1>1, ConfirmWithin
<1>4. SlotsInv' /\ conf \subseteq confirmed'
  <2> HIDE DEF conf, wait, ro
  <2> QED
    BY <1>1, <1>2, <1>3, RequestIsExact
<1>5. \A q \in confirmed : q # p => q \in confirmed'
  BY <1>4
<1>6. p \in confirmed => ro[p] # role[p]
  BY <1>1, <1>2 DEF SlotsInv, SlotsTypeOK
<1> QED
  BY <1>2, <1>4, <1>5, <1>6 DEF SlotsInv, SlotsTypeOK

(* A withdrawal. *)
LEMMA CancelStep ==
  ASSUME SlotsInv, NEW p \in Person, CancelConfirmation(p)
  PROVE  SlotsInv' /\ confirmed \cap waiting' = {}
<1> DEFINE conf == confirmed \ {p}
           wait == waiting \ {p}
<1>1. /\ conf \in SUBSET Person /\ wait \in SUBSET Person /\ conf \cap wait = {}
      /\ role \in [Person -> Role] /\ settings \in SettingsType
  BY SettingsAssumption DEF SlotsInv, SlotsTypeOK
<1>2. /\ role' = role /\ settings' = settings /\ status' = status
      /\ Rebalance(settings, role, conf, wait)
  BY DEF CancelConfirmation
<1>3. Within(settings, role, conf)
  <2> SUFFICES ASSUME NEW r \in Pools(settings)
               PROVE  Cardinality(conf \cap InPool(settings, role, r)) <= Limit(settings, r)
    BY DEF Within
  <2>1. /\ confirmed \cap InPool(settings, role, r) \in SUBSET Person
        /\ conf \cap InPool(settings, role, r) \in SUBSET (confirmed \cap InPool(settings, role, r))
        /\ Cardinality(confirmed \cap InPool(settings, role, r)) <= Limit(settings, r)
        /\ Limit(settings, r) \in Nat
    BY <1>1, LimitType DEF SlotsInv, SlotsTypeOK, PlacesUsedExactly
  <2> QED
    BY <2>1, FewerFit
<1>4. SlotsInv' /\ conf \subseteq confirmed'
  <2> HIDE DEF conf, wait
  <2> QED
    BY <1>1, <1>2, <1>3, RequestIsExact
<1>5. p \notin waiting'
  BY <1>2 DEF Rebalance, PoolsRebalanced
<1> QED
  BY <1>4, <1>5 DEF SlotsInv, SlotsTypeOK

(* A guest who is inserted. *)
LEMMA AddGuestStep ==
  ASSUME SlotsInv, NEW g \in Guest, NEW r \in Role, AddGuest(g, r)
  PROVE  SlotsInv' /\ confirmed \cap waiting' = {}
<1> DEFINE ro   == [role EXCEPT ![g] = r]
           full == Cardinality(confirmed \cap InPool(settings, role, r)) >= Limit(settings, r)
           conf == IF full THEN confirmed \ {g} ELSE confirmed \cup {g}
           wait == IF full THEN waiting \cup {g} ELSE waiting
<1>1. /\ g \in Person /\ ro \in [Person -> Role] /\ g \notin confirmed /\ g \notin waiting
      /\ conf \in SUBSET Person /\ wait \in SUBSET Person /\ conf \cap wait = {}
  BY DEF SlotsInv, SlotsTypeOK, Person, AddGuest
<1>2. role' = ro /\ settings' = settings /\ status' = status
  BY DEF AddGuest
<1>3. confirmed \cap InPool(settings, ro, r) = confirmed \cap InPool(settings, role, r)
  BY <1>1 DEF InPool, SlotsInv, SlotsTypeOK
<1>4. confirmed \ {g} = confirmed
  BY <1>1
<1>5. Rebalance(settings, ro, conf, wait)
  BY <1>2, <1>3, <1>4 DEF AddGuest
<1>6. Within(settings, ro, conf)
  BY <1>1, ConfirmWithin
<1>7. SlotsInv' /\ conf \subseteq confirmed'
  <2> HIDE DEF conf, wait, ro
  <2> QED
    BY <1>1, <1>2, <1>5, <1>6, RequestIsExact
<1> QED
  BY <1>4, <1>7 DEF SlotsInv, SlotsTypeOK

(* New limits. *)
LEMMA ChangeSettingsStep ==
  ASSUME SlotsInv, NEW s \in Settings, ChangeSettings(s)
  PROVE  SlotsInv'
<1>1. List(s, role, confirmed, waiting)
  BY SettingsAssumption DEF List, SlotsInv, SlotsTypeOK
<1>2. /\ confirmed' \in SUBSET Person
      /\ waiting' \in SUBSET Person
      /\ confirmed' \cap waiting' = {}
      /\ Exact(s, role, confirmed', waiting')
  BY <1>1, RebalanceIsExact DEF ChangeSettings
<1> QED
  BY <1>2 DEF Exact, PlacesUsedExactly, SlotsInv, SlotsTypeOK, ChangeSettings

-----------------------------------------------------------------------------
(* Every step keeps the list exact, and demotes nobody without a reason.   *)
LEMMA SlotsStep ==
  ASSUME SlotsInv, [SlotsNext]_slotVars
  PROVE  /\ SlotsInv'
         /\ \A p \in confirmed \cap waiting' : settings' # settings \/ role'[p] # role[p]
<1>1. ASSUME NEW p \in Profile, NEW r \in Role, Confirm(p, r)
      PROVE  SlotsInv' /\ \A q \in confirmed \cap waiting' : role'[q] # role[q]
  BY <1>1, ConfirmStep
<1>2. ASSUME NEW p \in Person, CancelConfirmation(p)
      PROVE  SlotsInv' /\ confirmed \cap waiting' = {}
  BY <1>2, CancelStep
<1>3. ASSUME NEW g \in Guest, NEW r \in Role, AddGuest(g, r)
      PROVE  SlotsInv' /\ confirmed \cap waiting' = {}
  BY <1>3, AddGuestStep
<1>4. ASSUME NEW s \in Settings, ChangeSettings(s)
      PROVE  SlotsInv' /\ (settings' = settings => confirmed \cap waiting' = {})
  <2>1. SlotsInv'
    BY <1>4, ChangeSettingsStep
  <2>2. ASSUME settings' = settings
        PROVE  confirmed \subseteq confirmed'
    <3>1. List(settings, role, confirmed, waiting) /\ Within(settings, role, confirmed)
      BY SettingsAssumption DEF List, Within, SlotsInv, SlotsTypeOK, PlacesUsedExactly
    <3> QED
      BY <1>4, <2>2, <3>1, RebalanceKeepsConfirmed DEF ChangeSettings
  <2> QED
    BY <2>1, <2>2 DEF SlotsInv, SlotsTypeOK
<1>5. CASE Begin
  BY <1>5 DEF Begin, listVars, SlotsInv, SlotsTypeOK, Status, PlacesUsedExactly
<1>6. CASE End
  BY <1>6 DEF End, listVars, SlotsInv, SlotsTypeOK, Status, PlacesUsedExactly
<1>7. CASE UNCHANGED slotVars
  BY <1>7 DEF slotVars, SlotsInv, SlotsTypeOK, PlacesUsedExactly
<1> QED
  BY <1>1, <1>2, <1>3, <1>4, <1>5, <1>6, <1>7 DEF SlotsNext, PresenceStep, RemoveGuest, Person

(* An empty list is within its limits.                                     *)
LEMMA SlotsInitially ==
  ASSUME SlotsInit
  PROVE  SlotsInv
<1>1. SlotsTypeOK
  BY DEF SlotsInit, SlotsTypeOK, Status, Role
<1>2. \A r : Limit(settings, r) \in Nat
  BY SettingsAssumption, LimitType DEF SlotsInit
<1>3. PlacesUsedExactly
  BY <1>2, FS_EmptySet DEF SlotsInit, PlacesUsedExactly
<1> QED
  BY <1>1, <1>3 DEF SlotsInv

(* So the list is always within its limits.                                *)
LEMMA SlotsInvariant == SlotsSpec => []SlotsInv
BY SlotsInitially, SlotsStep, PTL DEF SlotsSpec

(***************************************************************************)
(* Whatever the people do, everybody on the list either holds a place or   *)
(* waits for one, in a known role.                                         *)
(***************************************************************************)
THEOREM ListIsWellFormed == SlotsSpec => []SlotsTypeOK
<1>1. SlotsInv => SlotsTypeOK
  BY DEF SlotsInv
<1> QED
  BY <1>1, SlotsInvariant, PTL

(***************************************************************************)
(* confirm, cancel_confirmation, the guests' CRUD and the change of limits *)
(* never leave a pool over its limit, nor somebody waiting next to a free  *)
(* place of their pool.                                                    *)
(***************************************************************************)
THEOREM PlacesAreUsedExactly == SlotsSpec => []PlacesUsedExactly
<1>1. SlotsInv => PlacesUsedExactly
  BY DEF SlotsInv
<1> QED
  BY <1>1, SlotsInvariant, PTL

(***************************************************************************)
(* Nobody goes back from a place to the line because of what somebody else *)
(* asked for: only a change of limits or of one's own role does that.      *)
(***************************************************************************)
THEOREM NobodyIsEverPushedOut == SlotsSpec => NobodyIsPushedOut
<1>1. SlotsInv /\ [SlotsNext]_slotVars =>
        [ \A p \in confirmed \cap waiting' : settings' # settings \/ role'[p] # role[p] ]_slotVars
  BY SlotsStep
<1> QED
  BY <1>1, SlotsInvariant, PTL DEF SlotsSpec, NobodyIsPushedOut

-----------------------------------------------------------------------------
(* The day of an event                                                     *)

(***************************************************************************)
(* What makes the day's invariants inductive: there is a first match only  *)
(* once the event started, and no match or queue before it or after the    *)
(* end.                                                                    *)
(***************************************************************************)
DayInv ==
  /\ TypeOK
  /\ EveryTeamPlaysOrWaits
  /\ NoMatchOutsideTheDay
  /\ kicked => status # "registration_open"

-----------------------------------------------------------------------------
(* The event uses the list as module Slots promises.                       *)

(* The day of an event begins with the list of module Slots,               *)
LEMMA InitIsSlotsInit == Init => SlotsInit
BY DEF Init

(* and each of its steps is a step of that list or leaves it alone.        *)
LEMMA StepIsSlotsStep == [Next]_vars => [SlotsNext]_slotVars
<1> SUFFICES ASSUME [Next]_vars PROVE [SlotsNext]_slotVars
  OBVIOUS
<1>1. CASE Attendance
  BY <1>1 DEF Attendance, SlotsNext
<1>2. ASSUME NEW s \in Settings, UpdateConfirmationSettings(s) PROVE SlotsNext
  BY <1>2 DEF UpdateConfirmationSettings, SlotsNext
<1>3. ASSUME NEW all, NEW squadOf, NEW jobs, BuildTeams(all, squadOf, jobs) PROVE UNCHANGED slotVars
  BY <1>3 DEF BuildTeams, FormTeams
<1>4. CASE StartEvent
  BY <1>4 DEF StartEvent, SlotsNext
<1>5. ASSUME NEW a, NEW b, Kickoff(a, b) PROVE UNCHANGED slotVars
  BY <1>5 DEF Kickoff, FirstMatch
<1>6. ASSUME NEW loser, FinishAndContinue(loser) PROVE UNCHANGED slotVars
  BY <1>6 DEF FinishAndContinue, NextMatch, KeepersMoved
<1>7. CASE FinishAndClose \/ FinishEvent
  BY <1>7 DEF FinishAndClose, FinishEvent, SlotsNext
<1>8. ASSUME NEW t, NEW in, NEW out, AddTemporaryPlayer(t, in, out) PROVE UNCHANGED slotVars
  BY <1>8 DEF AddTemporaryPlayer, SwapIn
<1>9. CASE UNCHANGED vars
  BY <1>9 DEF vars, slotVars
<1> QED
  BY <1>1, <1>2, <1>3, <1>4, <1>5, <1>6, <1>7, <1>8, <1>9 DEF Next

(***************************************************************************)
(* The event is a client of its confirmation list that never breaks it.    *)
(***************************************************************************)
THEOREM EventImplementsSlots == Spec => SlotsSpec
BY InitIsSlotsInit, StepIsSlotsStep, PTL DEF Spec, SlotsSpec

(***************************************************************************)
(* In an event too, also while it is played, no pool exceeds its limit and *)
(* nobody waits next to a free place.                                      *)
(***************************************************************************)
THEOREM EventPlacesAreUsedExactly == Spec => []PlacesUsedExactly
BY EventImplementsSlots, PlacesAreUsedExactly, PTL

(* The list keeps its types.                                               *)
LEMMA SlotsStepTypes == SlotsTypeOK /\ PlacesUsedExactly /\ [Next]_vars => SlotsTypeOK'
BY StepIsSlotsStep, SlotsStep DEF SlotsInv

-----------------------------------------------------------------------------
(* The queue after the loser went to its end and the first came in.        *)
LEMMA QueueTurns ==
  ASSUME NEW q \in Seq(Team), q # <<>>, IsInjective(q),
         NEW x \in Team, x \notin Range(q)
  PROVE  /\ Append(Tail(q), x) \in Seq(Team)
         /\ Append(Tail(q), x) # <<>>
         /\ IsInjective(Append(Tail(q), x))
         /\ Range(Append(Tail(q), x)) = (Range(q) \ {Head(q)}) \cup {x}
         /\ Head(q) \in Range(q)
<1> DEFINE n  == Len(q)
           q2 == Append(Tail(q), x)
<1>1. /\ n \in Nat \ {0} /\ DOMAIN q = 1 .. n
      /\ Head(q) = q[1] /\ q[1] \in Range(q)
      /\ q2 \in Seq(Team) /\ q2 # <<>>
      /\ DOMAIN q2 = 1 .. n
      /\ \A i \in 1 .. n - 1 : q2[i] = q[i + 1]
      /\ q2[n] = x
  <2>1. n \in Nat \ {0} /\ DOMAIN q = 1 .. n
    BY EmptySeq, LenProperties
  <2>2. Head(q) = q[1] /\ q[1] \in Range(q)
    BY <2>1 DEF Range
  <2>3. /\ Tail(q) \in Seq(Team) /\ Len(Tail(q)) = n - 1
        /\ \A i \in 1 .. n - 1 : Tail(q)[i] = q[i + 1]
    BY HeadTailProperties
  <2>4. /\ q2 \in Seq(Team) /\ q2 # <<>>
        /\ Len(q2) = (n - 1) + 1
        /\ \A i \in 1 .. n - 1 : q2[i] = Tail(q)[i]
        /\ q2[(n - 1) + 1] = x
    <3> HIDE DEF n
    <3> QED
      BY <2>3, AppendProperties
  <2>5. (n - 1) + 1 = n
    BY <2>1
  <2>6. DOMAIN q2 = 1 .. n
    BY <2>4, <2>5, LenProperties
  <2> QED
    BY <2>1, <2>2, <2>3, <2>4, <2>5, <2>6
<1> HIDE DEF n, q2
<1>2. \A i \in 1 .. n : q[i] # x
  BY <1>1 DEF Range
<1>3. IsInjective(q2)
  <2> SUFFICES ASSUME NEW i \in 1 .. n, NEW j \in 1 .. n, q2[i] = q2[j] PROVE i = j
    BY <1>1 DEF IsInjective
  <2>0. \A k \in 1 .. n : k # n => q2[k] # x
    <3> SUFFICES ASSUME NEW k \in 1 .. n, k # n PROVE q2[k] # x
      OBVIOUS
    <3>1. k \in 1 .. n - 1 /\ k + 1 \in 1 .. n
      BY <1>1
    <3> QED
      BY <1>1, <1>2, <3>1
  <2>1. CASE i = n
    BY <1>1, <2>0, <2>1
  <2>2. CASE j = n
    BY <1>1, <2>0, <2>2
  <2>3. CASE i # n /\ j # n
    <3>1. i \in 1 .. n - 1 /\ j \in 1 .. n - 1
      BY <1>1, <2>3
    <3>2. q[i + 1] = q[j + 1] /\ i + 1 \in 1 .. n /\ j + 1 \in 1 .. n
      BY <1>1, <3>1
    <3>3. i + 1 = j + 1
      BY <1>1, <3>2 DEF IsInjective
    <3> QED
      BY <3>3
  <2> QED
    BY <2>1, <2>2, <2>3
<1>4. Range(q2) \subseteq (Range(q) \ {Head(q)}) \cup {x}
  <2> SUFFICES ASSUME NEW i \in 1 .. n PROVE q2[i] \in (Range(q) \ {Head(q)}) \cup {x}
    BY <1>1 DEF Range
  <2>1. CASE i = n
    BY <1>1, <2>1
  <2>2. CASE i # n
    <3>1. i \in 1 .. n - 1 /\ i + 1 \in 1 .. n /\ i + 1 # 1 /\ 1 \in 1 .. n
      BY <1>1, <2>2
    <3>2. q2[i] = q[i + 1]
      BY <1>1, <3>1
    <3>3. q[i + 1] # q[1]
      BY <1>1, <3>1 DEF IsInjective
    <3>4. q[i + 1] \in Range(q)
      BY <1>1, <3>1 DEF Range
    <3> QED
      BY <1>1, <3>2, <3>3, <3>4
  <2> QED
    BY <2>1, <2>2
<1>5. (Range(q) \ {Head(q)}) \cup {x} \subseteq Range(q2)
  <2>1. x \in Range(q2)
    BY <1>1 DEF Range
  <2>2. ASSUME NEW i \in 1 .. n, q[i] # Head(q) PROVE q[i] \in Range(q2)
    <3>1. i - 1 \in 1 .. n - 1 /\ i - 1 \in 1 .. n /\ (i - 1) + 1 = i
      BY <1>1, <2>2
    <3>2. q2[i - 1] = q[i]
      BY <1>1, <3>1
    <3> QED
      BY <1>1, <3>1, <3>2 DEF Range
  <2> QED
    BY <1>1, <2>1, <2>2 DEF Range
<1> QED
  BY <1>1, <1>3, <1>4, <1>5 DEF q2

(* A line of all the teams of S.                                           *)
LEMMA LineIsComplete ==
  ASSUME NEW S \in SUBSET Team, NEW q \in LinesOf(S)
  PROVE  /\ q \in Seq(S)
         /\ IsInjective(q)
         /\ Range(q) = S
<1> DEFINE n == Cardinality(S)
<1>1. n \in Nat
  <2>1. IsFiniteSet(S)
    BY TeamAssumption, FS_Subset
  <2> QED
    BY <2>1, FS_CardinalityType
<1>2. q \in Bijection(1 .. n, S)
  BY DEF LinesOf
<1> HIDE DEF n
<1>3. /\ q \in [1 .. n -> S]
      /\ IsInjective(q)
      /\ \A t \in S : \E i \in 1 .. n : q[i] = t
  BY <1>2 DEF Bijection, Injection, Surjection
<1>4. q \in Seq(S)
  BY <1>1, <1>3, SeqDef
<1>5. Range(q) = S
  BY <1>3 DEF Range
<1> QED
  BY <1>3, <1>4, <1>5

-----------------------------------------------------------------------------
(* Two different teams are two.                                            *)
LEMMA TwoTeams ==
  ASSUME NEW a, NEW b, a # b
  PROVE  IsFiniteSet({a, b}) /\ Cardinality({a, b}) = 2
<1>1. IsFiniteSet({a}) /\ Cardinality({a}) = 1 /\ b \notin {a}
  BY FS_Singleton
<1>2. IsFiniteSet({a} \cup {b}) /\ Cardinality({a} \cup {b}) = 2
  <2>1. Cardinality({a} \cup {b}) = 1 + 1
    BY <1>1, FS_AddElement
  <2>2. IsFiniteSet({a} \cup {b})
    BY <1>1, FS_AddElement
  <2> QED
    BY <2>1, <2>2
<1>3. {a} \cup {b} = {a, b}
  OBVIOUS
<1> QED
  BY <1>2, <1>3

(* The first match and the ones that follow it put two teams on the court. *)
LEMMA KickoffStep ==
  ASSUME DayInv, NEW a \in teams, NEW b \in teams, Kickoff(a, b)
  PROVE  /\ court' = {a, b} /\ a # b
         /\ queue' \in Seq(teams) /\ IsInjective(queue') /\ queue' # <<>>
         /\ Range(queue') = teams \ court'
<1>1. court' = {a, b} /\ a # b /\ Cardinality(teams) >= 3 /\ queue' \in LinesOf(teams \ {a, b})
  BY DEF Kickoff, FirstMatch, CreateMatch
<1>2. teams \in SUBSET Team
  BY DEF DayInv, TypeOK
<1>3. queue' \in Seq(teams \ {a, b}) /\ IsInjective(queue') /\ Range(queue') = teams \ {a, b}
  BY <1>1, <1>2, LineIsComplete
<1>4. queue' \in Seq(teams)
  BY <1>3, SeqDef
<1>5. queue' # <<>>
  <2> SUFFICES ASSUME queue' = <<>> PROVE FALSE
    OBVIOUS
  <2>1. teams \subseteq {a, b}
    BY <1>3 DEF Range
  <2>2. IsFiniteSet({a, b}) /\ Cardinality({a, b}) = 2
    BY <1>1, TwoTeams
  <2>3. Cardinality(teams) <= 2
    BY <2>1, <2>2, FS_Subset
  <2>4. Cardinality(teams) \in Nat
    BY <1>2, TeamAssumption, FS_Subset, FS_CardinalityType
  <2> QED
    BY <1>1, <2>3, <2>4
<1> QED
  BY <1>1, <1>3, <1>4, <1>5

(* The end of a match: the loser queues up, the first in line comes in.    *)
LEMMA FinishStep ==
  ASSUME DayInv, NEW loser \in court, FinishAndContinue(loser)
  PROVE  /\ court' = (court \ {loser}) \cup {Head(queue)}
         /\ queue' = Append(Tail(queue), loser)
         /\ queue' \in Seq(Team) /\ IsInjective(queue') /\ queue' # <<>>
         /\ court' \cup Range(queue') = teams
         /\ court' \cap Range(queue') = {}
         /\ Cardinality(court') = 2
<1>1. /\ court' = (court \ {loser}) \cup {Head(queue)}
      /\ queue' = Append(Tail(queue), loser)
      /\ status = "in_progress" /\ queue # <<>> /\ Waits \cap court = {}
  BY DEF FinishAndContinue, NextMatch, KeepersMoved, CreateMatch
<1>2. /\ court \cup Range(queue) = teams /\ court \cap Range(queue) = {}
      /\ IsInjective(queue) /\ Cardinality(court) = 2 /\ queue \in Seq(Team)
      /\ court \in SUBSET Team
  BY <1>1 DEF DayInv, NoMatchOutsideTheDay, EveryTeamPlaysOrWaits, TypeOK, Waits
<1>3. loser \in Team /\ loser \notin Range(queue)
  BY <1>2
<1>4. /\ queue' \in Seq(Team) /\ queue' # <<>> /\ IsInjective(queue')
      /\ Range(queue') = (Range(queue) \ {Head(queue)}) \cup {loser}
      /\ Head(queue) \in Range(queue)
  BY <1>1, <1>2, <1>3, QueueTurns
<1>5. Cardinality(court') = 2
  <2>1. IsFiniteSet(court) /\ IsFiniteSet(court \ {loser}) /\ Cardinality(court \ {loser}) = 1
    BY <1>2, TeamAssumption, FS_Subset, FS_RemoveElement
  <2>2. Head(queue) \notin court \ {loser}
    BY <1>2, <1>4
  <2>3. Cardinality((court \ {loser}) \cup {Head(queue)}) = 1 + 1
    BY <2>1, <2>2, FS_AddElement
  <2> QED
    BY <1>1, <2>3
<1> QED
  BY <1>1, <1>2, <1>3, <1>4, <1>5

-----------------------------------------------------------------------------
(* The day's own variables keep their types.                               *)
LEMMA DayTypeStep ==
  ASSUME DayInv, SlotsTypeOK', [Next]_vars
  PROVE  TypeOK'
<1> USE DEF TypeOK
<1>0. TypeOK
  BY DEF DayInv
<1>1. CASE Attendance
  BY <1>0, <1>1 DEF Attendance, dayVars
<1>2. ASSUME NEW s \in Settings, UpdateConfirmationSettings(s) PROVE TypeOK'
  BY <1>0, <1>2 DEF UpdateConfirmationSettings, NoFormation, matchVars, Role
<1>3. ASSUME NEW all \in SUBSET Team, NEW squadOf \in [confirmed -> all], NEW jobs \in JobChoices,
             BuildTeams(all, squadOf, jobs)
      PROVE  TypeOK'
  <2>1. jobs \in [confirmed -> Role]
    BY <1>0 DEF JobChoices, SlotsTypeOK
  <2>2. queue' \in Seq(Team)
    BY <1>3 DEF BuildTeams, FormTeams
  <2> QED
    BY <1>0, <1>3, <2>1, <2>2 DEF BuildTeams, FormTeams, matchVars, Role
<1>4. CASE StartEvent
  BY <1>0, <1>4 DEF StartEvent, dayVars
<1>5. ASSUME NEW a \in teams, NEW b \in teams, Kickoff(a, b) PROVE TypeOK'
  <2>1. queue' \in Seq(Team) /\ court' = {a, b}
    <3>1. queue' \in Seq(teams) /\ court' = {a, b}
      BY <1>5, KickoffStep
    <3> QED
      BY <1>0, <3>1, SeqDef
  <2>2. team' \in [Person -> teams' \cup {NoTeam}] /\ teams' = teams /\ job' = job
    BY <1>0, <1>5 DEF Kickoff, FirstMatch
  <2>3. /\ side' \in [Person -> court' \cup {NoTeam}] /\ active' \in SUBSET Person
        /\ replaced' \in [Person -> Person \cup {Nobody}] /\ kicked' \in BOOLEAN
    BY <1>5, <2>1 DEF Kickoff, FirstMatch, CreateMatch
  <2>4. court' \in SUBSET Team
    BY <1>0, <2>1
  <2> QED
    BY <1>0, <2>1, <2>2, <2>3, <2>4
<1>6. ASSUME NEW loser \in court, FinishAndContinue(loser) PROVE TypeOK'
  <2>1. /\ queue' \in Seq(Team) /\ court' = (court \ {loser}) \cup {Head(queue)}
        /\ court' \cup Range(queue') = teams
    BY <1>6, FinishStep
  <2>2. Head(queue) \in teams
    BY <2>1
  <2>3. team' \in [Person -> teams' \cup {NoTeam}] /\ teams' = teams /\ job' = job
    BY <1>0, <1>6, <2>2 DEF FinishAndContinue, NextMatch, KeepersMoved
  <2>4. /\ side' \in [Person -> court' \cup {NoTeam}] /\ active' \in SUBSET Person
        /\ replaced' \in [Person -> Person \cup {Nobody}] /\ kicked' = kicked
    BY <1>6, <2>1 DEF FinishAndContinue, NextMatch, KeepersMoved, CreateMatch
  <2> QED
    BY <1>0, <2>1, <2>3, <2>4
<1>7. CASE FinishAndClose \/ FinishEvent
  <2>1. queue' \in Seq(Team)
    <3>1. queue' = <<>>
      BY <1>7 DEF FinishAndClose, FinishEvent
    <3> QED
      BY <3>1, EmptySeq
  <2> QED
    BY <1>0, <1>7, <2>1 DEF FinishAndClose, FinishEvent, NoMatch, rosterVars, matchVars
<1>8. ASSUME NEW t \in court, NEW in \in Person, NEW out \in Person, AddTemporaryPlayer(t, in, out)
      PROVE  TypeOK'
  BY <1>0, <1>8 DEF AddTemporaryPlayer, SwapIn, rosterVars
<1>9. CASE UNCHANGED vars
  BY <1>0, <1>9 DEF vars
<1> QED
  BY <1>1, <1>2, <1>3, <1>4, <1>5, <1>6, <1>7, <1>8, <1>9 DEF Next

(* The rest of the invariant: a team is on the court or in the queue.      *)
LEMMA DayStep ==
  ASSUME DayInv, SlotsTypeOK', [Next]_vars
  PROVE  DayInv'
<1> USE DEF EveryTeamPlaysOrWaits, NoMatchOutsideTheDay, Waits
<1>0. TypeOK'
  BY DayTypeStep
<1>1. CASE Attendance
  <2>1. UNCHANGED <<status, teams, queue, kicked, court, active>>
    BY <1>1 DEF Attendance, dayVars, PresenceStep, Confirm, ConfirmAs, CancelConfirmation, AddGuest, RemoveGuest
  <2> QED
    BY <1>0, <2>1 DEF DayInv
<1>2. ASSUME NEW s \in Settings, UpdateConfirmationSettings(s) PROVE DayInv'
  BY <1>0, <1>2 DEF DayInv, UpdateConfirmationSettings, ChangeSettings, NoFormation, matchVars
<1>3. ASSUME NEW all, NEW squadOf, NEW jobs, BuildTeams(all, squadOf, jobs) PROVE DayInv'
  BY <1>0, <1>3 DEF DayInv, BuildTeams, FormTeams, slotVars, matchVars
<1>4. CASE StartEvent
  BY <1>0, <1>4 DEF DayInv, StartEvent, Begin, dayVars
<1>5. ASSUME NEW a \in teams, NEW b \in teams, Kickoff(a, b) PROVE DayInv'
  <2>1. /\ court' = {a, b} /\ a # b /\ IsInjective(queue') /\ queue' # <<>>
        /\ Range(queue') = teams \ court'
    BY <1>5, KickoffStep
  <2>2. Cardinality(court') = 2
    BY <2>1, TwoTeams
  <2>3. teams' = teams /\ status' = status /\ status = "in_progress" /\ kicked' = TRUE
    BY <1>5 DEF Kickoff, FirstMatch, slotVars
  <2> QED
    BY <1>0, <2>1, <2>2, <2>3 DEF DayInv
<1>6. ASSUME NEW loser \in court, FinishAndContinue(loser) PROVE DayInv'
  <2>1. /\ queue' # <<>> /\ IsInjective(queue') /\ Cardinality(court') = 2
        /\ court' \cup Range(queue') = teams /\ court' \cap Range(queue') = {}
    BY <1>6, FinishStep
  <2>2. teams' = teams /\ status' = "in_progress" /\ kicked' = TRUE
    BY <1>6 DEF FinishAndContinue, NextMatch, KeepersMoved, slotVars, DayInv, TypeOK
  <2> QED
    BY <1>0, <2>1, <2>2 DEF DayInv
<1>7. CASE FinishAndClose \/ FinishEvent
  <2>1. queue' = <<>> /\ status' = "finished"
    BY <1>7 DEF FinishAndClose, FinishEvent, End
  <2>2. court' = {} /\ active' = {}
    <3>1. CASE FinishAndClose
      BY <3>1 DEF FinishAndClose, NoMatch
    <3>2. CASE FinishEvent
      <4>1. court = {} /\ court' = court /\ active' = active
        BY <3>2 DEF FinishEvent, matchVars
      <4>2. ~(status = "in_progress" /\ kicked)
        BY <4>1, FS_EmptySet DEF DayInv
      <4> QED
        BY <4>1, <4>2 DEF DayInv
    <3> QED
      BY <1>7, <3>1, <3>2
  <2> QED
    BY <1>0, <2>1, <2>2 DEF DayInv
<1>8. ASSUME NEW t \in court, NEW in, NEW out, AddTemporaryPlayer(t, in, out) PROVE DayInv'
  <2>1. /\ UNCHANGED <<status, teams, queue, kicked, court>> /\ kicked /\ status = "in_progress"
    BY <1>8 DEF AddTemporaryPlayer, SwapIn, slotVars, rosterVars, DayInv
  <2> QED
    BY <1>0, <2>1 DEF DayInv
<1>9. CASE UNCHANGED vars
  BY <1>0, <1>9 DEF vars, DayInv
<1> QED
  BY <1>1, <1>2, <1>3, <1>4, <1>5, <1>6, <1>7, <1>8, <1>9 DEF Next

(* Before the day begins there is neither a team nor a match.              *)
LEMMA DayInitially == Init => DayInv
<1> SUFFICES ASSUME Init PROVE DayInv
  OBVIOUS
<1>1. SlotsTypeOK
  BY SlotsInitially DEF Init, SlotsInv
<1>2. queue \in Seq(Team)
  BY DEF Init
<1> QED
  BY <1>1, <1>2 DEF Init, SlotsInit, DayInv, TypeOK, EveryTeamPlaysOrWaits, NoMatchOutsideTheDay, Role

(* Every team plays or waits, all day long.                                *)
LEMMA DayInvariant == Spec => []DayInv
<1>1. SlotsInv /\ [Next]_vars => SlotsInv'
  BY StepIsSlotsStep, SlotsStep
<1>2. SlotsInv' => SlotsTypeOK'
  BY DEF SlotsInv
<1>3. Init => SlotsInv
  BY InitIsSlotsInit, SlotsInitially
<1>4. DayInv /\ SlotsInv' /\ [Next]_vars => DayInv'
  BY <1>2, DayStep
<1> QED
  BY <1>1, <1>3, <1>4, DayInitially, PTL DEF Spec

(***************************************************************************)
(* Rosters, queue and line-up refer to the teams of the day only.          *)
(***************************************************************************)
THEOREM EventIsWellFormed == Spec => []TypeOK
<1>1. DayInv => TypeOK
  BY DEF DayInv
<1> QED
  BY <1>1, DayInvariant, PTL

(***************************************************************************)
(* From kick-off to the end, whatever is confirmed, cancelled, substituted *)
(* or finished, two teams play and every other team waits exactly once.    *)
(***************************************************************************)
THEOREM TeamsPlayOrWait == Spec => []EveryTeamPlaysOrWaits
<1>1. DayInv => EveryTeamPlaysOrWaits
  BY DEF DayInv
<1> QED
  BY <1>1, DayInvariant, PTL

(* Nothing of a match or of the queue survives the end of the event.       *)
THEOREM NothingOutsideTheDay == Spec => []NoMatchOutsideTheDay
<1>1. DayInv => NoMatchOutsideTheDay
  BY DEF DayInv
<1> QED
  BY <1>1, DayInvariant, PTL

-----------------------------------------------------------------------------
(* Each step of the event is a step of the rotation, or one it cannot see. *)
LEMMA StepIsRotationStep ==
  ASSUME DayInv, DayInv', [Next]_vars
  PROVE  [Rota!RotationNext]_Rota!rotationVars
<1>0. /\ DayInv => (~(status = "in_progress" /\ kicked) => court = {} /\ queue = <<>>)
      /\ DayInv => (kicked => status # "registration_open")
  BY DEF DayInv, NoMatchOutsideTheDay
<1>1. CASE Attendance
  <2>1. UNCHANGED <<status, teams, queue, kicked, court>>
    BY <1>1 DEF Attendance, dayVars, PresenceStep, Confirm, ConfirmAs, CancelConfirmation, AddGuest, RemoveGuest
  <2> QED
    BY <2>1 DEF Phase, Rota!rotationVars
<1>2. ASSUME NEW s \in Settings, UpdateConfirmationSettings(s) PROVE Rota!RotationNext
  <2>1. /\ Phase = "before" /\ Phase' = "before" /\ teams' = {}
        /\ court' = court /\ queue' = queue
    BY <1>0, <1>2 DEF UpdateConfirmationSettings, ChangeSettings, NoFormation, matchVars, Phase
  <2> QED
    BY <2>1 DEF Rota!RotationNext, Rota!PickTeams
<1>3. ASSUME NEW all \in SUBSET Team, NEW squadOf, NEW jobs, BuildTeams(all, squadOf, jobs)
      PROVE  Rota!RotationNext
  <2>1. /\ Phase = "before" /\ Phase' = "before" /\ teams' = all
        /\ court' = court /\ queue' = queue
    BY <1>0, <1>3 DEF BuildTeams, FormTeams, slotVars, matchVars, Phase
  <2> QED
    BY <2>1 DEF Rota!RotationNext, Rota!PickTeams
<1>4. CASE StartEvent
  BY <1>0, <1>4 DEF StartEvent, Begin, dayVars, Phase, Rota!rotationVars
<1>5. ASSUME NEW a \in teams, NEW b \in teams, Kickoff(a, b) PROVE Rota!RotationNext
  <2>1. /\ Phase = "before" /\ Phase' = "playing" /\ teams' = teams
    BY <1>5 DEF Kickoff, FirstMatch, slotVars, Phase
  <2>2. /\ court' = {a, b} /\ a # b
        /\ queue' \in Seq(teams) /\ IsInjective(queue') /\ queue' # <<>>
        /\ Range(queue') = teams \ court'
    BY <1>5, KickoffStep
  <2>3. queue' \in Seq(teams \ court')
    <3>1. queue' \in [1 .. Len(queue') -> teams] /\ Len(queue') \in Nat
      BY <2>2, LenProperties
    <3>2. \A i \in 1 .. Len(queue') : queue'[i] \in Range(queue')
      BY <3>1 DEF Range
    <3> QED
      BY <2>2, <3>1, <3>2, SeqDef
  <2>4. Rota!IsLine(queue', teams \ court')
    BY <2>2, <2>3 DEF Rota!IsLine, Rota!IsInjective, Rota!Range, IsInjective, Range
  <2> QED
    BY <2>1, <2>2, <2>4 DEF Rota!RotationNext, Rota!FirstMatch
<1>6. ASSUME NEW loser \in court, FinishAndContinue(loser) PROVE Rota!RotationNext
  <2>1. /\ court' = (court \ {loser}) \cup {Head(queue)}
        /\ queue' = Append(Tail(queue), loser)
    BY <1>6, FinishStep
  <2>2. status = "in_progress" /\ status' = status /\ kicked' = kicked /\ teams' = teams
    BY <1>6 DEF FinishAndContinue, NextMatch, KeepersMoved, slotVars
  <2>3. kicked
    BY <1>0, <1>6
  <2>4. Phase = "playing" /\ Phase' = Phase
    BY <2>2, <2>3 DEF Phase
  <2> QED
    BY <2>1, <2>2, <2>4 DEF Rota!RotationNext, Rota!NextMatch
<1>7. CASE FinishAndClose \/ FinishEvent
  <2>1. status = "in_progress" /\ status' = "finished" /\ queue' = <<>> /\ teams' = teams
    BY <1>7 DEF FinishAndClose, FinishEvent, End, rosterVars
  <2>2. court' = {}
    BY <1>7 DEF FinishAndClose, NoMatch, FinishEvent, matchVars
  <2>3. Phase # "over" /\ Phase' = "over"
    BY <2>1 DEF Phase
  <2> QED
    BY <2>1, <2>2, <2>3 DEF Rota!RotationNext, Rota!Close
<1>8. ASSUME NEW t, NEW in, NEW out, AddTemporaryPlayer(t, in, out) PROVE UNCHANGED Rota!rotationVars
  BY <1>8 DEF AddTemporaryPlayer, SwapIn, slotVars, rosterVars, Phase, Rota!rotationVars
<1>9. CASE UNCHANGED vars
  BY <1>9 DEF vars, Phase, Rota!rotationVars
<1> QED
  BY <1>1, <1>2, <1>3, <1>4, <1>5, <1>6, <1>7, <1>8, <1>9 DEF Next

(***************************************************************************)
(* The event implements the rotation: winner stays, first in line comes    *)
(* in, loser goes to the end.                                              *)
(***************************************************************************)
THEOREM EventImplementsRotation == Spec => ImplementsRotation
<1>1. Init => Rota!RotationInit
  BY DEF Init, SlotsInit, Rota!RotationInit, Phase
<1> QED
  BY <1>1, DayInvariant, StepIsRotationStep, PTL DEF Spec, ImplementsRotation, Rota!RotationSpec

-----------------------------------------------------------------------------
(***************************************************************************)
(* After the start a roster changes only by a goalkeeper who goes to the   *)
(* court, and once there has been a match only by the one of the team that *)
(* leaves, who follows the place on the court.                             *)
(***************************************************************************)
THEOREM RostersStayFrozen == Spec => RostersAreFrozen
<1> DEFINE Frozen ==
      status # "registration_open" =>
        /\ UNCHANGED <<teams, job>>
        /\ \A p \in Person : team'[p] # team[p] =>
             /\ p \in Keepers
             /\ team'[p] \in court'
             /\ kicked => team[p] \in court /\ team[p] \notin court'
<1>1. ASSUME DayInv, [Next]_vars PROVE Frozen
  <2>1. CASE Attendance
    BY <2>1 DEF Attendance, dayVars
  <2>2. ASSUME NEW s \in Settings, UpdateConfirmationSettings(s) PROVE Frozen
    BY <2>2 DEF UpdateConfirmationSettings, ChangeSettings
  <2>3. ASSUME NEW all, NEW squadOf, NEW jobs, BuildTeams(all, squadOf, jobs) PROVE Frozen
    BY <2>3 DEF BuildTeams
  <2>4. CASE StartEvent
    BY <2>4 DEF StartEvent, Begin
  <2>5. ASSUME NEW a \in teams, NEW b \in teams, Kickoff(a, b) PROVE Frozen
    <3>1. ~kicked /\ UNCHANGED <<teams, job>> /\ court' = {a, b}
      BY <2>5 DEF Kickoff, FirstMatch, CreateMatch
    <3>2. \A p \in Person : team'[p] # team[p] => p \in Keepers /\ team'[p] \in {a, b}
      BY <2>5, <1>1 DEF Kickoff, FirstMatch, DayInv, TypeOK
    <3> QED
      BY <3>1, <3>2
  <2>6. ASSUME NEW loser \in court, FinishAndContinue(loser) PROVE Frozen
    <3>1. /\ status = "in_progress" /\ queue # <<>> /\ Waits \cap court = {}
          /\ UNCHANGED <<teams, job>> /\ court' = (court \ {loser}) \cup {Head(queue)}
      BY <2>6 DEF FinishAndContinue, NextMatch, KeepersMoved, CreateMatch
    <3>2. Head(queue) \in Waits
      <4>1. queue \in Seq(Team)
        BY <1>1 DEF DayInv, TypeOK
      <4>2. Len(queue) \in Nat \ {0} /\ DOMAIN queue = 1 .. Len(queue) /\ Head(queue) = queue[1]
        BY <4>1, <3>1, EmptySeq, LenProperties
      <4> QED
        BY <4>2 DEF Waits, Range
    <3>3. \A p \in Person : team'[p] # team[p] =>
            p \in Keepers /\ team[p] = loser /\ team'[p] = Head(queue)
      BY <2>6, <1>1 DEF FinishAndContinue, NextMatch, KeepersMoved, DayInv, TypeOK
    <3> QED
      BY <3>1, <3>2, <3>3
  <2>7. CASE FinishAndClose \/ FinishEvent
    BY <2>7 DEF FinishAndClose, FinishEvent, rosterVars
  <2>8. ASSUME NEW t, NEW in, NEW out, AddTemporaryPlayer(t, in, out) PROVE Frozen
    BY <2>8 DEF AddTemporaryPlayer, SwapIn, rosterVars
  <2>9. CASE UNCHANGED vars
    BY <2>9 DEF vars
  <2> QED
    BY <1>1, <2>1, <2>2, <2>3, <2>4, <2>5, <2>6, <2>7, <2>8, <2>9 DEF Next
<1>2. DayInv /\ [Next]_vars => [Frozen]_vars
  BY <1>1
<1> QED
  BY <1>2, DayInvariant, PTL DEF Spec, RostersAreFrozen

(* No request changes anything of an event that is over.                   *)
THEOREM NothingAfterTheEnd == Spec => FinishedIsReadOnly
<1>1. ASSUME Next PROVE status # "finished"
  <2>1. CASE Attendance
    BY <2>1 DEF Attendance, PresenceStep, Confirm, ConfirmAs, CancelConfirmation, AddGuest, RemoveGuest
  <2>2. CASE \E s \in Settings : UpdateConfirmationSettings(s)
    BY <2>2 DEF UpdateConfirmationSettings, ChangeSettings
  <2>3. ASSUME NEW all, NEW squadOf, NEW jobs, BuildTeams(all, squadOf, jobs) PROVE status # "finished"
    BY <2>3 DEF BuildTeams
  <2>4. CASE StartEvent \/ FinishAndClose \/ FinishEvent
    BY <2>4 DEF StartEvent, Begin, FinishAndClose, FinishEvent, End
  <2>5. ASSUME NEW a, NEW b, Kickoff(a, b) PROVE status # "finished"
    BY <2>5 DEF Kickoff, FirstMatch
  <2>6. ASSUME NEW loser, FinishAndContinue(loser) PROVE status # "finished"
    BY <2>6 DEF FinishAndContinue, NextMatch
  <2>7. ASSUME NEW t, NEW in, NEW out, AddTemporaryPlayer(t, in, out) PROVE status # "finished"
    BY <2>7 DEF AddTemporaryPlayer, SwapIn
  <2> QED
    BY <1>1, <2>1, <2>2, <2>3, <2>4, <2>5, <2>6, <2>7 DEF Next
<1>2. [Next]_vars => [status # "finished"]_vars
  BY <1>1
<1> QED
  BY <1>2, PTL DEF Spec, FinishedIsReadOnly

-----------------------------------------------------------------------------
(***************************************************************************)
(* What substitutions rest on: a substitute, and so the one replaced, has  *)
(* a side; somebody without one is neither.                                *)
(***************************************************************************)
SubstInv ==
  /\ SubstitutesPairUp
  /\ \A p \in Person : replaced[p] # Nobody => side[p] # NoTeam

(* Who replaces whom: substitutes pair up after every step.                *)
LEMMA SubstStep ==
  ASSUME DayInv, DayInv', SubstInv, [Next]_vars
  PROVE  SubstInv'
<1> USE DEF SubstInv, SubstitutesPairUp
<1>0. TypeOK /\ TypeOK'
  BY DEF DayInv
<1>1. CASE UNCHANGED <<side, active, replaced>>
  BY <1>1
<1>2. CASE \A p \in Person : replaced'[p] = Nobody
  BY <1>2
<1>3. ASSUME NEW t \in court, NEW in \in Person, NEW out \in Person, AddTemporaryPlayer(t, in, out)
      PROVE  SubstInv'
  <2>1. /\ in # out /\ out \in active /\ side[out] = t /\ side[in] = NoTeam
        /\ side' = [side EXCEPT ![in] = t]
        /\ active' = (active \ {out}) \cup {in}
        /\ replaced' = [replaced EXCEPT ![in] = out]
    BY <1>3 DEF AddTemporaryPlayer, SwapIn
  <2>2. t # NoTeam /\ Nobody \notin Person
    BY <1>0, TeamAssumption, NobodyAssumption DEF TypeOK
  <2>3. replaced[in] = Nobody /\ \A q \in Person : replaced[q] # in
    BY <2>1, <2>2
  <2>4. \A q \in Person : replaced[q] # out
    BY <2>1, <2>2
  <2>5. /\ side'[in] = t /\ replaced'[in] = out
        /\ \A q \in Person : q # in => side'[q] = side[q] /\ replaced'[q] = replaced[q]
    BY <1>0, <2>1 DEF TypeOK
  <2>6. \A q \in Person : replaced[q] \in Person \cup {Nobody}
    BY <1>0 DEF TypeOK
  <2> QED
    BY <2>1, <2>2, <2>3, <2>4, <2>5, <2>6
<1>4. CASE Attendance
  BY <1>1, <1>4 DEF Attendance, dayVars
<1>5. ASSUME NEW s, UpdateConfirmationSettings(s) PROVE SubstInv'
  BY <1>1, <1>5 DEF UpdateConfirmationSettings, matchVars
<1>6. ASSUME NEW all, NEW squadOf, NEW jobs, BuildTeams(all, squadOf, jobs) PROVE SubstInv'
  BY <1>1, <1>6 DEF BuildTeams, FormTeams, matchVars
<1>7. CASE StartEvent
  BY <1>1, <1>7 DEF StartEvent, dayVars
<1>8. ASSUME NEW a, NEW b, Kickoff(a, b) PROVE SubstInv'
  BY <1>2, <1>8 DEF Kickoff, FirstMatch, CreateMatch
<1>9. ASSUME NEW loser, FinishAndContinue(loser) PROVE SubstInv'
  BY <1>2, <1>9 DEF FinishAndContinue, NextMatch, CreateMatch
<1>10. CASE FinishAndClose
  BY <1>2, <1>10 DEF FinishAndClose, NoMatch
<1>11. CASE FinishEvent
  BY <1>1, <1>11 DEF FinishEvent, matchVars
<1>12. CASE UNCHANGED vars
  BY <1>1, <1>12 DEF vars
<1> QED
  BY <1>3, <1>4, <1>5, <1>6, <1>7, <1>8, <1>9, <1>10, <1>11, <1>12 DEF Next

(***************************************************************************)
(* However long a chain of substitutions grows, each substitute stands for *)
(* one person, who is out and whom nobody else stands for.                 *)
(***************************************************************************)
THEOREM SubstitutesStandForOne == Spec => []SubstitutesPairUp
<1>1. Init => SubstInv
  BY DEF Init, SubstInv, SubstitutesPairUp
<1>2. SubstInv => SubstitutesPairUp
  BY DEF SubstInv
<1> QED
  BY <1>1, <1>2, DayInvariant, SubstStep, PTL DEF Spec

-----------------------------------------------------------------------------
(***************************************************************************)
(* What the line-up rests on: an active player has a side on the court,    *)
(* and with exactly two keepers each side's roster has one.                *)
(***************************************************************************)
LineupInv ==
  /\ FullStrength
  /\ \A p \in active : side[p] \in court
  /\ TwoKeepers /\ court # {} => \A t \in court : \E k \in Keepers : team[k] = t

(* A line-up just made: everybody of the two rosters, on their own side.   *)
Fresh == /\ active = {p \in Person : team[p] \in court}
         /\ side = [p \in Person |-> IF p \in active THEN team[p] ELSE NoTeam]

(* A step ends the match, leaves it alone, makes a new one or substitutes. *)
LEMMA LineupSteps ==
  ASSUME DayInv, [Next]_vars
  PROVE  \/ court' = {} /\ active' = {}
         \/ UNCHANGED <<settings, team, job, queue, court, side, active>>
         \/ Fresh' /\ \E a, b \in teams : Kickoff(a, b)
         \/ Fresh' /\ \E loser \in court : FinishAndContinue(loser)
         \/ \E t \in court, in, out \in Person : AddTemporaryPlayer(t, in, out)
<1>0. ~kicked => court = {} /\ active = {}
  BY DEF DayInv, NoMatchOutsideTheDay
<1>1. CASE Attendance
  <2>1. UNCHANGED settings
    BY <1>1 DEF Attendance, PresenceStep, Confirm, ConfirmAs, CancelConfirmation, AddGuest, RemoveGuest
  <2> QED
    BY <1>1, <2>1 DEF Attendance, dayVars
<1>2. ASSUME NEW s, UpdateConfirmationSettings(s) PROVE court' = {} /\ active' = {}
  BY <1>0, <1>2 DEF UpdateConfirmationSettings, matchVars
<1>3. ASSUME NEW all, NEW squadOf, NEW jobs, BuildTeams(all, squadOf, jobs) PROVE court' = {} /\ active' = {}
  BY <1>0, <1>3 DEF BuildTeams, FormTeams, matchVars
<1>4. CASE StartEvent
  BY <1>4 DEF StartEvent, Begin, dayVars, listVars
<1>5. ASSUME NEW a \in teams, NEW b \in teams, Kickoff(a, b) PROVE Fresh'
  BY <1>5 DEF Kickoff, FirstMatch, CreateMatch, Fresh
<1>6. ASSUME NEW loser \in court, FinishAndContinue(loser) PROVE Fresh'
  BY <1>6 DEF FinishAndContinue, NextMatch, CreateMatch, Fresh
<1>7. CASE FinishAndClose
  BY <1>7 DEF FinishAndClose, NoMatch
<1>8. CASE FinishEvent
  <2>1. court' = {} /\ court = {} /\ active' = active
    BY <1>8 DEF FinishEvent, matchVars
  <2>2. active = {}
    BY <2>1, FS_EmptySet DEF DayInv, EveryTeamPlaysOrWaits, NoMatchOutsideTheDay
  <2> QED
    BY <2>1, <2>2
<1>9. CASE UNCHANGED vars
  BY <1>9 DEF vars
<1> QED
  BY <1>1, <1>2, <1>3, <1>4, <1>5, <1>6, <1>7, <1>8, <1>9 DEF Next

(* A line-up just made is at full strength. *)
LEMMA FreshIsFull ==
  ASSUME TypeOK', Fresh'
  PROVE  FullStrength' /\ \A p \in active' : side'[p] \in court'
<1>1. NoTeam \notin court'
  BY TeamAssumption DEF TypeOK
<1>2. \A t \in court' : {p \in active' : side'[p] = t} = Squad(t)'
  BY <1>1 DEF Fresh, Squad
<1> QED
  BY <1>2 DEF FullStrength, Fresh, Squad

(* One comes in for another of the same role: the count stays.             *)
LEMMA OneForOne ==
  ASSUME NEW S \in SUBSET Person, NEW out \in S, NEW in \in Person, in \notin S
  PROVE  Cardinality((S \ {out}) \cup {in}) = Cardinality(S)
<1>1. IsFiniteSet(S) /\ Cardinality(S) \in Nat
  BY Countable
<1>2. IsFiniteSet(S \ {out}) /\ Cardinality(S \ {out}) = Cardinality(S) - 1
  BY <1>1, FS_RemoveElement
<1>3. Cardinality((S \ {out}) \cup {in}) = (Cardinality(S) - 1) + 1
  BY <1>2, FS_AddElement
<1> QED
  BY <1>1, <1>3

(* One in for one out, of the same role: the side is as strong as before.  *)
LEMMA SwapKeepsStrength ==
  ASSUME DayInv, LineupInv,
         NEW t \in court, NEW in \in Person, NEW out \in Person, AddTemporaryPlayer(t, in, out)
  PROVE  FullStrength' /\ \A p \in active' : side'[p] \in court'
<1>1. /\ in # out /\ out \in active /\ side[out] = t /\ side[in] = NoTeam
      /\ job[in] = job[out] /\ team[in] \in Waits
      /\ side' = [side EXCEPT ![in] = t]
      /\ active' = (active \ {out}) \cup {in}
      /\ UNCHANGED <<team, job, queue, court>>
  BY DEF AddTemporaryPlayer, SwapIn, rosterVars
<1>2. NoTeam \notin court /\ side \in [Person -> court \cup {NoTeam}] /\ active \in SUBSET Person
  BY TeamAssumption DEF DayInv, TypeOK
<1>3. in \notin active
  BY <1>1, <1>2 DEF LineupInv
<1>4. \A u \in court, j \in Role :
        Cardinality({p \in {q \in active' : side'[q] = u} : job'[p] = j})
          = Cardinality({p \in {q \in active : side[q] = u} : job[p] = j})
  <2> SUFFICES ASSUME NEW u \in court, NEW j \in Role
               PROVE  Cardinality({p \in {q \in active' : side'[q] = u} : job'[p] = j})
                        = Cardinality({p \in {q \in active : side[q] = u} : job[p] = j})
    OBVIOUS
  <2> DEFINE S  == {p \in {q \in active : side[q] = u} : job[p] = j}
             S2 == {p \in {q \in active' : side'[q] = u} : job'[p] = j}
  <2>1. CASE u = t /\ job[out] = j
    <3>1. S2 = (S \ {out}) \cup {in}
      BY <1>1, <1>2, <1>3, <2>1
    <3>2. S \in SUBSET Person /\ out \in S /\ in \notin S
      BY <1>1, <1>2, <1>3, <2>1
    <3> HIDE DEF S, S2
    <3> QED
      BY <3>1, <3>2, OneForOne DEF S, S2
  <2>2. CASE ~(u = t /\ job[out] = j)
    <3>1. S2 = S
      BY <1>1, <1>2, <1>3, <2>2
    <3> QED
      BY <3>1
  <2> QED
    BY <2>1, <2>2
<1>5. \A u \in court : \A p \in active' : side'[p] = u => team'[p] = u \/ team'[p] \in Waits'
  BY <1>1, <1>2 DEF LineupInv, FullStrength, Waits
<1>6. \A u \in court, j \in Role :
        Cardinality({p \in {q \in active : side[q] = u} : job[p] = j})
          = Cardinality({p \in Squad(u) : job[p] = j})
  BY DEF LineupInv, FullStrength
<1>7. \A u : Squad(u)' = Squad(u)
  BY <1>1 DEF Squad
<1>8. \A p \in active' : side'[p] \in court'
  BY <1>1, <1>2 DEF LineupInv
<1>9. \A u \in court, j \in Role :
        Cardinality({p \in {q \in active' : side'[q] = u} : job'[p] = j})
          = Cardinality({p \in Squad(u)' : job'[p] = j})
  <2> SUFFICES ASSUME NEW u \in court, NEW j \in Role
               PROVE  Cardinality({p \in {q \in active' : side'[q] = u} : job'[p] = j})
                        = Cardinality({p \in Squad(u)' : job'[p] = j})
    OBVIOUS
  <2>1. {p \in Squad(u)' : job'[p] = j} = {p \in Squad(u) : job[p] = j}
    BY <1>1, <1>7
  <2>2. Cardinality({p \in {q \in active' : side'[q] = u} : job'[p] = j})
          = Cardinality({p \in {q \in active : side[q] = u} : job[p] = j})
    BY <1>4
  <2>3. Cardinality({p \in {q \in active : side[q] = u} : job[p] = j})
          = Cardinality({p \in Squad(u) : job[p] = j})
    BY <1>6
  <2> QED
    BY <2>1, <2>2, <2>3
<1>10. court' = court
  BY <1>1
<1>11. FullStrength'
  BY <1>5, <1>9, <1>10 DEF FullStrength
<1> QED
  BY <1>8, <1>11

(* With two keepers, somebody is the other one. *)
LEMMA TheOtherKeeper ==
  ASSUME TwoKeepers, NEW k \in Keepers
  PROVE  \E l \in Keepers : l # k
<1> SUFFICES ASSUME Keepers = {k} PROVE FALSE
  OBVIOUS
<1>1. Cardinality(Keepers) = 1
  BY FS_Singleton
<1> QED
  BY <1>1 DEF TwoKeepers

(* After the first kick-off each side has one of the two. *)
LEMMA KickoffGivesKeepers ==
  ASSUME DayInv, DayInv', NEW a \in teams, NEW b \in teams, Kickoff(a, b), TwoKeepers'
  PROVE  \A t \in court' : \E k \in Keepers' : team'[k] = t
<1>1. /\ court' = {a, b} /\ a # b /\ UNCHANGED <<settings, teams, job>>
      /\ IF TwoKeepers
         THEN \E k \in Keepers :
                team' = [p \in Person |-> IF p = k THEN a
                                          ELSE IF p \in Keepers THEN b ELSE team[p]]
         ELSE UNCHANGED team
  BY DEF Kickoff, FirstMatch, CreateMatch, slotVars
<1>2. /\ a # NoTeam /\ b # NoTeam /\ Keepers \subseteq Person
      /\ team \in [Person -> teams \cup {NoTeam}]
  BY TeamAssumption DEF DayInv, TypeOK, Keepers, Rostered
<1>3. TwoKeepers
  <2> SUFFICES ASSUME UNCHANGED <<settings, team, job>> PROVE TwoKeepers' = TwoKeepers
    BY <1>1
  <2>1. Keepers' = Keepers
    BY DEF Keepers, Rostered
  <2> QED
    BY <2>1 DEF TwoKeepers
<1>4. PICK k \in Keepers :
        team' = [p \in Person |-> IF p = k THEN a ELSE IF p \in Keepers THEN b ELSE team[p]]
  BY <1>1, <1>3
<1>5. PICK l \in Keepers : l # k
  BY <1>3, TheOtherKeeper
<1>6. team'[k] = a /\ team'[l] = b
  BY <1>2, <1>4, <1>5
<1>7. k \in Keepers' /\ l \in Keepers'
  BY <1>1, <1>2, <1>6 DEF Keepers, Rostered
<1> QED
  BY <1>1, <1>6, <1>7

(* ... and after every match, the keeper of the loser goes on with the new side. *)
LEMMA FinishMovesKeepers ==
  ASSUME DayInv, DayInv', LineupInv, NEW loser \in court, FinishAndContinue(loser), TwoKeepers'
  PROVE  \A t \in court' : \E k \in Keepers' : team'[k] = t
<1> DEFINE new == Head(queue)
<1>1. /\ court' = (court \ {loser}) \cup {new}
      /\ UNCHANGED <<settings, teams, job>>
      /\ team' = KeepersMoved(loser, new)
  BY DEF FinishAndContinue, NextMatch, CreateMatch, slotVars
<1>2. new \in teams /\ new # NoTeam /\ team \in [Person -> teams \cup {NoTeam}] /\ Keepers \subseteq Person
  <2>1. new \in court' /\ court' \cup Range(queue') = teams
    BY <1>1, FinishStep
  <2> QED
    BY <2>1, TeamAssumption DEF DayInv, TypeOK, Keepers, Rostered
<1> HIDE DEF new
<1>3. Keepers' = Keepers
  BY <1>1, <1>2 DEF KeepersMoved, Keepers, Rostered
<1>4. TwoKeepers
  BY <1>1, <1>3 DEF TwoKeepers
<1>5. team' = [p \in Person |-> IF p \in Keepers /\ team[p] = loser THEN new ELSE team[p]]
  BY <1>1, <1>4 DEF KeepersMoved
<1>6. \A t \in court : \E k \in Keepers : team[k] = t
  BY <1>4 DEF LineupInv
<1>7. \A t \in court \ {loser} : \E k \in Keepers' : team'[k] = t
  BY <1>2, <1>3, <1>5, <1>6
<1>8. \E k \in Keepers' : team'[k] = new
  BY <1>2, <1>3, <1>5, <1>6
<1> QED
  BY <1>1, <1>7, <1>8

(* After every step each side has as many as its roster.                   *)
LEMMA LineupStep ==
  ASSUME DayInv, DayInv', LineupInv, [Next]_vars
  PROVE  LineupInv'
<1>0. TypeOK'
  BY DEF DayInv
<1>1. CASE court' = {} /\ active' = {}
  BY <1>1 DEF LineupInv, FullStrength
<1>2. CASE UNCHANGED <<settings, team, job, queue, court, side, active>>
  <2>1. FullStrength' = FullStrength
    BY <1>2 DEF FullStrength, Squad, Waits
  <2>2. TwoKeepers' = TwoKeepers /\ Keepers' = Keepers
    BY <1>2 DEF TwoKeepers, Keepers, Rostered
  <2> QED
    BY <1>2, <2>1, <2>2 DEF LineupInv
<1>3. ASSUME Fresh', NEW a \in teams, NEW b \in teams, Kickoff(a, b) PROVE LineupInv'
  <2>1. FullStrength' /\ \A p \in active' : side'[p] \in court'
    BY <1>0, <1>3, FreshIsFull
  <2> QED
    BY <1>3, <2>1, KickoffGivesKeepers DEF LineupInv
<1>4. ASSUME Fresh', NEW loser \in court, FinishAndContinue(loser) PROVE LineupInv'
  <2>1. FullStrength' /\ \A p \in active' : side'[p] \in court'
    BY <1>0, <1>4, FreshIsFull
  <2> QED
    BY <1>4, <2>1, FinishMovesKeepers DEF LineupInv
<1>5. ASSUME NEW t \in court, NEW in \in Person, NEW out \in Person, AddTemporaryPlayer(t, in, out)
      PROVE  LineupInv'
  <2>1. FullStrength' /\ \A p \in active' : side'[p] \in court'
    BY <1>5, SwapKeepsStrength
  <2>2. UNCHANGED <<settings, team, job, court>>
    BY <1>5 DEF AddTemporaryPlayer, SwapIn, slotVars, rosterVars
  <2>3. Keepers' = Keepers
    BY <2>2 DEF Keepers, Rostered
  <2>4. TwoKeepers' = TwoKeepers
    BY <2>2, <2>3 DEF TwoKeepers
  <2> QED
    BY <2>1, <2>2, <2>3, <2>4 DEF LineupInv
<1> QED
  BY <1>1, <1>2, <1>3, <1>4, <1>5, LineupSteps

(* So the sides are at full strength all day long.                         *)
LEMMA LineupInvariant == Spec => [](DayInv /\ LineupInv)
<1>1. Init => LineupInv
  BY DEF Init, LineupInv, FullStrength
<1> QED
  BY <1>1, DayInvariant, LineupStep, PTL DEF Spec

(***************************************************************************)
(* Whoever comes in for whom, each side plays with as many people, and as  *)
(* many keepers, as its roster has, of that roster or of a waiting team.   *)
(***************************************************************************)
THEOREM SidesAreAtFullStrength == Spec => []FullStrength
<1>1. LineupInv => FullStrength
  BY DEF LineupInv
<1> QED
  BY <1>1, LineupInvariant, PTL

(***************************************************************************)
(* With two keepers and three or four teams, both sides of every match     *)
(* have a keeper playing, also after substitutions: the roster of each has *)
(* one, and the side is at full strength.                                  *)
(***************************************************************************)
THEOREM KeeperOnEachSide == Spec => []AKeeperOnEachSide
<1>1. DayInv /\ LineupInv => AKeeperOnEachSide
  <2> SUFFICES ASSUME DayInv, LineupInv, TwoKeepers, NEW t \in court
               PROVE  \E k \in active : side[k] = t /\ job[k] = "goalkeeper"
    BY DEF AKeeperOnEachSide
  <2> DEFINE playing == {p \in {q \in active : side[q] = t} : job[p] = "goalkeeper"}
             listed  == {p \in Squad(t) : job[p] = "goalkeeper"}
  <2>1. listed # {} /\ listed \in SUBSET Person /\ playing \in SUBSET Person
    BY DEF LineupInv, Keepers, Rostered, Squad, DayInv, TypeOK
  <2>2. Cardinality(playing) = Cardinality(listed)
    BY DEF LineupInv, FullStrength, Role
  <2>3. IsFiniteSet(playing) /\ IsFiniteSet(listed)
    <3> HIDE DEF playing, listed
    <3> QED
      BY <2>1, Countable
  <2>4. playing # {}
    <3> HIDE DEF playing, listed
    <3> QED
      BY <2>1, <2>2, <2>3, FS_EmptySet
  <2> QED
    BY <2>4
<1> QED
  BY <1>1, LineupInvariant, PTL
=============================================================================
