-------------------------------- MODULE Slots --------------------------------
(***************************************************************************)
(* The confirmation list of one event, as far as the rest of the event is  *)
(* concerned: who holds a place, who waits for one, in which role, and     *)
(* within which limits.  Positions in the line and confirmation times are  *)
(* left out (module Waitlist has them and implements this one), so the     *)
(* person who is promoted or demoted is any one that the limits allow.     *)
(*                                                                         *)
(* Every step is one transaction that holds the lock of the event's row    *)
(* (services/groups.py event_by_group, FOR UPDATE): it is atomic.          *)
(***************************************************************************)
EXTENDS Naturals, FiniteSets

CONSTANTS
  Profile,     \* members of the group, who confirm for themselves
  Guest,       \* guests without an account (group_guests)
  Settings     \* the confirmation settings organisers may choose

Role   == {"player", "goalkeeper"}
Person == Profile \cup Guest

(***************************************************************************)
(* Confirmation settings of pelada_events.  `split' stands for             *)
(* min_confirmed_goalkeepers being NOT NULL.  A NULL maximum is any number *)
(* that the people there are cannot reach.                                 *)
(***************************************************************************)
SettingsType ==
  [split : BOOLEAN, minPlayers : Nat, maxPlayers : Nat,
   minKeepers : Nat, maxKeepers : Nat]

ASSUME PeopleAssumption ==
  /\ IsFiniteSet(Profile)
  /\ IsFiniteSet(Guest)
  /\ Profile \cap Guest = {}

ASSUME SettingsAssumption ==
  /\ Settings \subseteq SettingsType
  /\ Settings # {}

VARIABLES
  status,      \* pelada_events.status
  settings,    \* the limits in force
  confirmed,   \* event_presences with status CONFIRMED
  waiting,     \* event_presences with status WAITLIST
  role         \* event_presences.role (kept in a cancelled presence)

listVars == <<settings, confirmed, waiting, role>>
slotVars == <<status, settings, confirmed, waiting, role>>

Status == {"registration_open", "in_progress", "finished"}

-----------------------------------------------------------------------------
(* Pools of places: one per role, or a single one when they are not split. *)

Pools(s) == IF s.split THEN Role ELSE {"player"}

InPool(s, ro, r) == {p \in Person : s.split => ro[p] = r}

Limit(s, r) == IF s.split /\ r = "goalkeeper" THEN s.maxKeepers ELSE s.maxPlayers

Smaller(a, b) == IF a < b THEN a ELSE b

(***************************************************************************)
(* What rebalance_event_waitlist does to the pool of role r: whoever is    *)
(* over the limit goes to the line; otherwise those waiting take the free  *)
(* places.                                                                 *)
(***************************************************************************)
PoolNotRefilled(conf, wait, conf2, limit) ==          \* mutant: no promotion
  IF Cardinality(conf) > limit
  THEN conf2 \subseteq conf /\ Cardinality(conf2) = limit
  ELSE conf2 = conf

PoolRebalanced(conf, wait, conf2, limit) ==
  IF Cardinality(conf) > limit
  THEN conf2 \subseteq conf /\ Cardinality(conf2) = limit
  ELSE /\ conf \subseteq conf2
       /\ Cardinality(conf2) = Smaller(limit, Cardinality(conf) + Cardinality(wait))

PoolsRebalanced(s, ro, conf, wait, conf2) ==
  /\ conf2 \in SUBSET (conf \cup wait)
  /\ \A r \in Pools(s) :
       LET pool == InPool(s, ro, r)
       IN PoolRebalanced(conf \cap pool, wait \cap pool, conf2 \cap pool, Limit(s, r))

Rebalance(s, ro, conf, wait) ==
  /\ confirmed' \in SUBSET (conf \cup wait)
  /\ PoolsRebalanced(s, ro, conf, wait, confirmed')
  /\ waiting' = (conf \cup wait) \ confirmed'

-----------------------------------------------------------------------------
(***************************************************************************)
(* A member confirms, or asks for the other role.  Repeating a request for *)
(* the role already held changes nothing.  The count that decides between  *)
(* a place and the line reads the rows as they were before the request.    *)
(***************************************************************************)
ConfirmAs(p, r, full) ==
  LET conf  == IF full THEN confirmed \ {p} ELSE confirmed \cup {p}
      wait  == IF full THEN waiting \cup {p} ELSE waiting \ {p}
  IN /\ status = "registration_open"
     /\ ~(p \in confirmed \cup waiting /\ role[p] = r)
     /\ role' = [role EXCEPT ![p] = r]
     /\ Rebalance(settings, role', conf, wait)
     /\ UNCHANGED <<status, settings>>

ConfirmUncounted(p, r) == ConfirmAs(p, r, FALSE)      \* mutant: capacity not looked at

Confirm(p, r) ==
  ConfirmAs(p, r, Cardinality(confirmed \cap InPool(settings, role, r)) >= Limit(settings, r))

(***************************************************************************)
(* A member gives up the place or leaves the line; the database promotes   *)
(* the next one.  Allowed until the event is over, also while it is being  *)
(* played.                                                                 *)
(***************************************************************************)
CancelConfirmation(p) ==
  /\ status # "finished"
  /\ p \in confirmed \cup waiting
  /\ Rebalance(settings, role, confirmed \ {p}, waiting \ {p})
  /\ UNCHANGED <<status, settings, role>>

(***************************************************************************)
(* An organiser inserts a presence for a guest through the generic CRUD,   *)
(* behind check_write; it starts CONFIRMED and the trigger rebalances.     *)
(***************************************************************************)
AddGuest(g, r) ==
  /\ status # "finished"
  /\ g \notin confirmed \cup waiting
  /\ role' = [role EXCEPT ![g] = r]
  /\ LET pool == InPool(settings, role', r)
         full == Cardinality(confirmed \cap pool) >= Limit(settings, r)
     IN IF full
        THEN Rebalance(settings, role', confirmed, waiting \cup {g})
        ELSE Rebalance(settings, role', confirmed \cup {g}, waiting)
  /\ UNCHANGED <<status, settings>>

(* The CRUD deletes a guest's presence; the trigger promotes the next one. *)
RemoveGuest(g) == CancelConfirmation(g)

(* New limits, before the event starts: demotes or promotes as they ask.   *)
ChangeSettings(s) ==
  /\ status = "registration_open"
  /\ settings' = s
  /\ Rebalance(s, role, confirmed, waiting)
  /\ UNCHANGED <<status, role>>

(* What start and the trigger validate_event_start count before an event.  *)
EnoughConfirmed ==
  LET keepers == {p \in confirmed : role[p] = "goalkeeper"}
      counted == IF settings.split THEN confirmed \ keepers ELSE confirmed
      minimum == IF settings.minPlayers < 3 THEN 3 ELSE settings.minPlayers
  IN /\ Cardinality(counted) >= minimum
     /\ settings.split => Cardinality(keepers) >= settings.minKeepers

(* The event starts, and ends; module EventLifecycle says when exactly.    *)
Begin ==
  /\ status = "registration_open"
  /\ EnoughConfirmed
  /\ status' = "in_progress"
  /\ UNCHANGED listVars

End ==
  /\ status = "in_progress"
  /\ status' = "finished"
  /\ UNCHANGED listVars

-----------------------------------------------------------------------------
SlotsInit ==
  /\ status = "registration_open"
  /\ settings \in Settings
  /\ confirmed = {}
  /\ waiting = {}
  /\ role = [p \in Person |-> "player"]

PresenceStep ==
  \/ \E p \in Profile, r \in Role : Confirm(p, r)
  \/ \E p \in Profile : CancelConfirmation(p)
  \/ \E g \in Guest, r \in Role : AddGuest(g, r)
  \/ \E g \in Guest : RemoveGuest(g)

SlotsNext ==
  \/ PresenceStep
  \/ \E s \in Settings : ChangeSettings(s)
  \/ Begin
  \/ End

SlotsSpec == SlotsInit /\ [][SlotsNext]_slotVars

-----------------------------------------------------------------------------
(* Rows of the list: nobody both holds a place and waits for one.          *)
SlotsTypeOK ==
  /\ status \in Status
  /\ settings \in Settings
  /\ confirmed \in SUBSET Person
  /\ waiting \in SUBSET Person
  /\ confirmed \cap waiting = {}
  /\ role \in [Person -> Role]

(***************************************************************************)
(* The places are used exactly: no pool holds more people than its limit,  *)
(* and nobody waits while the pool of their role has a free place.  It is  *)
(* what confirm, cancel_confirmation and the triggers of migration 014     *)
(* together promise after every transaction.                               *)
(***************************************************************************)
PlacesUsedExactly ==
  \A r \in Pools(settings) :
    LET pool == InPool(settings, role, r)
    IN /\ Cardinality(confirmed \cap pool) <= Limit(settings, r)
       /\ waiting \cap pool # {} => Cardinality(confirmed \cap pool) = Limit(settings, r)

(***************************************************************************)
(* A place, once confirmed, goes back to the line only when its holder     *)
(* asked for the other role or the organiser changed the limits: no other  *)
(* person's request pushes anyone out of the list.                         *)
(***************************************************************************)
NobodyIsPushedOut ==
  [][ \A p \in confirmed \cap waiting' :
        settings' # settings \/ role'[p] # role[p] ]_slotVars
=============================================================================
