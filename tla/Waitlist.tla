------------------------------- MODULE Waitlist -------------------------------
(***************************************************************************)
(* The confirmation list of one event in full: the rows of event_presences *)
(* with their status, role, waitlist_position and confirmed_at, the        *)
(* handlers that write them and the triggers of migration 014 that every   *)
(* write fires.  It implements module Slots, which the event's life cycle  *)
(* is built on.                                                            *)
(*                                                                         *)
(* confirmed_at is kept as the order it induces on the confirmed rows, and *)
(* created_at as the order it induces on all rows: sets of pairs <<p, q>>, *)
(* p before q.  A waitlist_position of 0 is NULL.                          *)
(***************************************************************************)
EXTENDS Naturals, Sequences, FiniteSets, Functions, SequencesExt

CONSTANTS Profile, Guest, Settings

VARIABLES
  status,       \* pelada_events.status
  settings,     \* the limits in force
  presence,     \* event_presences.status, "absent" when there is no row
  role,         \* event_presences.role
  position,     \* event_presences.waitlist_position, 0 for NULL
  order,        \* who was confirmed before whom, by confirmed_at
  created       \* whose row is older than whose, by created_at

vars == <<status, settings, presence, role, position, order, created>>

Confirmed == {p \in Profile \cup Guest : presence[p] = "confirmed"}
Waiting   == {p \in Profile \cup Guest : presence[p] = "waitlist"}
Present   == {p \in Profile \cup Guest : presence[p] # "absent"}

(* The list without positions and times: what the rest of the event sees.  *)
List == INSTANCE Slots WITH confirmed <- Confirmed, waiting <- Waiting

Person == Profile \cup Guest

ASSUME PeopleAssumption ==
  /\ IsFiniteSet(Profile)
  /\ IsFiniteSet(Guest)
  /\ Profile \cap Guest = {}

ASSUME SettingsAssumption ==
  /\ Settings \subseteq List!SettingsType
  /\ Settings # {}

-----------------------------------------------------------------------------
(* Orders of the two lists; guests come after members in both.             *)

(* R puts the members of S, and nobody else, in a line.                    *)
Orders(R, S) ==
  /\ R \in SUBSET (S \X S)
  /\ \A p \in S : <<p, p>> \notin R
  /\ \A p, q \in S : p # q => <<p, q>> \in R \/ <<q, p>> \in R
  /\ \A p, q, t \in S : <<p, q>> \in R /\ <<q, t>> \in R => <<p, t>> \in R

Among(R, S) == R \cap (S \X S)

(* Those of L, in the order T, after those of S in the order R.            *)
Followed(R, S, T, L) == Among(R, S) \cup (S \X L) \cup T

AtEnd(R, S, p) == Followed(R, S \ {p}, {}, {p})

SameKind(p, q) == p \in Guest <=> q \in Guest

ConfirmedBefore(ord, p, q) ==
  \/ p \in Profile /\ q \in Guest
  \/ SameKind(p, q) /\ <<p, q>> \in ord

AheadAnyKind(pos, rows, p, q) ==                      \* mutant: guests among the members
  \/ pos[p] # 0 /\ pos[q] = 0
  \/ pos[p] # 0 /\ pos[q] # 0 /\ pos[p] < pos[q]
  \/ pos[p] = 0 /\ pos[q] = 0 /\ <<p, q>> \in rows

AheadInLine(pos, rows, p, q) ==
  \/ p \in Profile /\ q \in Guest
  \/ /\ SameKind(p, q)
     /\ \/ pos[p] # 0 /\ pos[q] = 0
        \/ pos[p] # 0 /\ pos[q] # 0 /\ pos[p] < pos[q]
        \/ pos[p] = 0 /\ pos[q] = 0 /\ <<p, q>> \in rows

(***************************************************************************)
(* The people over the limit of their pool, and the ones who then take a   *)
(* free place of theirs.                                                   *)
(***************************************************************************)
Demoted(s, ro, conf, ord) ==
  {p \in conf : \E r \in List!Pools(s) :
     LET pool == conf \cap List!InPool(s, ro, r)
     IN /\ p \in pool
        /\ Cardinality({q \in pool : ConfirmedBefore(ord, q, p)}) >= List!Limit(s, r)}

PromotedWithin(s, ro, conf, wait, Ahead(_, _), Free(_, _)) ==
  {p \in wait : \E r \in List!Pools(s) :
     LET pool == List!InPool(s, ro, r)
         ahead == {q \in wait \cap pool : Ahead(q, p)}
     IN /\ p \in pool
        /\ Free(Cardinality(conf \cap pool) + Cardinality(ahead), List!Limit(s, r))}

PromotedByAge(s, ro, conf, wait, pos, rows) ==        \* mutant: oldest row first
  PromotedWithin(s, ro, conf, wait,
    LAMBDA q, p : (p \in Guest /\ q \in Profile) \/ (SameKind(p, q) /\ <<q, p>> \in rows),
    LAMBDA n, limit : n < limit)
PromotedOneMore(s, ro, conf, wait, pos, rows) ==      \* mutant: off by one
  PromotedWithin(s, ro, conf, wait, LAMBDA q, p : AheadInLine(pos, rows, q, p),
    LAMBDA n, limit : n <= limit)

Promoted(s, ro, conf, wait, pos, rows) ==
  PromotedWithin(s, ro, conf, wait, LAMBDA q, p : AheadInLine(pos, rows, q, p),
    LAMBDA n, limit : n < limit)

(***************************************************************************)
(* rebalance_event_waitlist, run on the rows that a request has just       *)
(* written: demote, promote, renumber.  A promoted row gets its            *)
(* confirmed_at from clock_timestamp() in set_confirmation_time; the order *)
(* among several rows of the same UPDATE is the database's choice.         *)
(***************************************************************************)
Rebalance(s, ro, st, pos, ord, rows) ==
  LET conf   == {p \in Person : st[p] = "confirmed"}
      wait   == {p \in Person : st[p] = "waitlist"}
      down   == Demoted(s, ro, conf, ord)
      pos1   == [p \in Person |-> IF p \in down THEN 0 ELSE pos[p]]
      kept   == conf \ down
      up     == Promoted(s, ro, kept, wait \cup down, pos1, rows)
      line   == (wait \cup down) \ up
  IN /\ presence' = [p \in Person |-> IF p \in line THEN "waitlist"
                                      ELSE IF p \in up THEN "confirmed" ELSE st[p]]
     /\ position' = [p \in Person |-> IF p \notin line THEN 0
                       ELSE 1 + Cardinality({q \in line : AheadInLine(pos1, rows, q, p)})]
     /\ \E time \in Injection(up, 1 .. Cardinality(up)) :
          order' = Followed(ord, kept, {e \in up \X up : time[e[1]] < time[e[2]]}, up)
     /\ created' = rows

-----------------------------------------------------------------------------
(* confirm: a member asks for a place, or for the other role.              *)
Confirm(p, r) ==
  LET pool == List!InPool(settings, role, r)
      full == Cardinality(Confirmed \cap pool) >= List!Limit(settings, r)
      st   == [presence EXCEPT ![p] = IF full THEN "waitlist" ELSE "confirmed"]
      ord  == IF full THEN order ELSE AtEnd(order, Confirmed, p)
      rows == IF presence[p] = "absent" THEN AtEnd(created, Present, p) ELSE created
  IN /\ status = "registration_open"
     /\ ~(p \in Confirmed \cup Waiting /\ role[p] = r)
     /\ role' = [role EXCEPT ![p] = r]
     /\ Rebalance(settings, role', st, [position EXCEPT ![p] = 0], ord, rows)
     /\ UNCHANGED <<status, settings>>

(* cancel_confirmation: the row stays, as CANCELLED.                       *)
CancelConfirmation(p) ==
  /\ status # "finished"
  /\ presence[p] # "absent"
  /\ Rebalance(settings, role, [presence EXCEPT ![p] = "cancelled"],
               [position EXCEPT ![p] = 0], order, created)
  /\ UNCHANGED <<status, settings, role>>

(* The CRUD inserts a guest's row as CONFIRMED; the trigger decides.       *)
AddGuest(g, r) ==
  /\ status # "finished"
  /\ presence[g] = "absent"
  /\ role' = [role EXCEPT ![g] = r]
  /\ Rebalance(settings, role', [presence EXCEPT ![g] = "confirmed"], position,
               AtEnd(order, Confirmed, g), AtEnd(created, Present, g))
  /\ UNCHANGED <<status, settings>>

(* The CRUD deletes a guest's row.                                         *)
RemoveGuest(g) ==
  /\ status # "finished"
  /\ presence[g] # "absent"
  /\ Rebalance(settings, role, [presence EXCEPT ![g] = "absent"],
               [position EXCEPT ![g] = 0], order, Among(created, Present \ {g}))
  /\ UNCHANGED <<status, settings, role>>

(* update_confirmation_settings, through the trigger on the capacities.    *)
ChangeSettings(s) ==
  /\ status = "registration_open"
  /\ settings' = s
  /\ Rebalance(s, role, presence, position, order, created)
  /\ UNCHANGED <<status, role>>

(* The event starts, guarded by validate_event_start, and ends.            *)
Begin ==
  /\ status = "registration_open"
  /\ List!EnoughConfirmed
  /\ status' = "in_progress"
  /\ UNCHANGED <<settings, presence, role, position, order, created>>

End ==
  /\ status = "in_progress"
  /\ status' = "finished"
  /\ UNCHANGED <<settings, presence, role, position, order, created>>

-----------------------------------------------------------------------------
Init ==
  /\ status = "registration_open"
  /\ settings \in Settings
  /\ presence = [p \in Person |-> "absent"]
  /\ role = [p \in Person |-> "player"]
  /\ position = [p \in Person |-> 0]
  /\ order = {}
  /\ created = {}

Next ==
  \/ \E p \in Profile, r \in List!Role : Confirm(p, r)
  \/ \E p \in Profile : CancelConfirmation(p)
  \/ \E g \in Guest, r \in List!Role : AddGuest(g, r)
  \/ \E g \in Guest : RemoveGuest(g)
  \/ \E s \in Settings : ChangeSettings(s)
  \/ Begin
  \/ End

Spec == Init /\ [][Next]_vars

-----------------------------------------------------------------------------
(* Each list holds each of its people once, and only them.                 *)
TypeOK ==
  /\ status \in List!Status
  /\ settings \in Settings
  /\ presence \in [Person -> {"absent", "confirmed", "waitlist", "cancelled"}]
  /\ role \in [Person -> List!Role]
  /\ position \in [Person -> 0 .. Cardinality(Person)]
  /\ Orders(order, Confirmed)
  /\ Orders(created, Present)

(***************************************************************************)
(* The rows are what they should be, and waitlist_position numbers the     *)
(* people who wait 1, 2, ..., n without gaps or repeats, every guest after *)
(* every member (rebalance_event_waitlist; docs/DEVELOPMENT.md,            *)
(* "Convidados").                                                          *)
(***************************************************************************)
LineIsNumbered ==
  /\ TypeOK
  /\ {position[p] : p \in Waiting} = 1 .. Cardinality(Waiting)
  /\ \A p \in Person \ Waiting : position[p] = 0
  /\ \A p \in Waiting \cap Profile, g \in Waiting \cap Guest : position[p] < position[g]

(***************************************************************************)
(* Promotion follows the line: nobody gets a place before somebody of the  *)
(* same kind who waited ahead of them for the same pool and is still       *)
(* waiting for it afterwards, whatever the request that freed the place.   *)
(***************************************************************************)
FirstComeFirstServed ==
  [][ \A p, q \in Waiting :
        /\ SameKind(p, q) /\ position[p] < position[q]
        /\ q \in Confirmed' /\ role'[q] = role[q]
        => \/ p \notin Waiting'
           \/ settings'.split /\ role'[p] # role'[q] ]_vars

(***************************************************************************)
(* Without the database function the Python code promotes by itself        *)
(* (rebalance_after_withdrawal).  After any one withdrawal it leaves       *)
(* exactly the rows that the SQL function leaves.                          *)
(***************************************************************************)
FallbackAlong(s, ro, st, line) ==
  LET Step(r, acc, p) ==
        IF p \in List!InPool(s, ro, r) /\ acc.count < List!Limit(s, r)
        THEN [count |-> acc.count + 1, up |-> acc.up \cup {p}]
        ELSE acc
      Up(r) ==
        LET inPool == {p \in List!InPool(s, ro, r) : st[p] = "confirmed"}
        IN FoldLeft(LAMBDA acc, p : Step(r, acc, p),
                    [count |-> Cardinality(inPool), up |-> {}], line).up
      up   == UNION {Up(r) : r \in List!Pools(s)}
      left == SelectSeq(line, LAMBDA p : p \notin up)
  IN [presence |-> [p \in Person |-> IF p \in up THEN "confirmed" ELSE st[p]],
      position |-> [p \in Person |-> SelectInSeq(left, LAMBDA q : q = p)]]

FallbackByAge(s, ro, st, pos, rows) ==                \* mutant: oldest row first
  FallbackAlong(s, ro, st, SetToSortSeq({p \in Person : st[p] = "waitlist"},
                                        LAMBDA p, q : <<p, q>> \in rows))

FallbackRows(s, ro, st, pos, rows) ==
  FallbackAlong(s, ro, st, SetToSortSeq({p \in Person : st[p] = "waitlist"},
                                        LAMBDA p, q : AheadInLine(pos, rows, p, q)))

FallbackAgrees ==
  [][ \A p \in Profile :
        (presence[p] \in {"confirmed", "waitlist"} /\ presence'[p] = "cancelled") =>
          LET rows == FallbackRows(settings, role, [presence EXCEPT ![p] = "cancelled"],
                                   [position EXCEPT ![p] = 0], created)
          IN presence' = rows.presence /\ position' = rows.position ]_vars

-----------------------------------------------------------------------------
(* The list of module Slots, as this module implements it.                 *)
ImplementsSlots == List!SlotsSpec
=============================================================================
