---------------------------- MODULE WaitlistProofs ----------------------------
(***************************************************************************)
(* Proofs about the rows of the confirmation list, for any people and any  *)
(* limits: the waiting line is numbered and served in order, and the rows  *)
(* implement module Slots.                                                 *)
(***************************************************************************)
EXTENDS Waitlist, FiniteSetTheorems, TLAPS

(* R orders S, whatever else it orders.                                    *)
Lines(R, S) ==
  /\ \A p \in S : <<p, p>> \notin R
  /\ \A p, q \in S : p # q => <<p, q>> \in R \/ <<q, p>> \in R
  /\ \A p, q, t \in S : <<p, q>> \in R /\ <<q, t>> \in R => <<p, t>> \in R

Before(R, S, p) == {q \in S : <<q, p>> \in R}

Rank(R, S, p) == Cardinality(Before(R, S, p))

(* Those of S behind the first so many, and those who come within a limit. *)
Over(R, S, limit)      == {p \in S : Rank(R, S, p) >= limit}
Served(R, S, n, limit) == {p \in S : n + Rank(R, S, p) < limit}
Firsts(R, S, k)        == {p \in S : Rank(R, S, p) < k}

(* The orders of the two lists as relations.                               *)
Earlier(ord)       == {e \in Person \X Person : ConfirmedBefore(ord, e[1], e[2])}
AheadOf(pos, rows) == {e \in Person \X Person : AheadInLine(pos, rows, e[1], e[2])}

-----------------------------------------------------------------------------
(* Finite orders *)

(* There are finitely many people.                                         *)
LEMMA Countable ==
  /\ IsFiniteSet(Person)
  /\ \A S \in SUBSET Person : IsFiniteSet(S) /\ Cardinality(S) \in Nat
                              /\ Cardinality(S) <= Cardinality(Person)
<1>1. IsFiniteSet(Person)
  BY PeopleAssumption, FS_Union DEF Person
<1> QED
  BY <1>1, FS_Subset, FS_CardinalityType

(* Slots counts as this module does.                                       *)
LEMMA SameCount == \A S : List!Cardinality(S) = Cardinality(S)
BY DEF List!Cardinality, Cardinality

(* An order of a set orders each part of it.                               *)
LEMMA LinesOfPart ==
  ASSUME NEW R, NEW S, Lines(R, S), NEW T \in SUBSET S
  PROVE  Lines(R, T)
BY DEF Lines

(* Whoever comes later has more people before.                             *)
LEMMA RankGrows ==
  ASSUME NEW S, IsFiniteSet(S), NEW R, Lines(R, S)
  PROVE  /\ \A p \in S : Rank(R, S, p) \in 0 .. Cardinality(S) - 1
         /\ \A p, q \in S : <<p, q>> \in R <=> Rank(R, S, p) < Rank(R, S, q)
<1>1. \A p \in S : Before(R, S, p) \in SUBSET S /\ p \notin Before(R, S, p)
  BY DEF Before, Lines
<1>2. \A p \in S : IsFiniteSet(Before(R, S, p)) /\ Rank(R, S, p) \in Nat
  BY <1>1, FS_Subset, FS_CardinalityType DEF Rank
<1>3. ASSUME NEW p \in S PROVE Rank(R, S, p) < Cardinality(S)
  <2>1. Before(R, S, p) \in SUBSET (S \ {p})
    BY <1>1
  <2>2. IsFiniteSet(S \ {p}) /\ Cardinality(S \ {p}) = Cardinality(S) - 1
    BY FS_RemoveElement
  <2>3. Rank(R, S, p) <= Cardinality(S \ {p})
    BY <2>1, <2>2, FS_Subset DEF Rank
  <2> QED
    BY <1>2, <2>2, <2>3, FS_CardinalityType
<1>4. ASSUME NEW p \in S, NEW q \in S, <<p, q>> \in R
      PROVE  Rank(R, S, p) < Rank(R, S, q)
  <2>1. Before(R, S, p) \in SUBSET (Before(R, S, q) \ {p}) /\ p \in Before(R, S, q)
    BY <1>4 DEF Before, Lines
  <2>2. /\ IsFiniteSet(Before(R, S, q) \ {p})
        /\ Cardinality(Before(R, S, q) \ {p}) = Rank(R, S, q) - 1
    BY <1>2, <2>1, FS_RemoveElement DEF Rank
  <2>3. Rank(R, S, p) <= Cardinality(Before(R, S, q) \ {p})
    BY <2>1, <2>2, FS_Subset DEF Rank
  <2> QED
    BY <1>2, <2>2, <2>3
<1>5. \A p, q \in S : <<p, q>> \in R \/ <<q, p>> \in R \/ p = q
  BY DEF Lines
<1>6. ASSUME NEW p \in S, NEW q \in S, Rank(R, S, p) < Rank(R, S, q)
      PROVE  <<p, q>> \in R
  <2>1. /\ Rank(R, S, p) \in Nat /\ Rank(R, S, q) \in Nat
        /\ <<q, p>> \in R => Rank(R, S, q) < Rank(R, S, p)
    BY <1>2, <1>4
  <2>2. p # q /\ <<q, p>> \notin R
    BY <1>6, <2>1
  <2> QED
    BY <1>5, <2>2
<1> QED
  BY <1>2, <1>3, <1>4, <1>6, FS_CardinalityType

(* The ranks are 0, 1, ..., without gaps.                                  *)
LEMMA RanksAreAll ==
  ASSUME NEW S, IsFiniteSet(S), NEW R, Lines(R, S)
  PROVE  \A k \in 0 .. Cardinality(S) - 1 : \E p \in S : Rank(R, S, p) = k
<1> DEFINE n == Cardinality(S)
           f == [p \in S |-> Rank(R, S, p)]
<1>1. n \in Nat
  BY FS_CardinalityType
<1>2. IsFiniteSet(0 .. n - 1) /\ Cardinality(0 .. n - 1) = n
  BY <1>1, FS_Interval
<1>3. \A p, q \in S : p # q => Rank(R, S, p) # Rank(R, S, q)
  BY RankGrows DEF Lines
<1>4. f \in Injection(S, 0 .. n - 1)
  BY <1>3, RankGrows DEF Injection, IsInjective
<1>5. f \in Surjection(S, 0 .. n - 1)
  <2> HIDE DEF f
  <2> QED
    BY <1>2, <1>4, FS_Injection
<1> QED
  BY <1>5 DEF Surjection

(* Of the first k there are k, or all of them.                             *)
LEMMA FirstOnes ==
  ASSUME NEW S, IsFiniteSet(S), NEW R, Lines(R, S), NEW k \in Nat
  PROVE  Cardinality(Firsts(R, S, k)) = List!Smaller(k, Cardinality(S))
<1> DEFINE n == Cardinality(S)
           A == Firsts(R, S, k)
<1>0. A = {p \in S : Rank(R, S, p) < k}
  BY DEF Firsts
<1>1. n \in Nat
  BY FS_CardinalityType
<1>2. CASE n <= k
  <2>1. A = S
    BY <1>0, <1>1, <1>2, RankGrows
  <2> QED
    BY <1>1, <1>2, <2>1 DEF List!Smaller
<1>3. CASE k < n
  <2> DEFINE f == [p \in A |-> Rank(R, S, p)]
  <2>1. IsFiniteSet(0 .. k - 1) /\ Cardinality(0 .. k - 1) = k
    BY FS_Interval
  <2>2. \A p, q \in S : p # q => Rank(R, S, p) # Rank(R, S, q)
    BY RankGrows DEF Lines
  <2>3. f \in Injection(A, 0 .. k - 1)
    BY <1>0, <2>2, RankGrows DEF Injection, IsInjective
  <2>4. f \in Surjection(A, 0 .. k - 1)
    <3>1. \A i \in 0 .. k - 1 : \E p \in A : f[p] = i
      BY <1>0, <1>1, <1>3, RanksAreAll
    <3> QED
      BY <2>3, <3>1 DEF Surjection, Injection
  <2>5. Cardinality(A) = k
    <3> HIDE DEF f, A
    <3> QED
      BY <2>1, <2>3, <2>4, FS_Injection
  <2> QED
    BY <1>1, <1>3, <2>5 DEF List!Smaller
<1> QED
  BY <1>1, <1>2, <1>3

-----------------------------------------------------------------------------
(* One pool *)

(***************************************************************************)
(* Whoever is over the limit leaves, and as many of those who wait come in *)
(* as there is room for: what Slots asks for.                              *)
(***************************************************************************)
LEMMA PoolServed ==
  ASSUME NEW C \in SUBSET Person, NEW W \in SUBSET Person, C \cap W = {},
         NEW limit \in Nat, NEW R, Lines(R, C), NEW Q, Lines(Q, W \cup Over(R, C, limit)),
         NEW K, K = C \ Over(R, C, limit),
         NEW U, U = Served(Q, W \cup Over(R, C, limit), Cardinality(K), limit)
  PROVE  /\ List!PoolRebalanced(C, W, K \cup U, limit)
         /\ Cardinality(C) > limit => U = {}
<1> DEFINE D == Over(R, C, limit)
           V == W \cup D
           n == Cardinality(C)
           m == Cardinality(W)
<1>1. /\ D \in SUBSET C /\ K \in SUBSET C /\ V \in SUBSET Person /\ U \in SUBSET V
      /\ K \cap V = {}
  BY DEF Over, Served
<1>2. /\ IsFiniteSet(C) /\ IsFiniteSet(W) /\ IsFiniteSet(V) /\ IsFiniteSet(K) /\ IsFiniteSet(U)
      /\ n \in Nat /\ m \in Nat /\ Cardinality(K) \in Nat /\ Cardinality(V) \in Nat
      /\ Cardinality(U) \in Nat
  BY <1>1, Countable
<1>0. \A A, B : List!PoolRebalanced(A, B, K \cup U, limit) <=>
                  IF Cardinality(A) > limit
                  THEN K \cup U \subseteq A /\ Cardinality(K \cup U) = limit
                  ELSE /\ A \subseteq K \cup U
                       /\ Cardinality(K \cup U) = List!Smaller(limit, Cardinality(A) + Cardinality(B))
  BY SameCount DEF List!PoolRebalanced
<1>3. Cardinality(K) = List!Smaller(limit, n)
  <2>1. \A p \in C : Rank(R, C, p) \in Nat
    BY <1>2, RankGrows
  <2>2. K = Firsts(R, C, limit)
    BY <2>1 DEF Over, Firsts
  <2> QED
    BY <1>2, <2>2, FirstOnes
<1>4. \A p \in V : Rank(Q, V, p) \in Nat
  BY <1>2, RankGrows
<1> HIDE DEF D, V
<1>5. CASE n > limit
  <2>1. Cardinality(K) = limit
    BY <1>2, <1>3, <1>5 DEF List!Smaller
  <2>2. U = {}
    BY <1>4, <2>1 DEF Served, V, D
  <2>3. K \cup U = K
    BY <2>2
  <2> QED
    BY <1>0, <1>1, <1>5, <2>1, <2>2, <2>3
<1>6. CASE ~(n > limit)
  <2>1. Cardinality(K) = n
    BY <1>2, <1>3, <1>6 DEF List!Smaller
  <2>2. K = C
    BY <1>1, <1>2, <2>1, FS_Subset
  <2>3. V = W
    BY <2>2, <1>1 DEF V
  <2> DEFINE k == limit - n
  <2>4. k \in Nat
    BY <1>2, <1>6
  <2>5. U = Firsts(Q, W, k)
    <3>1. \A p \in W : Rank(Q, W, p) \in Nat
      BY <1>4, <2>3
    <3>2. U = {p \in W : n + Rank(Q, W, p) < limit}
      BY <2>1, <2>3 DEF Served, V, D
    <3>3. ASSUME NEW x \in Nat PROVE n + x < limit <=> x < k
      BY <1>2
    <3> HIDE DEF k, n
    <3>4. U = {p \in W : Rank(Q, W, p) < k}
      BY <3>1, <3>2, <3>3
    <3> QED
      BY <3>4 DEF Firsts
  <2>6. Cardinality(U) = List!Smaller(k, m)
    <3>1. Lines(Q, W)
      BY <2>3 DEF V, D
    <3> HIDE DEF k
    <3> QED
      BY <1>2, <2>4, <2>5, <3>1, FirstOnes
  <2>7. Cardinality(C \cup U) = n + Cardinality(U)
    <3>1. C \cap U = {}
      BY <1>1, <2>2
    <3>2. Cardinality(C \cup U) = n + Cardinality(U) - Cardinality(C \cap U)
      BY <1>2, FS_Union
    <3>3. Cardinality(C \cap U) = 0
      BY <3>1, FS_EmptySet
    <3> QED
      BY <1>2, <3>2, <3>3
  <2>8. Cardinality(C \cup U) = List!Smaller(limit, n + m)
    BY <1>2, <1>6, <2>4, <2>6, <2>7 DEF List!Smaller
  <2> QED
    BY <1>0, <1>6, <2>2, <2>8
<1> QED
  BY <1>5, <1>6

-----------------------------------------------------------------------------
(* The two lists are orders. *)

(* Members before guests, each kind by the time of confirmation.           *)
LEMMA EarlierLines ==
  ASSUME NEW S \in SUBSET Person, NEW ord, Lines(ord, S)
  PROVE  Lines(Earlier(ord), S)
<1>1. \A p, q \in S : <<p, q>> \in Earlier(ord) <=> ConfirmedBefore(ord, p, q)
  BY DEF Earlier
<1>2. \A p \in Person : p \in Guest <=> p \notin Profile
  BY PeopleAssumption DEF Person
<1> QED
  BY <1>1, <1>2 DEF Lines, ConfirmedBefore, SameKind

(* Members before guests, each kind by position and then by age.           *)
LEMMA AheadLines ==
  ASSUME NEW S \in SUBSET Person, NEW rows, Lines(rows, S),
         NEW pos \in [Person -> Nat],
         \A p, q \in S : pos[p] = pos[q] /\ pos[p] # 0 => p = q
  PROVE  Lines(AheadOf(pos, rows), S)
<1> DEFINE A == AheadOf(pos, rows)
<1>1. \A p, q \in S : <<p, q>> \in A <=> AheadInLine(pos, rows, p, q)
  BY DEF AheadOf
<1>2. \A p \in S : (p \in Guest <=> p \notin Profile) /\ pos[p] \in Nat
  BY PeopleAssumption DEF Person
<1> HIDE DEF A
<1>3. ASSUME NEW p \in S PROVE <<p, p>> \notin A
  <2>1. ~(pos[p] < pos[p]) /\ <<p, p>> \notin rows
    BY <1>2 DEF Lines
  <2> QED
    BY <1>1, <1>2, <2>1 DEF AheadInLine
<1>4. ASSUME NEW p \in S, NEW q \in S, p # q
      PROVE  <<p, q>> \in A \/ <<q, p>> \in A
  <2>1. pos[p] < pos[q] \/ pos[q] < pos[p] \/ (pos[p] = 0 /\ pos[q] = 0)
    BY <1>2, <1>4
  <2>2. <<p, q>> \in rows \/ <<q, p>> \in rows
    BY <1>4 DEF Lines
  <2> QED
    BY <1>1, <1>2, <2>1, <2>2 DEF AheadInLine, SameKind
<1>5. ASSUME NEW p \in S, NEW q \in S, NEW t \in S, <<p, q>> \in A, <<q, t>> \in A
      PROVE  <<p, t>> \in A
  <2>1. AheadInLine(pos, rows, p, q) /\ AheadInLine(pos, rows, q, t)
    BY <1>1, <1>5
  <2>2. <<p, q>> \in rows /\ <<q, t>> \in rows => <<p, t>> \in rows
    BY DEF Lines
  <2>3. AheadInLine(pos, rows, p, t)
    BY <1>2, <2>1, <2>2 DEF AheadInLine, SameKind
  <2> QED
    BY <1>1, <2>3
<1> QED
  BY <1>3, <1>4, <1>5 DEF Lines, A

(* A person belongs to one pool.                                           *)
LEMMA OnePool ==
  ASSUME NEW s, NEW ro \in [Person -> List!Role], NEW p \in Person
  PROVE  /\ \E r \in List!Pools(s) : p \in List!InPool(s, ro, r)
         /\ \A r, t \in List!Pools(s) : p \in List!InPool(s, ro, r) /\ p \in List!InPool(s, ro, t) => r = t
BY DEF List!Pools, List!InPool, List!Person, Person, List!Role

(* Those who lose their place in a pool are those over its limit.          *)
LEMMA DemotedOfPool ==
  ASSUME NEW s, NEW ro \in [Person -> List!Role], NEW conf \in SUBSET Person, NEW ord,
         NEW r \in List!Pools(s),
         NEW C, C = conf \cap List!InPool(s, ro, r)
  PROVE  Demoted(s, ro, conf, ord) \cap List!InPool(s, ro, r)
           = Over(Earlier(ord), C, List!Limit(s, r))
<1> DEFINE E == Earlier(ord)
           In(t) == conf \cap List!InPool(s, ro, t)
<1>1. \A t, p : p \in In(t) =>
        {q \in In(t) : ConfirmedBefore(ord, q, p)} = Before(E, In(t), p)
  BY DEF Earlier, Before
<1>2. Demoted(s, ro, conf, ord) = {p \in conf : \E t \in List!Pools(s) :
        p \in In(t) /\ Rank(E, In(t), p) >= List!Limit(s, t)}
  BY <1>1 DEF Demoted, Rank
<1>3. \A p \in conf : \A t \in List!Pools(s) : p \in In(t) /\ p \in In(r) => t = r
  BY OnePool
<1> QED
  BY <1>2, <1>3 DEF Over

(* And those who get one are the first of those who wait for that pool.    *)
LEMMA PromotedOfPool ==
  ASSUME NEW s, NEW ro \in [Person -> List!Role], NEW conf, NEW wait \in SUBSET Person,
         NEW pos, NEW rows, NEW r \in List!Pools(s),
         NEW W, W = wait \cap List!InPool(s, ro, r)
  PROVE  Promoted(s, ro, conf, wait, pos, rows) \cap List!InPool(s, ro, r)
           = Served(AheadOf(pos, rows), W, Cardinality(conf \cap List!InPool(s, ro, r)), List!Limit(s, r))
<1> DEFINE A == AheadOf(pos, rows)
           In(t) == wait \cap List!InPool(s, ro, t)
           Held(t) == Cardinality(conf \cap List!InPool(s, ro, t))
<1>1. \A t, p : p \in In(t) =>
        {q \in In(t) : AheadInLine(pos, rows, q, p)} = Before(A, In(t), p)
  BY DEF AheadOf, Before
<1>2. Promoted(s, ro, conf, wait, pos, rows) = {p \in wait : \E t \in List!Pools(s) :
        p \in In(t) /\ Held(t) + Rank(A, In(t), p) < List!Limit(s, t)}
  BY <1>1 DEF Promoted, PromotedWithin, Rank
<1>3. \A p \in wait : \A t \in List!Pools(s) : p \in In(t) /\ p \in In(r) => t = r
  BY OnePool
<1> QED
  BY <1>2, <1>3 DEF Served

-----------------------------------------------------------------------------
(* The rebalancing *)

Standing == {"absent", "confirmed", "waitlist", "cancelled"}

Holding(st)  == {p \in Person : st[p] = "confirmed"}
Queueing(st) == {p \in Person : st[p] = "waitlist"}
Here(st)     == {p \in Person : st[p] # "absent"}

(* Rows as a request writes them, before the trigger runs.                 *)
Written(s, ro, st, pos, ord, rows) ==
  /\ s \in List!SettingsType
  /\ ro \in [Person -> List!Role]
  /\ st \in [Person -> Standing]
  /\ pos \in [Person -> Nat]
  /\ \A p \in Person \ Queueing(st) : pos[p] = 0
  /\ \A p, q \in Person : pos[p] = pos[q] /\ pos[p] # 0 => p = q
  /\ Lines(ord, Holding(st))
  /\ Orders(rows, Here(st))

(* The names of Rebalance: who leaves, who stays, who comes in.            *)
Out(s, ro, st, ord)  == Demoted(s, ro, Holding(st), ord)
Kept(s, ro, st, ord) == Holding(st) \ Out(s, ro, st, ord)
Reset(s, ro, st, pos, ord) == [p \in Person |-> IF p \in Out(s, ro, st, ord) THEN 0 ELSE pos[p]]
Come(s, ro, st, pos, ord, rows) ==
  Promoted(s, ro, Kept(s, ro, st, ord), Queueing(st) \cup Out(s, ro, st, ord),
           Reset(s, ro, st, pos, ord), rows)

(* Limits are numbers. *)
LEMMA LimitType ==
  ASSUME NEW s \in List!SettingsType, NEW r
  PROVE  List!Limit(s, r) \in Nat
BY DEF List!SettingsType, List!Limit

(* After the rebalancing: who stayed and who came in have a place, the     *)
(* others of the two lists wait, and the rest is as it was.                *)
LEMMA Rebalanced ==
  ASSUME NEW s, NEW ro, NEW st, NEW pos, NEW ord, NEW rows,
         Written(s, ro, st, pos, ord, rows), Rebalance(s, ro, st, pos, ord, rows),
         NEW down, down = Out(s, ro, st, ord), NEW kept, kept = Kept(s, ro, st, ord),
         NEW up, up = Come(s, ro, st, pos, ord, rows)
  PROVE  /\ down \in SUBSET Holding(st) /\ kept = Holding(st) \ down
         /\ up \in SUBSET (Queueing(st) \cup down) /\ up \cap kept = {}
         /\ presence' \in [Person -> Standing]
         /\ Confirmed' = kept \cup up
         /\ Waiting' = (Queueing(st) \cup down) \ up
         /\ Present' = Here(st)
<1> DEFINE line == (Queueing(st) \cup down) \ up
<1>1. down \in SUBSET Holding(st) /\ kept = Holding(st) \ down
  BY DEF Out, Kept, Demoted
<1>2. up \in SUBSET (Queueing(st) \cup down)
  BY DEF Come, Promoted, PromotedWithin
<1>3. presence' = [p \in Person |-> IF p \in line THEN "waitlist"
                                    ELSE IF p \in up THEN "confirmed" ELSE st[p]]
  BY DEF Rebalance, Out, Kept, Come, Reset, Holding, Queueing
<1>4. st \in [Person -> Standing]
  BY DEF Written
<1>5. /\ Confirmed' = {p \in Person : presence'[p] = "confirmed"}
      /\ Waiting' = {p \in Person : presence'[p] = "waitlist"}
      /\ Present' = {p \in Person : presence'[p] # "absent"}
  BY DEF Confirmed, Waiting, Present, Person
<1>6. up \cap kept = {}
  BY <1>1, <1>2 DEF Holding, Queueing
<1>7. presence' \in [Person -> Standing]
  BY <1>3, <1>4 DEF Standing
<1>8. Confirmed' = kept \cup up
  BY <1>1, <1>2, <1>3, <1>5 DEF Holding, Queueing
<1>9. Waiting' = line
  BY <1>1, <1>2, <1>3, <1>5 DEF Holding, Queueing
<1>10. Present' = Here(st)
  BY <1>1, <1>2, <1>3, <1>5 DEF Holding, Queueing, Here
<1> QED
  BY <1>1, <1>2, <1>6, <1>7, <1>8, <1>9, <1>10

(* The order of those who wait, from the positions the request left.       *)
LEMMA LineOrder ==
  ASSUME NEW s, NEW ro, NEW st, NEW pos, NEW ord, NEW rows,
         Written(s, ro, st, pos, ord, rows)
  PROVE  /\ Reset(s, ro, st, pos, ord) \in [Person -> Nat]
         /\ \A p \in Queueing(st) : Reset(s, ro, st, pos, ord)[p] = pos[p]
         /\ \A S \in SUBSET (Queueing(st) \cup Out(s, ro, st, ord)) :
              Lines(AheadOf(Reset(s, ro, st, pos, ord), rows), S)
<1> DEFINE pos1 == Reset(s, ro, st, pos, ord)
           down == Out(s, ro, st, ord)
<1>1. /\ pos1 \in [Person -> Nat]
      /\ \A p \in Person : pos1[p] = IF p \in down THEN 0 ELSE pos[p]
  BY DEF Reset, Written
<1>2. down \in SUBSET Holding(st)
  BY DEF Out, Demoted
<1>3. \A p \in Queueing(st) : p \in Person /\ p \notin down
  BY <1>2 DEF Holding, Queueing
<1>4. \A p, q \in Person : pos1[p] = pos1[q] /\ pos1[p] # 0 => p = q
  BY <1>1 DEF Written
<1>5. Queueing(st) \cup down \in SUBSET Here(st) /\ Here(st) \in SUBSET Person
  BY <1>2 DEF Holding, Queueing, Here
<1>6. Lines(rows, Here(st))
  BY DEF Written, Orders, Lines
<1> HIDE DEF pos1, down
<1>7. ASSUME NEW S \in SUBSET (Queueing(st) \cup down)
      PROVE  Lines(AheadOf(pos1, rows), S)
  <2>1. S \in SUBSET Here(st) /\ S \in SUBSET Person
    BY <1>5
  <2>2. Lines(rows, S)
    BY <1>6, <2>1, LinesOfPart
  <2>3. \A p, q \in S : pos1[p] = pos1[q] /\ pos1[p] # 0 => p = q
    BY <1>4, <2>1
  <2> QED
    BY <1>1, <2>1, <2>2, <2>3, AheadLines
<1> QED
  BY <1>1, <1>3, <1>7 DEF pos1, down

(* The triggers do to each pool what Slots asks for.                       *)
LEMMA RebalancedPools ==
  ASSUME NEW s, NEW ro, NEW st, NEW pos, NEW ord, NEW rows,
         Written(s, ro, st, pos, ord, rows), Rebalance(s, ro, st, pos, ord, rows)
  PROVE  /\ List!PoolsRebalanced(s, ro, Holding(st), Queueing(st), Confirmed')
         /\ Waiting' = (Holding(st) \cup Queueing(st)) \ Confirmed'
         /\ \A r \in List!Pools(s) :
              LET C == Holding(st) \cap List!InPool(s, ro, r)
              IN Cardinality(C) > List!Limit(s, r) =>
                   Confirmed' \cap List!InPool(s, ro, r) = C \ Over(Earlier(ord), C, List!Limit(s, r))
<1> DEFINE conf == Holding(st)
           wait == Queueing(st)
           down == Out(s, ro, st, ord)
           kept == Kept(s, ro, st, ord)
           pos1 == Reset(s, ro, st, pos, ord)
           up   == Come(s, ro, st, pos, ord, rows)
<1>1. /\ down \in SUBSET conf /\ kept = conf \ down
      /\ up \in SUBSET (wait \cup down) /\ up \cap kept = {}
      /\ Confirmed' = kept \cup up
      /\ Waiting' = (wait \cup down) \ up
  BY Rebalanced
<1>2. /\ conf \in SUBSET Person /\ wait \in SUBSET Person /\ conf \cap wait = {}
  BY DEF Holding, Queueing
<1>3. ro \in [Person -> List!Role] /\ s \in List!SettingsType /\ Lines(ord, conf)
  BY DEF Written
<1>4. down = Demoted(s, ro, conf, ord) /\ up = Promoted(s, ro, kept, wait \cup down, pos1, rows)
  BY DEF Out, Come
<1>5. \A S \in SUBSET (wait \cup down) : Lines(AheadOf(pos1, rows), S)
  BY LineOrder
<1> HIDE DEF conf, wait, down, kept, pos1, up
<1>6. ASSUME NEW r \in List!Pools(s)
      PROVE  LET pool == List!InPool(s, ro, r)
                 C    == conf \cap pool
             IN /\ List!PoolRebalanced(C, wait \cap pool, Confirmed' \cap pool, List!Limit(s, r))
                /\ Cardinality(C) > List!Limit(s, r) =>
                     Confirmed' \cap pool = C \ Over(Earlier(ord), C, List!Limit(s, r))
  <2> DEFINE pool == List!InPool(s, ro, r)
             limit == List!Limit(s, r)
             C == conf \cap pool
             W == wait \cap pool
             D == Over(Earlier(ord), C, limit)
             K == C \ D
             V == (wait \cup down) \cap pool
             U == Served(AheadOf(pos1, rows), W \cup D, Cardinality(K), limit)
  <2>1. down \cap pool = D
    <3>1. conf \in SUBSET Person /\ C = conf \cap List!InPool(s, ro, r)
      BY <1>2
    <3>2. Demoted(s, ro, conf, ord) \cap List!InPool(s, ro, r) = Over(Earlier(ord), C, List!Limit(s, r))
      <4> HIDE DEF C
      <4> QED
        BY <1>3, <3>1, DemotedOfPool
    <3> QED
      BY <1>4, <3>2
  <2>2. V = W \cup D /\ kept \cap pool = K
    BY <1>1, <2>1
  <2>3. up \cap pool = Served(AheadOf(pos1, rows), V, Cardinality(kept \cap pool), limit)
    <3>1. wait \cup down \in SUBSET Person
      BY <1>1, <1>2
    <3> QED
      BY <1>3, <1>4, <3>1, PromotedOfPool
  <2>4. up \cap pool = U
    BY <2>2, <2>3
  <2>5. Confirmed' \cap pool = K \cup U
    BY <1>1, <2>2, <2>4
  <2>6. /\ C \in SUBSET Person /\ W \in SUBSET Person /\ C \cap W = {} /\ C \in SUBSET conf
        /\ V \in SUBSET (wait \cup down)
    BY <1>2
  <2>7. limit \in Nat /\ Lines(Earlier(ord), C) /\ Lines(AheadOf(pos1, rows), W \cup D)
    <3>1. Lines(ord, C)
      BY <1>3, <2>6, LinesOfPart
    <3>2. Lines(Earlier(ord), C)
      BY <2>6, <3>1, EarlierLines
    <3>3. Lines(AheadOf(pos1, rows), V)
      BY <1>5, <2>6
    <3> QED
      BY <1>3, <2>2, <3>2, <3>3, LimitType
  <2>8. List!PoolRebalanced(C, W, K \cup U, limit) /\ (Cardinality(C) > limit => U = {})
    <3> HIDE DEF pool, limit, C, W
    <3> QED
      BY <2>6, <2>7, PoolServed
  <2> QED
    BY <2>5, <2>8
<1>7. Confirmed' \in SUBSET (conf \cup wait)
  BY <1>1
<1>8. List!PoolsRebalanced(s, ro, conf, wait, Confirmed')
  BY <1>6, <1>7 DEF List!PoolsRebalanced
<1>9. Waiting' = (conf \cup wait) \ Confirmed'
  BY <1>1, <1>2
<1> QED
  BY <1>6, <1>8, <1>9 DEF conf, wait

(* The line is numbered anew, guests behind members.                       *)
LEMMA RebalancedLine ==
  ASSUME NEW s, NEW ro, NEW st, NEW pos, NEW ord, NEW rows,
         Written(s, ro, st, pos, ord, rows), Rebalance(s, ro, st, pos, ord, rows)
  PROVE  /\ position' \in [Person -> 0 .. Cardinality(Person)]
         /\ \A p \in Person \ Waiting' : position'[p] = 0
         /\ {position'[p] : p \in Waiting'} = 1 .. Cardinality(Waiting')
         /\ \A p, q \in Waiting' : position'[p] = position'[q] => p = q
         /\ \A p \in Waiting' \cap Profile, g \in Waiting' \cap Guest : position'[p] < position'[g]
<1> DEFINE wait == Queueing(st)
           down == Out(s, ro, st, ord)
           pos1 == Reset(s, ro, st, pos, ord)
           up   == Come(s, ro, st, pos, ord, rows)
           line == (wait \cup down) \ up
           A    == AheadOf(pos1, rows)
           n    == Cardinality(line)
<1>1. Waiting' = line /\ down \in SUBSET Holding(st)
  BY Rebalanced
<1>2. line \in SUBSET (wait \cup down) /\ line \in SUBSET Person
  BY <1>1 DEF Holding, Queueing
<1>3. Lines(A, line)
  BY <1>2, LineOrder
<1>4. IsFiniteSet(line) /\ n \in Nat /\ n <= Cardinality(Person) /\ Cardinality(Person) \in Nat
  BY <1>2, Countable
<1>5. position' = [p \in Person |-> IF p \notin line THEN 0 ELSE 1 + Rank(A, line, p)]
  <2>1. position' = [p \in Person |-> IF p \notin line THEN 0
                       ELSE 1 + Cardinality({q \in line : AheadInLine(pos1, rows, q, p)})]
    BY DEF Rebalance, Out, Kept, Come, Reset, Holding, Queueing
  <2>2. \A p \in line : {q \in line : AheadInLine(pos1, rows, q, p)} = Before(A, line, p)
    BY <1>2 DEF AheadOf, Before
  <2> HIDE DEF A, line
  <2> QED
    BY <2>1, <2>2 DEF Rank
<1>6. \A p \in Profile \cap line, g \in Guest \cap line : <<p, g>> \in A
  BY <1>2 DEF AheadOf, AheadInLine
<1> HIDE DEF A, line
<1>7. \A p \in line : Rank(A, line, p) \in 0 .. n - 1
  BY <1>3, <1>4, RankGrows
<1>8. \A p, q \in line : <<p, q>> \in A <=> Rank(A, line, p) < Rank(A, line, q)
  BY <1>3, <1>4, RankGrows
<1>9. \A k \in 0 .. n - 1 : \E p \in line : Rank(A, line, p) = k
  BY <1>3, <1>4, RanksAreAll
<1>10. \A p \in line : position'[p] = 1 + Rank(A, line, p)
  BY <1>2, <1>5
<1>11. position' \in [Person -> 0 .. Cardinality(Person)]
  <2>1. \A p \in line : 1 + Rank(A, line, p) \in 0 .. Cardinality(Person)
    BY <1>4, <1>7
  <2> QED
    BY <1>4, <1>5, <2>1
<1>12. {position'[p] : p \in line} = 1 .. n
  <2>1. \A p \in line : position'[p] \in 1 .. n
    BY <1>4, <1>7, <1>10
  <2>2. ASSUME NEW k \in 1 .. n PROVE \E p \in line : position'[p] = k
    <3>1. k - 1 \in 0 .. n - 1
      BY <1>4
    <3>2. PICK p \in line : Rank(A, line, p) = k - 1
      BY <1>9, <3>1
    <3> QED
      BY <1>10, <3>2
  <2> QED
    BY <2>1, <2>2
<1>13. \A p, q \in line : position'[p] = position'[q] => p = q
  <2> SUFFICES ASSUME NEW p \in line, NEW q \in line, position'[p] = position'[q], p # q PROVE FALSE
    OBVIOUS
  <2>1. Rank(A, line, p) = Rank(A, line, q) /\ Rank(A, line, p) \in Nat
    BY <1>7, <1>10
  <2>2. Rank(A, line, p) < Rank(A, line, q) \/ Rank(A, line, q) < Rank(A, line, p)
    BY <1>3, <1>8 DEF Lines
  <2> QED
    BY <2>1, <2>2
<1>14. ASSUME NEW p \in line \cap Profile, NEW g \in line \cap Guest
       PROVE  position'[p] < position'[g]
  <2>1. p \in line /\ g \in line /\ <<p, g>> \in A
    BY <1>6
  <2>2. Rank(A, line, p) < Rank(A, line, g)
    BY <1>8, <2>1
  <2>3. Rank(A, line, p) \in Int /\ Rank(A, line, g) \in Int
    BY <1>7, <2>1
  <2>4. position'[p] = 1 + Rank(A, line, p) /\ position'[g] = 1 + Rank(A, line, g)
    BY <1>10, <2>1
  <2> QED
    BY <2>2, <2>3, <2>4
<1> QED
  BY <1>1, <1>5, <1>11, <1>12, <1>13, <1>14

(* Confirmed rows stay in the order of their times; who comes in is last.  *)
LEMMA RebalancedOrders ==
  ASSUME NEW s, NEW ro, NEW st, NEW pos, NEW ord, NEW rows,
         Written(s, ro, st, pos, ord, rows), Rebalance(s, ro, st, pos, ord, rows)
  PROVE  Orders(order', Confirmed') /\ Orders(created', Present')
<1> DEFINE down == Out(s, ro, st, ord)
           kept == Kept(s, ro, st, ord)
           up   == Come(s, ro, st, pos, ord, rows)
<1>1. kept \in SUBSET Holding(st) /\ up \cap kept = {} /\ Confirmed' = kept \cup up /\ Present' = Here(st)
  BY Rebalanced
<1>2. created' = rows /\ Orders(rows, Here(st)) /\ Lines(ord, Holding(st))
  BY DEF Rebalance, Written
<1>3. PICK time \in Injection(up, 1 .. Cardinality(up)) :
        order' = Followed(ord, kept, {e \in up \X up : time[e[1]] < time[e[2]]}, up)
  BY DEF Rebalance, Out, Kept, Come, Reset, Holding, Queueing
<1> DEFINE T == {e \in up \X up : time[e[1]] < time[e[2]]}
<1>4. \A p \in up : time[p] \in Int
  BY <1>3 DEF Injection
<1>5. \A p, q \in up : time[p] = time[q] => p = q
  BY <1>3 DEF Injection, IsInjective
<1>6. \A p, q \in up : <<p, q>> \in T <=> time[p] < time[q]
  OBVIOUS
<1>7. Lines(T, up) /\ T \in SUBSET (up \X up)
  <2>1. T \in SUBSET (up \X up)
    OBVIOUS
  <2> HIDE DEF T
  <2>2. \A p \in up : ~(time[p] < time[p])
    BY <1>4
  <2>3. \A p, q \in up : p # q => time[p] < time[q] \/ time[q] < time[p]
    BY <1>4, <1>5
  <2>4. \A p, q, t \in up : time[p] < time[q] /\ time[q] < time[t] => time[p] < time[t]
    BY <1>4
  <2> QED
    BY <1>6, <2>1, <2>2, <2>3, <2>4 DEF Lines
<1>8. Lines(ord, kept)
  BY <1>1, <1>2, LinesOfPart
<1>9. order' = (ord \cap (kept \X kept)) \cup (kept \X up) \cup T
  BY <1>3 DEF Followed, Among
<1> HIDE DEF T, kept, up
<1>10. Orders(order', kept \cup up)
  BY <1>1, <1>7, <1>8, <1>9 DEF Orders, Lines
<1> QED
  BY <1>1, <1>2, <1>10

(***************************************************************************)
(* Of two who wait for the same pool, the one behind does not get a place  *)
(* before the one ahead.                                                   *)
(***************************************************************************)
LEMMA ServedInTurn ==
  ASSUME NEW s, NEW ro, NEW st, NEW pos, NEW ord, NEW rows,
         Written(s, ro, st, pos, ord, rows), Rebalance(s, ro, st, pos, ord, rows),
         NEW p \in Queueing(st), NEW q \in Queueing(st), AheadInLine(pos, rows, p, q),
         NEW r \in List!Pools(s), p \in List!InPool(s, ro, r), q \in List!InPool(s, ro, r),
         q \in Confirmed'
  PROVE  p \in Confirmed'
<1> DEFINE wait == Queueing(st)
           down == Out(s, ro, st, ord)
           kept == Kept(s, ro, st, ord)
           pos1 == Reset(s, ro, st, pos, ord)
           up   == Come(s, ro, st, pos, ord, rows)
           pool == List!InPool(s, ro, r)
           A    == AheadOf(pos1, rows)
           V    == (wait \cup down) \cap pool
           n    == Cardinality(kept \cap pool)
           limit == List!Limit(s, r)
<1>1. /\ down \in SUBSET Holding(st) /\ kept \in SUBSET Holding(st)
      /\ up \in SUBSET (wait \cup down) /\ Confirmed' = kept \cup up
  BY Rebalanced
<1>2. wait \cup down \in SUBSET Person /\ Holding(st) \cap wait = {} /\ kept \in SUBSET Person
  BY <1>1 DEF Holding, Queueing
<1>3. up \cap pool = Served(A, V, n, limit)
  <2>1. ro \in [Person -> List!Role]
    BY DEF Written
  <2>2. up = Promoted(s, ro, kept, wait \cup down, pos1, rows)
    BY DEF Come
  <2>3. V = (wait \cup down) \cap List!InPool(s, ro, r) /\ wait \cup down \in SUBSET Person
    BY <1>2
  <2>4. Promoted(s, ro, kept, wait \cup down, pos1, rows) \cap List!InPool(s, ro, r)
          = Served(AheadOf(pos1, rows), V, Cardinality(kept \cap List!InPool(s, ro, r)), List!Limit(s, r))
    <3> HIDE DEF V, up, kept, wait, down, pos1
    <3> QED
      BY <2>1, <2>3, PromotedOfPool
  <2> QED
    BY <2>2, <2>4
<1>4. p \in V /\ q \in V /\ q \in up
  BY <1>1, <1>2
<1>5. V \in SUBSET Person /\ IsFiniteSet(V) /\ n \in Nat /\ limit \in Nat
  BY <1>2, Countable, LimitType DEF Written
<1>6. Lines(A, V)
  BY LineOrder
<1>7. <<p, q>> \in A
  <2>1. pos1[p] = pos[p] /\ pos1[q] = pos[q]
    BY LineOrder
  <2> HIDE DEF pos1
  <2> QED
    BY <1>2, <2>1 DEF AheadOf, AheadInLine
<1> HIDE DEF V, A, n, limit, up
<1>8. /\ Rank(A, V, p) < Rank(A, V, q)
      /\ Rank(A, V, p) \in Int /\ Rank(A, V, q) \in Int
  BY <1>4, <1>5, <1>6, <1>7, RankGrows
<1>9. n + Rank(A, V, q) < limit
  BY <1>3, <1>4 DEF Served
<1>10. n + Rank(A, V, p) < limit
  BY <1>5, <1>8, <1>9
<1>11. p \in up
  BY <1>3, <1>4, <1>10 DEF Served
<1> QED
  BY <1>1, <1>11

-----------------------------------------------------------------------------
(* Limits that are kept *)

(* PlacesUsedExactly of a list. *)
Exact(s, ro, conf, wait) ==
  \A r \in List!Pools(s) :
    LET pool == List!InPool(s, ro, r)
    IN /\ Cardinality(conf \cap pool) <= List!Limit(s, r)
       /\ wait \cap pool # {} => Cardinality(conf \cap pool) = List!Limit(s, r)

(* PoolRebalanced, counted as this module counts.                          *)
Filled(C, W, C2, limit) ==
  IF Cardinality(C) > limit
  THEN C2 \subseteq C /\ Cardinality(C2) = limit
  ELSE /\ C \subseteq C2
       /\ Cardinality(C2) = IF limit < Cardinality(C) + Cardinality(W) THEN limit
                            ELSE Cardinality(C) + Cardinality(W)

(* A pool after the rebalancing.                                           *)
LEMMA PoolFilled ==
  ASSUME NEW s \in List!SettingsType, NEW ro, NEW conf \in SUBSET Person, NEW wait \in SUBSET Person,
         NEW conf2, List!PoolsRebalanced(s, ro, conf, wait, conf2), NEW r \in List!Pools(s)
  PROVE  /\ conf2 \in SUBSET (conf \cup wait)
         /\ List!Limit(s, r) \in Nat
         /\ Cardinality(conf \cap List!InPool(s, ro, r)) \in Nat
         /\ Cardinality(wait \cap List!InPool(s, ro, r)) \in Nat
         /\ Filled(conf \cap List!InPool(s, ro, r), wait \cap List!InPool(s, ro, r),
                   conf2 \cap List!InPool(s, ro, r), List!Limit(s, r))
<1> DEFINE pool == List!InPool(s, ro, r)
           C == conf \cap pool
           W == wait \cap pool
           C2 == conf2 \cap pool
           limit == List!Limit(s, r)
<1>1. conf2 \in SUBSET (conf \cup wait) /\ List!PoolRebalanced(C, W, C2, limit)
  BY DEF List!PoolsRebalanced
<1>3. C \in SUBSET Person /\ W \in SUBSET Person
  OBVIOUS
<1>4. Cardinality(C) \in Nat /\ Cardinality(W) \in Nat
  BY <1>3, Countable
<1>5. limit \in Nat
  BY LimitType
<1>2. Filled(C, W, C2, limit)
  <2> HIDE DEF C, W, C2, limit
  <2> QED
    BY <1>1, SameCount DEF List!PoolRebalanced, List!Smaller, Filled
<1> QED
  BY <1>1, <1>2, <1>4, <1>5

(* A full pool stays as it is.                                             *)
LEMMA FullPool ==
  ASSUME NEW s \in List!SettingsType, NEW ro, NEW conf \in SUBSET Person, NEW wait \in SUBSET Person,
         NEW conf2, List!PoolsRebalanced(s, ro, conf, wait, conf2), NEW r \in List!Pools(s),
         Cardinality(conf \cap List!InPool(s, ro, r)) = List!Limit(s, r)
  PROVE  conf2 \cap List!InPool(s, ro, r) = conf \cap List!InPool(s, ro, r)
<1> DEFINE pool == List!InPool(s, ro, r)
           C == conf \cap pool
           C2 == conf2 \cap pool
           W == wait \cap pool
           limit == List!Limit(s, r)
<1>1. C \in SUBSET Person /\ W \in SUBSET Person
  OBVIOUS
<1>2. Cardinality(C) \in Nat /\ Cardinality(W) \in Nat
  BY <1>1, Countable
<1>3. /\ conf2 \in SUBSET (conf \cup wait)
      /\ limit \in Nat /\ Cardinality(C) \in Nat /\ Cardinality(W) \in Nat
      /\ Filled(C, W, C2, limit)
  BY PoolFilled
<1>4. C2 \in SUBSET Person /\ Cardinality(C) = limit
  BY <1>3
<1> HIDE DEF C, C2, W, limit, pool
<1>5. C \subseteq C2 /\ Cardinality(C2) = Cardinality(C)
  BY <1>2, <1>3, <1>4 DEF Filled
<1>6. C2 = C
  BY <1>4, <1>5, Countable, FS_Subset
<1> QED
  BY <1>6 DEF C, C2, pool

(* The rebalancing leaves places used exactly,                             *)
LEMMA PoolsExact ==
  ASSUME NEW s \in List!SettingsType, NEW ro, NEW conf \in SUBSET Person, NEW wait \in SUBSET Person,
         conf \cap wait = {},
         NEW conf2, List!PoolsRebalanced(s, ro, conf, wait, conf2)
  PROVE  Exact(s, ro, conf2, (conf \cup wait) \ conf2)
<1> SUFFICES ASSUME NEW r \in List!Pools(s)
             PROVE  LET pool == List!InPool(s, ro, r)
                    IN /\ Cardinality(conf2 \cap pool) <= List!Limit(s, r)
                       /\ ((conf \cup wait) \ conf2) \cap pool # {} => Cardinality(conf2 \cap pool) = List!Limit(s, r)
  BY DEF Exact
<1> DEFINE pool == List!InPool(s, ro, r)
           C == conf \cap pool
           C2 == conf2 \cap pool
           W == wait \cap pool
           limit == List!Limit(s, r)
<1>1. C \in SUBSET Person /\ W \in SUBSET Person /\ C \cap W = {} /\ C \cup W \in SUBSET Person
  OBVIOUS
<1>2. /\ Cardinality(C) \in Nat /\ Cardinality(W) \in Nat /\ IsFiniteSet(C) /\ IsFiniteSet(W)
      /\ IsFiniteSet(C \cup W)
  BY <1>1, Countable
<1>3. /\ conf2 \in SUBSET (conf \cup wait)
      /\ limit \in Nat /\ Cardinality(C) \in Nat /\ Cardinality(W) \in Nat
      /\ Filled(C, W, C2, limit)
  BY PoolFilled
<1>4. C2 \in SUBSET (C \cup W) /\ ((conf \cup wait) \ conf2) \cap pool = (C \cup W) \ C2
  BY <1>3 DEF Filled
<1> HIDE DEF C, C2, W, limit
<1>5. Cardinality(C \cup W) = Cardinality(C) + Cardinality(W)
  <2>1. Cardinality(C \cap W) = 0
    BY <1>1, FS_EmptySet
  <2>2. Cardinality(C \cup W) = Cardinality(C) + Cardinality(W) - Cardinality(C \cap W)
    BY <1>2, FS_Union
  <2> QED
    BY <1>2, <2>1, <2>2
<1>6. Cardinality(C2) <= limit /\ (Cardinality(C2) # limit => Cardinality(C2) = Cardinality(C \cup W))
  BY <1>2, <1>3, <1>5 DEF Filled
<1>7. Cardinality(C2) = Cardinality(C \cup W) => C2 = C \cup W
  BY <1>2, <1>4, FS_Subset
<1>8. Cardinality(C2) # limit => (C \cup W) \ C2 = {}
  BY <1>6, <1>7
<1> QED
  BY <1>4, <1>6, <1>8 DEF C2, limit

(* and does nothing to a pool where they are.                              *)
LEMMA NothingInPool ==
  ASSUME NEW s \in List!SettingsType, NEW ro, NEW conf \in SUBSET Person, NEW wait \in SUBSET Person,
         conf \cap wait = {},
         NEW conf2, List!PoolsRebalanced(s, ro, conf, wait, conf2), Exact(s, ro, conf, wait),
         NEW r \in List!Pools(s)
  PROVE  conf2 \cap List!InPool(s, ro, r) = conf \cap List!InPool(s, ro, r)
<1> DEFINE pool == List!InPool(s, ro, r)
           C == conf \cap pool
           C2 == conf2 \cap pool
           W == wait \cap pool
           limit == List!Limit(s, r)
<1>1. /\ Cardinality(C) <= limit /\ (W # {} => Cardinality(C) = limit)
  BY DEF Exact
<1>2. CASE W # {}
  BY <1>1, <1>2, FullPool
<1>3. CASE W = {}
  <2>1. Cardinality(W) = 0
    BY <1>3, FS_EmptySet
  <2>2. Cardinality(C) \in Nat
    BY Countable
  <2>3. /\ conf2 \in SUBSET (conf \cup wait)
        /\ limit \in Nat /\ Cardinality(C) \in Nat /\ Cardinality(W) \in Nat
        /\ Filled(C, W, C2, limit)
    BY PoolFilled
  <2>4. C2 \in SUBSET C
    BY <1>3, <2>3
  <2> HIDE DEF C, C2, W, limit, pool
  <2>5. C \subseteq C2
    BY <1>1, <2>2, <2>3 DEF Filled
  <2>6. C = C2
    BY <2>4, <2>5
  <2> QED
    BY <2>6 DEF C, C2, pool
<1> QED
  BY <1>2, <1>3

(* So a list whose places are used exactly is left alone.                  *)
LEMMA NothingToDo ==
  ASSUME NEW s \in List!SettingsType, NEW ro, ro \in [Person -> List!Role],
         NEW conf \in SUBSET Person, NEW wait \in SUBSET Person, conf \cap wait = {},
         NEW conf2, List!PoolsRebalanced(s, ro, conf, wait, conf2), Exact(s, ro, conf, wait)
  PROVE  conf2 = conf
<1>1. \A r \in List!Pools(s) : conf2 \cap List!InPool(s, ro, r) = conf \cap List!InPool(s, ro, r)
  BY NothingInPool
<1>2. conf2 \in SUBSET (conf \cup wait)
  BY DEF List!PoolsRebalanced
<1>3. \A p \in conf \cup wait : \E r \in List!Pools(s) : p \in List!InPool(s, ro, r)
  BY OnePool
<1> QED
  BY <1>1, <1>2, <1>3

-----------------------------------------------------------------------------
(* The invariant: the line has no two people in one position, and the      *)
(* places are used exactly.                                                *)
WaitInv ==
  /\ LineIsNumbered
  /\ \A p, q \in Waiting : position[p] = position[q] => p = q
  /\ Exact(settings, role, Confirmed, Waiting)

(* The lists of a state are those of its rows.                             *)
LEMMA ListsOfRows ==
  /\ Confirmed = Holding(presence) /\ Waiting = Queueing(presence) /\ Present = Here(presence)
  /\ Confirmed \in SUBSET Person /\ Waiting \in SUBSET Person /\ Confirmed \cap Waiting = {}
BY DEF Confirmed, Waiting, Present, Holding, Queueing, Here, Person

(* After any rebalancing the rows are as they should be.                   *)
LEMMA RebalancedRows ==
  ASSUME NEW s, NEW ro, NEW st, NEW pos, NEW ord, NEW rows,
         Written(s, ro, st, pos, ord, rows), Rebalance(s, ro, st, pos, ord, rows),
         settings' = s, role' = ro, s \in Settings, status' \in List!Status
  PROVE  WaitInv'
<1>1. /\ presence' \in [Person -> Standing]
      /\ role' \in [Person -> List!Role] /\ s \in List!SettingsType
  BY Rebalanced DEF Written
<1>2. Orders(order', Confirmed') /\ Orders(created', Present')
  BY RebalancedOrders
<1>3. /\ position' \in [Person -> 0 .. Cardinality(Person)]
      /\ \A p \in Person \ Waiting' : position'[p] = 0
      /\ {position'[p] : p \in Waiting'} = 1 .. Cardinality(Waiting')
      /\ \A p, q \in Waiting' : position'[p] = position'[q] => p = q
      /\ \A p \in Waiting' \cap Profile, g \in Waiting' \cap Guest : position'[p] < position'[g]
  BY RebalancedLine
<1>4. Exact(s, ro, Confirmed', Waiting')
  <2>1. Holding(st) \in SUBSET Person /\ Queueing(st) \in SUBSET Person /\ Holding(st) \cap Queueing(st) = {}
    BY DEF Holding, Queueing
  <2>2. /\ List!PoolsRebalanced(s, ro, Holding(st), Queueing(st), Confirmed')
        /\ Waiting' = (Holding(st) \cup Queueing(st)) \ Confirmed'
    BY RebalancedPools
  <2>3. Exact(s, ro, Confirmed', (Holding(st) \cup Queueing(st)) \ Confirmed')
    BY <1>1, <2>1, <2>2, PoolsExact
  <2> QED
    BY <2>2, <2>3
<1>5. TypeOK'
  BY <1>1, <1>2, <1>3 DEF TypeOK, Standing
<1>6. LineIsNumbered'
  BY <1>3, <1>5 DEF LineIsNumbered
<1> QED
  BY <1>3, <1>4, <1>6 DEF WaitInv

(* What a request may write: any row of the list, without its position.    *)
LEMMA WrittenRow ==
  ASSUME WaitInv, NEW s \in List!SettingsType, NEW ro \in [Person -> List!Role],
         NEW x \in Person, NEW v \in Standing, NEW st, st = [presence EXCEPT ![x] = v],
         NEW pos, pos = [position EXCEPT ![x] = 0],
         NEW ord, Lines(ord, Holding(st)), NEW rows, Orders(rows, Here(st))
  PROVE  Written(s, ro, st, pos, ord, rows)
<1>1. /\ presence \in [Person -> Standing] /\ position \in [Person -> 0 .. Cardinality(Person)]
      /\ \A p \in Person \ Waiting : position[p] = 0
      /\ \A p, q \in Waiting : position[p] = position[q] => p = q
  BY DEF WaitInv, LineIsNumbered, TypeOK, Standing
<1>2. Cardinality(Person) \in Nat
  BY Countable
<1>3. /\ st \in [Person -> Standing] /\ pos \in [Person -> Nat]
      /\ \A p \in Person : st[p] = IF p = x THEN v ELSE presence[p]
      /\ \A p \in Person : pos[p] = IF p = x THEN 0 ELSE position[p]
  BY <1>1, <1>2
<1>4. Waiting = Queueing(presence)
  BY ListsOfRows
<1>5. \A p \in Person \ Queueing(st) : pos[p] = 0
  BY <1>1, <1>3, <1>4 DEF Queueing
<1>6. \A p, q \in Person : pos[p] = pos[q] /\ pos[p] # 0 => p = q
  BY <1>1, <1>3
<1> QED
  BY <1>3, <1>5, <1>6 DEF Written

(* The rows of an order, with one more at the end.                         *)
LEMMA OneMore ==
  ASSUME NEW R, NEW S, NEW p, Lines(R, S \ {p})
  PROVE  Orders(AtEnd(R, S, p), S \cup {p})
<1> DEFINE L == AtEnd(R, S, p)
<1>1. L = (R \cap ((S \ {p}) \X (S \ {p}))) \cup ((S \ {p}) \X {p})
  BY DEF AtEnd, Followed, Among
<1> HIDE DEF L
<1>2. Orders(L, S \cup {p})
  BY <1>1 DEF Orders, Lines
<1> QED
  BY <1>2 DEF L

(* The same with one less. *)
LEMMA OneLess ==
  ASSUME NEW R, NEW S, Lines(R, S), NEW T \in SUBSET S
  PROVE  Orders(Among(R, T), T)
BY DEF Orders, Lines, Among

-----------------------------------------------------------------------------
(* The requests: what each of them writes is a list to be rebalanced. *)

Full(r) == Cardinality(Confirmed \cap List!InPool(settings, role, r)) >= List!Limit(settings, r)

Asked(p, r) == [presence EXCEPT ![p] = IF Full(r) THEN "waitlist" ELSE "confirmed"]

AskedOrder(p, r) == IF Full(r) THEN order ELSE AtEnd(order, Confirmed, p)

AskedRows(p) == IF presence[p] = "absent" THEN AtEnd(created, Present, p) ELSE created

Unplaced(p) == [position EXCEPT ![p] = 0]

(* What the invariant says of types.                                       *)
LEMMA RowTypes ==
  ASSUME WaitInv
  PROVE  /\ status \in List!Status /\ settings \in Settings /\ settings \in List!SettingsType
         /\ presence \in [Person -> Standing] /\ role \in [Person -> List!Role]
         /\ position \in [Person -> Nat]
         /\ Orders(order, Confirmed) /\ Orders(created, Present)
         /\ Lines(order, Confirmed) /\ Lines(created, Present)
<1>1. /\ status \in List!Status /\ settings \in Settings
      /\ presence \in [Person -> Standing] /\ role \in [Person -> List!Role]
      /\ position \in [Person -> 0 .. Cardinality(Person)]
      /\ Orders(order, Confirmed) /\ Orders(created, Present)
  BY DEF WaitInv, LineIsNumbered, TypeOK, Standing
<1>2. position \in [Person -> Nat]
  BY <1>1, Countable
<1> QED
  BY <1>1, <1>2, SettingsAssumption DEF Orders, Lines

(* A member asks for a place.                                              *)
LEMMA ConfirmWrites ==
  ASSUME WaitInv, NEW p \in Profile, NEW r \in List!Role, Confirm(p, r)
  PROVE  /\ Written(settings, role', Asked(p, r), Unplaced(p), AskedOrder(p, r), AskedRows(p))
         /\ Rebalance(settings, role', Asked(p, r), Unplaced(p), AskedOrder(p, r), AskedRows(p))
         /\ Holding(Asked(p, r)) = IF Full(r) THEN Confirmed \ {p} ELSE Confirmed \cup {p}
         /\ Queueing(Asked(p, r)) = IF Full(r) THEN Waiting \cup {p} ELSE Waiting \ {p}
         /\ role' = [role EXCEPT ![p] = r] /\ UNCHANGED <<status, settings>>
         /\ status = "registration_open" /\ ~(p \in Confirmed \cup Waiting /\ role[p] = r)
<1> DEFINE st == Asked(p, r)
<1>1. /\ Rebalance(settings, role', Asked(p, r), Unplaced(p), AskedOrder(p, r), AskedRows(p))
      /\ role' = [role EXCEPT ![p] = r] /\ UNCHANGED <<status, settings>>
      /\ status = "registration_open" /\ ~(p \in Confirmed \cup Waiting /\ role[p] = r)
  BY DEF Confirm, Full, Asked, AskedOrder, AskedRows, Unplaced
<1>2. /\ settings \in List!SettingsType /\ presence \in [Person -> Standing] /\ role \in [Person -> List!Role]
      /\ Lines(order, Confirmed) /\ Orders(created, Present) /\ Lines(created, Present)
  BY RowTypes
<1>3. /\ Confirmed = Holding(presence) /\ Waiting = Queueing(presence) /\ Present = Here(presence)
      /\ p \in Person
  BY ListsOfRows DEF Person
<1>4. /\ Holding(st) = IF Full(r) THEN Confirmed \ {p} ELSE Confirmed \cup {p}
      /\ Queueing(st) = IF Full(r) THEN Waiting \cup {p} ELSE Waiting \ {p}
      /\ Here(st) = Present \cup {p}
  BY <1>2, <1>3 DEF Asked, Holding, Queueing, Here
<1>5. role' \in [Person -> List!Role]
  BY <1>1, <1>2
<1>6. Lines(AskedOrder(p, r), Holding(st))
  <2>1. Lines(order, Confirmed \ {p})
    BY <1>2, LinesOfPart
  <2>2. Lines(AtEnd(order, Confirmed, p), Confirmed \cup {p})
    BY <2>1, OneMore DEF Orders, Lines
  <2> QED
    BY <1>4, <2>1, <2>2 DEF AskedOrder
<1>7. Orders(AskedRows(p), Here(st))
  <2>1. CASE presence[p] = "absent"
    <3>1. Lines(created, Present \ {p})
      BY <1>2, LinesOfPart
    <3> QED
      BY <1>4, <2>1, <3>1, OneMore DEF AskedRows
  <2>2. CASE presence[p] # "absent"
    <3>1. Present \cup {p} = Present
      BY <1>3, <2>2 DEF Here
    <3> QED
      BY <1>2, <1>4, <2>2, <3>1 DEF AskedRows
  <2> QED
    BY <2>1, <2>2
<1>8. Written(settings, role', st, Unplaced(p), AskedOrder(p, r), AskedRows(p))
  <2>1. \E v \in Standing : st = [presence EXCEPT ![p] = v]
    BY DEF Asked, Standing
  <2> HIDE DEF st
  <2> QED
    BY <1>2, <1>3, <1>5, <1>6, <1>7, <2>1, WrittenRow DEF Unplaced
<1> QED
  BY <1>1, <1>4, <1>8

(* A member gives up.                                                      *)
LEMMA CancelWrites ==
  ASSUME WaitInv, NEW p \in Profile, CancelConfirmation(p),
         NEW st, st = [presence EXCEPT ![p] = "cancelled"]
  PROVE  /\ Written(settings, role, st, Unplaced(p), order, created)
         /\ Rebalance(settings, role, st, Unplaced(p), order, created)
         /\ Holding(st) = Confirmed \ {p} /\ Queueing(st) = Waiting \ {p}
         /\ UNCHANGED <<status, settings, role>> /\ status # "finished"
<1>1. /\ Rebalance(settings, role, st, Unplaced(p), order, created)
      /\ UNCHANGED <<status, settings, role>> /\ status # "finished" /\ presence[p] # "absent"
  BY DEF CancelConfirmation, Unplaced
<1>2. /\ settings \in List!SettingsType /\ presence \in [Person -> Standing] /\ role \in [Person -> List!Role]
      /\ Lines(order, Confirmed) /\ Orders(created, Present)
  BY RowTypes
<1>3. /\ Confirmed = Holding(presence) /\ Waiting = Queueing(presence) /\ Present = Here(presence)
      /\ p \in Person
  BY ListsOfRows DEF Person
<1>4. Holding(st) = Confirmed \ {p} /\ Queueing(st) = Waiting \ {p} /\ Here(st) = Present
  BY <1>1, <1>2, <1>3 DEF Holding, Queueing, Here
<1>5. Lines(order, Holding(st))
  BY <1>2, <1>4, LinesOfPart
<1>6. Written(settings, role, st, Unplaced(p), order, created)
  <2>1. \E v \in Standing : st = [presence EXCEPT ![p] = v]
    BY DEF Standing
  <2> QED
    BY <1>2, <1>3, <1>4, <1>5, <2>1, WrittenRow DEF Unplaced
<1> QED
  BY <1>1, <1>4, <1>6

(* A guest is put on the list.                                             *)
LEMMA AddGuestWrites ==
  ASSUME WaitInv, NEW g \in Guest, NEW r \in List!Role, AddGuest(g, r),
         NEW st, st = [presence EXCEPT ![g] = "confirmed"]
  PROVE  /\ Written(settings, role', st, position, AtEnd(order, Confirmed, g), AtEnd(created, Present, g))
         /\ Rebalance(settings, role', st, position, AtEnd(order, Confirmed, g), AtEnd(created, Present, g))
         /\ Holding(st) = Confirmed \cup {g} /\ Queueing(st) = Waiting
         /\ g \notin Confirmed \cup Waiting /\ role' = [role EXCEPT ![g] = r]
         /\ UNCHANGED <<status, settings>> /\ status # "finished"
<1>1. /\ Rebalance(settings, role', st, position, AtEnd(order, Confirmed, g), AtEnd(created, Present, g))
      /\ role' = [role EXCEPT ![g] = r] /\ UNCHANGED <<status, settings>>
      /\ status # "finished" /\ presence[g] = "absent"
  BY DEF AddGuest
<1>2. /\ settings \in List!SettingsType /\ presence \in [Person -> Standing] /\ role \in [Person -> List!Role]
      /\ position \in [Person -> Nat] /\ Lines(order, Confirmed) /\ Lines(created, Present)
  BY RowTypes
<1>3. /\ Confirmed = Holding(presence) /\ Waiting = Queueing(presence) /\ Present = Here(presence)
      /\ g \in Person
  BY ListsOfRows DEF Person
<1>4. /\ Holding(st) = Confirmed \cup {g} /\ Queueing(st) = Waiting /\ Here(st) = Present \cup {g}
      /\ g \notin Confirmed \cup Waiting
  BY <1>1, <1>2, <1>3 DEF Holding, Queueing, Here
<1>5. role' \in [Person -> List!Role]
  BY <1>1, <1>2
<1>6. Lines(order, Confirmed \ {g}) /\ Lines(created, Present \ {g})
  BY <1>2, LinesOfPart
<1>7. /\ Lines(AtEnd(order, Confirmed, g), Holding(st))
      /\ Orders(AtEnd(created, Present, g), Here(st))
  <2>1. Orders(AtEnd(order, Confirmed, g), Confirmed \cup {g})
    BY <1>6, OneMore
  <2>2. Orders(AtEnd(created, Present, g), Present \cup {g})
    BY <1>6, OneMore
  <2> QED
    BY <1>4, <2>1, <2>2 DEF Orders, Lines
<1>8. position = [position EXCEPT ![g] = 0]
  <2>1. position[g] = 0
    BY <1>3, <1>4 DEF WaitInv, LineIsNumbered
  <2> QED
    BY <1>2, <2>1
<1>9. Written(settings, role', st, position, AtEnd(order, Confirmed, g), AtEnd(created, Present, g))
  <2>1. \E v \in Standing : st = [presence EXCEPT ![g] = v]
    BY DEF Standing
  <2> QED
    BY <1>2, <1>3, <1>5, <1>7, <1>8, <2>1, WrittenRow
<1> QED
  BY <1>1, <1>4, <1>9

(* A guest is taken off the list.                                          *)
LEMMA RemoveGuestWrites ==
  ASSUME WaitInv, NEW g \in Guest, RemoveGuest(g),
         NEW st, st = [presence EXCEPT ![g] = "absent"]
  PROVE  /\ Written(settings, role, st, Unplaced(g), order, Among(created, Present \ {g}))
         /\ Rebalance(settings, role, st, Unplaced(g), order, Among(created, Present \ {g}))
         /\ Holding(st) = Confirmed \ {g} /\ Queueing(st) = Waiting \ {g}
         /\ UNCHANGED <<status, settings, role>> /\ status # "finished"
<1>1. /\ Rebalance(settings, role, st, Unplaced(g), order, Among(created, Present \ {g}))
      /\ UNCHANGED <<status, settings, role>> /\ status # "finished"
  BY DEF RemoveGuest, Unplaced
<1>2. /\ settings \in List!SettingsType /\ presence \in [Person -> Standing] /\ role \in [Person -> List!Role]
      /\ Lines(order, Confirmed) /\ Lines(created, Present)
  BY RowTypes
<1>3. /\ Confirmed = Holding(presence) /\ Waiting = Queueing(presence) /\ Present = Here(presence)
      /\ g \in Person
  BY ListsOfRows DEF Person
<1>4. Holding(st) = Confirmed \ {g} /\ Queueing(st) = Waiting \ {g} /\ Here(st) = Present \ {g}
  BY <1>2, <1>3 DEF Holding, Queueing, Here
<1>5. Lines(order, Holding(st)) /\ Orders(Among(created, Present \ {g}), Here(st))
  BY <1>2, <1>4, LinesOfPart, OneLess
<1>6. Written(settings, role, st, Unplaced(g), order, Among(created, Present \ {g}))
  <2>1. \E v \in Standing : st = [presence EXCEPT ![g] = v]
    BY DEF Standing
  <2> QED
    BY <1>2, <1>3, <1>5, <2>1, WrittenRow DEF Unplaced
<1> QED
  BY <1>1, <1>4, <1>6

(* The organiser changes the limits.                                       *)
LEMMA ChangeWrites ==
  ASSUME WaitInv, NEW s \in Settings, ChangeSettings(s)
  PROVE  /\ Written(s, role, presence, position, order, created)
         /\ Rebalance(s, role, presence, position, order, created)
         /\ Holding(presence) = Confirmed /\ Queueing(presence) = Waiting
         /\ settings' = s /\ UNCHANGED <<status, role>> /\ status = "registration_open"
<1>1. /\ Rebalance(s, role, presence, position, order, created)
      /\ settings' = s /\ UNCHANGED <<status, role>> /\ status = "registration_open"
  BY DEF ChangeSettings
<1>2. /\ s \in List!SettingsType /\ presence \in [Person -> Standing] /\ role \in [Person -> List!Role]
      /\ position \in [Person -> Nat] /\ Lines(order, Confirmed) /\ Orders(created, Present)
  BY RowTypes, SettingsAssumption
<1>3. Confirmed = Holding(presence) /\ Waiting = Queueing(presence) /\ Present = Here(presence)
  BY ListsOfRows
<1>4. /\ \A p \in Person \ Waiting : position[p] = 0
      /\ \A p, q \in Waiting : position[p] = position[q] => p = q
  BY DEF WaitInv, LineIsNumbered
<1>5. \A p, q \in Person : position[p] = position[q] /\ position[p] # 0 => p = q
  BY <1>4
<1> QED
  BY <1>1, <1>2, <1>3, <1>4, <1>5 DEF Written

-----------------------------------------------------------------------------
(* Each step keeps the invariant. *)

(* At first the list is empty.                                             *)
LEMMA InitWait == Init => WaitInv
<1> SUFFICES ASSUME Init PROVE WaitInv
  OBVIOUS
<1>1. Confirmed = {} /\ Waiting = {} /\ Present = {}
  BY DEF Init, Confirmed, Waiting, Present, Person
<1>2. Cardinality(Waiting) = 0 /\ Cardinality(Person) \in Nat
  BY <1>1, FS_EmptySet, Countable
<1>3. /\ status \in List!Status /\ settings \in Settings
      /\ presence \in [Person -> Standing] /\ role \in [Person -> List!Role]
      /\ position \in [Person -> 0 .. Cardinality(Person)]
      /\ \A p \in Person : position[p] = 0
  BY <1>2 DEF Init, List!Status, List!Role, Standing
<1>4. Orders(order, {}) /\ Orders(created, {})
  BY DEF Init, Orders
<1>5. {position[p] : p \in Waiting} = 1 .. Cardinality(Waiting)
  BY <1>1, <1>2
<1>6. LineIsNumbered
  BY <1>1, <1>3, <1>4, <1>5 DEF LineIsNumbered, TypeOK, Standing
<1>7. Exact(settings, role, Confirmed, Waiting)
  <2> SUFFICES ASSUME NEW r \in List!Pools(settings)
               PROVE  LET pool == List!InPool(settings, role, r)
                      IN /\ Cardinality({} \cap pool) <= List!Limit(settings, r)
                         /\ {} \cap pool # {} => Cardinality({} \cap pool) = List!Limit(settings, r)
    BY <1>1 DEF Exact
  <2>1. {} \cap List!InPool(settings, role, r) = {}
    OBVIOUS
  <2>2. List!Limit(settings, r) \in Nat
    BY <1>3, SettingsAssumption, LimitType
  <2> QED
    BY <2>1, <2>2, FS_EmptySet
<1> QED
  BY <1>1, <1>6, <1>7 DEF WaitInv

(* Every step keeps it.                                                    *)
LEMMA WaitStep ==
  ASSUME WaitInv, [Next]_vars
  PROVE  WaitInv'
<1>0. status \in List!Status /\ settings \in Settings
  BY RowTypes
<1>1. ASSUME NEW p \in Profile, NEW r \in List!Role, Confirm(p, r) PROVE WaitInv'
  BY <1>0, <1>1, ConfirmWrites, RebalancedRows
<1>2. ASSUME NEW p \in Profile, CancelConfirmation(p) PROVE WaitInv'
  BY <1>0, <1>2, CancelWrites, RebalancedRows
<1>3. ASSUME NEW g \in Guest, NEW r \in List!Role, AddGuest(g, r) PROVE WaitInv'
  BY <1>0, <1>3, AddGuestWrites, RebalancedRows
<1>4. ASSUME NEW g \in Guest, RemoveGuest(g) PROVE WaitInv'
  BY <1>0, <1>4, RemoveGuestWrites, RebalancedRows
<1>5. ASSUME NEW s \in Settings, ChangeSettings(s) PROVE WaitInv'
  BY <1>0, <1>5, ChangeWrites, RebalancedRows
<1>6. ASSUME UNCHANGED <<settings, presence, role, position, order, created>>, status' \in List!Status
      PROVE  WaitInv'
  <2>1. Confirmed' = Confirmed /\ Waiting' = Waiting /\ Present' = Present
    BY <1>6 DEF Confirmed, Waiting, Present
  <2> QED
    BY <1>6, <2>1 DEF WaitInv, LineIsNumbered, TypeOK
<1>7. CASE Begin
  BY <1>6, <1>7 DEF Begin, List!Status
<1>8. CASE End
  BY <1>6, <1>8 DEF End, List!Status
<1>9. CASE UNCHANGED vars
  BY <1>0, <1>6, <1>9 DEF vars
<1> QED
  BY <1>1, <1>2, <1>3, <1>4, <1>5, <1>7, <1>8, <1>9 DEF Next

(* So the rows are always as they should be.                               *)
LEMMA WaitInvariant == Spec => []WaitInv
BY InitWait, WaitStep, PTL DEF Spec

-----------------------------------------------------------------------------
(* Each step is one of Slots. *)

(* The triggers are the rebalancing of Slots.                              *)
LEMMA SlotsRebalance ==
  ASSUME NEW s, NEW ro, NEW st, NEW pos, NEW ord, NEW rows,
         Written(s, ro, st, pos, ord, rows), Rebalance(s, ro, st, pos, ord, rows)
  PROVE  List!Rebalance(s, ro, Holding(st), Queueing(st))
<1>1. /\ List!PoolsRebalanced(s, ro, Holding(st), Queueing(st), Confirmed')
      /\ Waiting' = (Holding(st) \cup Queueing(st)) \ Confirmed'
  BY RebalancedPools
<1> QED
  BY <1>1 DEF List!Rebalance, List!PoolsRebalanced

(* Asking for a place.                                                     *)
LEMMA SlotsConfirm ==
  ASSUME WaitInv, NEW p \in Profile, NEW r \in List!Role, Confirm(p, r)
  PROVE  List!Confirm(p, r)
<1> DEFINE conf == IF Full(r) THEN Confirmed \ {p} ELSE Confirmed \cup {p}
           wait == IF Full(r) THEN Waiting \cup {p} ELSE Waiting \ {p}
<1>1. /\ List!Rebalance(settings, role', conf, wait)
      /\ role' = [role EXCEPT ![p] = r] /\ UNCHANGED <<status, settings>>
      /\ status = "registration_open" /\ ~(p \in Confirmed \cup Waiting /\ role[p] = r)
  <2>1. /\ Written(settings, role', Asked(p, r), Unplaced(p), AskedOrder(p, r), AskedRows(p))
        /\ Rebalance(settings, role', Asked(p, r), Unplaced(p), AskedOrder(p, r), AskedRows(p))
        /\ Holding(Asked(p, r)) = conf /\ Queueing(Asked(p, r)) = wait
        /\ role' = [role EXCEPT ![p] = r] /\ UNCHANGED <<status, settings>>
        /\ status = "registration_open" /\ ~(p \in Confirmed \cup Waiting /\ role[p] = r)
    BY ConfirmWrites
  <2> HIDE DEF conf, wait
  <2>2. List!Rebalance(settings, role', Holding(Asked(p, r)), Queueing(Asked(p, r)))
    BY <2>1, SlotsRebalance
  <2> QED
    BY <2>1, <2>2
<1>2. List!Cardinality(Confirmed \cap List!InPool(settings, role, r)) >= List!Limit(settings, r) <=> Full(r)
  BY SameCount DEF Full
<1>3. CASE Full(r)
  <2>1. List!Rebalance(settings, role', Confirmed \ {p}, Waiting \cup {p})
    BY <1>1, <1>3
  <2> QED
    BY <1>1, <1>2, <1>3, <2>1 DEF List!Confirm, List!ConfirmAs
<1>4. CASE ~Full(r)
  <2>1. List!Rebalance(settings, role', Confirmed \cup {p}, Waiting \ {p})
    BY <1>1, <1>4
  <2> QED
    BY <1>1, <1>2, <1>4, <2>1 DEF List!Confirm, List!ConfirmAs
<1> QED
  BY <1>3, <1>4

(* Giving up, or having given up before.                                   *)
LEMMA SlotsCancel ==
  ASSUME WaitInv, NEW p \in Person, status # "finished",
         List!Rebalance(settings, role, Confirmed \ {p}, Waiting \ {p}),
         UNCHANGED <<status, settings, role>>
  PROVE  List!CancelConfirmation(p) \/ UNCHANGED <<status, settings, Confirmed, Waiting, role>>
<1>1. CASE p \in Confirmed \cup Waiting
  BY <1>1 DEF List!CancelConfirmation
<1>2. CASE p \notin Confirmed \cup Waiting
  <2>1. Confirmed \ {p} = Confirmed /\ Waiting \ {p} = Waiting
    BY <1>2
  <2>2. /\ List!PoolsRebalanced(settings, role, Confirmed, Waiting, Confirmed')
        /\ Waiting' = (Confirmed \cup Waiting) \ Confirmed'
    BY <2>1 DEF List!Rebalance
  <2>3. /\ settings \in List!SettingsType /\ role \in [Person -> List!Role]
        /\ Confirmed \in SUBSET Person /\ Waiting \in SUBSET Person /\ Confirmed \cap Waiting = {}
        /\ Exact(settings, role, Confirmed, Waiting)
    BY RowTypes, ListsOfRows DEF WaitInv
  <2>4. Confirmed' = Confirmed
    BY <2>2, <2>3, NothingToDo
  <2>5. Waiting' = Waiting
    BY <2>2, <2>3, <2>4
  <2> QED
    BY <2>4, <2>5
<1> QED
  BY <1>1, <1>2

(* The pool a person of some role belongs to.                              *)
LEMMA PoolOfRole ==
  ASSUME NEW s, NEW ro, NEW p \in Person, NEW r \in List!Role, ro[p] = r,
         NEW t \in List!Pools(s), p \in List!InPool(s, ro, t)
  PROVE  List!InPool(s, ro, t) = List!InPool(s, ro, r) /\ List!Limit(s, t) = List!Limit(s, r)
BY DEF List!Pools, List!InPool, List!Limit, List!Role

(* The guest who comes last is behind everybody confirmed.                 *)
LEMMA GuestBehind ==
  ASSUME WaitInv, NEW g \in Guest, NEW r \in List!Role, AddGuest(g, r),
         Cardinality(Confirmed \cap List!InPool(settings, role', r)) >= List!Limit(settings, r),
         NEW t \in List!Pools(settings), g \in List!InPool(settings, role', t)
  PROVE  List!PoolRebalanced(Confirmed \cap List!InPool(settings, role', t),
                             (Waiting \cup {g}) \cap List!InPool(settings, role', t),
                             Confirmed' \cap List!InPool(settings, role', t), List!Limit(settings, t))
<1> DEFINE st == [presence EXCEPT ![g] = "confirmed"]
           ord == AtEnd(order, Confirmed, g)
           in == List!InPool(settings, role', t)
           C == Confirmed \cap in
           D == (Confirmed \cup {g}) \cap in
           E == Earlier(ord)
           W == (Waiting \cup {g}) \cap in
           C2 == Confirmed' \cap in
           limit == List!Limit(settings, t)
<1>1. /\ Written(settings, role', st, position, ord, AtEnd(created, Present, g))
      /\ Rebalance(settings, role', st, position, ord, AtEnd(created, Present, g))
      /\ Holding(st) = Confirmed \cup {g} /\ Queueing(st) = Waiting
      /\ g \notin Confirmed \cup Waiting /\ role' = [role EXCEPT ![g] = r]
  BY AddGuestWrites
<1>2. /\ settings \in List!SettingsType /\ role \in [Person -> List!Role] /\ g \in Person
      /\ Confirmed \in SUBSET Person /\ Waiting \in SUBSET Person /\ limit \in Nat
  BY RowTypes, ListsOfRows, LimitType DEF Person
<1>3. in = List!InPool(settings, role', r) /\ limit = List!Limit(settings, r)
  <2>1. role'[g] = r
    BY <1>1, <1>2
  <2> QED
    BY <1>2, <2>1, PoolOfRole
<1>4. C \in SUBSET Person /\ D = C \cup {g} /\ g \notin C /\ W \in SUBSET Person
  BY <1>1, <1>2
<1>5. /\ IsFiniteSet(C) /\ Cardinality(C) \in Nat /\ Cardinality(W) \in Nat
      /\ IsFiniteSet(D) /\ Cardinality(D) = Cardinality(C) + 1
  <2>1. IsFiniteSet(C) /\ Cardinality(C) \in Nat /\ Cardinality(W) \in Nat
    BY <1>4, Countable
  <2> HIDE DEF C, D
  <2> QED
    BY <1>4, <2>1, FS_AddElement
<1>6. Cardinality(C) = limit
  <2>1. C = Confirmed \cap List!InPool(settings, role, t)
    BY <1>1, <1>2 DEF List!InPool
  <2>2. Cardinality(Confirmed \cap List!InPool(settings, role, t)) <= limit
    BY DEF WaitInv, Exact
  <2>3. Cardinality(C) >= limit
    BY <1>3
  <2>4. Cardinality(C) <= limit
    BY <2>1, <2>2
  <2> HIDE DEF C, limit
  <2> QED
    BY <1>2, <1>5, <2>3, <2>4
<1>7. Confirmed' \cap in = D \ Over(E, D, limit)
  <2>1. Cardinality(D) > limit
    BY <1>2, <1>5, <1>6
  <2>2. D = Holding(st) \cap List!InPool(settings, role', t)
    BY <1>1
  <2>3. Cardinality(Holding(st) \cap in) > limit =>
          Confirmed' \cap in = (Holding(st) \cap in) \ Over(Earlier(ord), Holding(st) \cap in, limit)
    <3>1. /\ Written(settings, role', st, position, ord, AtEnd(created, Present, g))
          /\ Rebalance(settings, role', st, position, ord, AtEnd(created, Present, g))
      BY <1>1
    <3> HIDE DEF st, ord
    <3>2. \A u \in List!Pools(settings) :
            LET B == Holding(st) \cap List!InPool(settings, role', u)
            IN Cardinality(B) > List!Limit(settings, u) =>
                 Confirmed' \cap List!InPool(settings, role', u) = B \ Over(Earlier(ord), B, List!Limit(settings, u))
      BY <3>1, RebalancedPools
    <3> QED
      BY <3>2
  <2>4. D = Holding(st) \cap in
    BY <2>2
  <2> HIDE DEF D, st, ord, in
  <2> QED
    BY <2>1, <2>3, <2>4
<1>8. g \in Over(E, D, limit)
  <2>1. \A q \in C : <<q, g>> \in E
    <3> SUFFICES ASSUME NEW q \in C PROVE <<q, g>> \in E
      OBVIOUS
    <3>1. <<q, g>> \in ord
      BY <1>4 DEF AtEnd, Followed
    <3>2. q \in Profile \/ q \in Guest
      BY <1>4 DEF Person
    <3> QED
      BY <1>2, <1>4, <3>1, <3>2 DEF Earlier, ConfirmedBefore, SameKind
  <2>2. C \in SUBSET Before(E, D, g) /\ Before(E, D, g) \in SUBSET D
    BY <1>4, <2>1 DEF Before
  <2>3. /\ IsFiniteSet(Before(E, D, g)) /\ Cardinality(Before(E, D, g)) \in Nat
        /\ Cardinality(C) <= Cardinality(Before(E, D, g))
    <3> HIDE DEF C, D, E
    <3> QED
      BY <1>5, <2>2, FS_Subset, FS_CardinalityType
  <2> HIDE DEF C, D, E
  <2>4. Rank(E, D, g) >= limit
    BY <1>2, <1>6, <2>3 DEF Rank
  <2> QED
    BY <1>4, <2>4 DEF Over
<1>9. C2 \in SUBSET C
  BY <1>4, <1>7, <1>8
<1>10. Cardinality(C2) = Cardinality(C)
  <2>1. List!PoolsRebalanced(settings, role', Holding(st), Queueing(st), Confirmed')
    BY <1>1, RebalancedPools
  <2>2. List!PoolRebalanced(D, Waiting \cap in, C2, limit)
    BY <1>1, <2>1 DEF List!PoolsRebalanced
  <2> HIDE DEF C, D, C2, limit
  <2>3. Cardinality(D) > limit
    BY <1>2, <1>5, <1>6
  <2> QED
    BY <1>6, <2>2, <2>3, SameCount DEF List!PoolRebalanced
<1>11. C2 = C
  <2> HIDE DEF C, C2
  <2> QED
    BY <1>5, <1>9, <1>10, FS_Subset
<1>12. List!PoolRebalanced(C, W, C, limit)
  <2> HIDE DEF C, W, limit
  <2> QED
    BY <1>2, <1>5, <1>6, SameCount DEF List!PoolRebalanced, List!Smaller
<1> QED
  BY <1>11, <1>12

(***************************************************************************)
(* A guest who comes when the pool is full is the last to have been        *)
(* confirmed, so the triggers send that guest to the line and nobody else. *)
(***************************************************************************)
LEMMA SlotsAddGuest ==
  ASSUME WaitInv, NEW g \in Guest, NEW r \in List!Role, AddGuest(g, r)
  PROVE  List!AddGuest(g, r)
<1> DEFINE st == [presence EXCEPT ![g] = "confirmed"]
           ord == AtEnd(order, Confirmed, g)
           rows == AtEnd(created, Present, g)
           pool == List!InPool(settings, role', r)
           C == Confirmed \cap pool
           limit == List!Limit(settings, r)
<1>1. /\ Written(settings, role', st, position, ord, rows)
      /\ Rebalance(settings, role', st, position, ord, rows)
      /\ Holding(st) = Confirmed \cup {g} /\ Queueing(st) = Waiting
      /\ g \notin Confirmed \cup Waiting /\ role' = [role EXCEPT ![g] = r]
      /\ UNCHANGED <<status, settings>> /\ status # "finished"
  BY AddGuestWrites
<1>2. List!Rebalance(settings, role', Confirmed \cup {g}, Waiting)
  BY <1>1, SlotsRebalance
<1>3. List!Cardinality(Confirmed \cap pool) >= limit <=> Cardinality(C) >= limit
  BY SameCount
<1>4. CASE ~(Cardinality(C) >= limit)
  BY <1>1, <1>2, <1>3, <1>4 DEF List!AddGuest
<1>5. CASE Cardinality(C) >= limit
  <2>1. List!Rebalance(settings, role', Confirmed, Waiting \cup {g})
    <3>1. /\ List!PoolsRebalanced(settings, role', Confirmed \cup {g}, Waiting, Confirmed')
          /\ Waiting' = ((Confirmed \cup {g}) \cup Waiting) \ Confirmed'
      BY <1>2 DEF List!Rebalance
    <3>2. ASSUME NEW t \in List!Pools(settings), g \notin List!InPool(settings, role', t)
          PROVE  LET in == List!InPool(settings, role', t)
                 IN List!PoolRebalanced(Confirmed \cap in, (Waiting \cup {g}) \cap in,
                                        Confirmed' \cap in, List!Limit(settings, t))
      <4> DEFINE in == List!InPool(settings, role', t)
      <4>1. (Confirmed \cup {g}) \cap in = Confirmed \cap in /\ (Waiting \cup {g}) \cap in = Waiting \cap in
        BY <3>2
      <4>2. List!PoolRebalanced((Confirmed \cup {g}) \cap in, Waiting \cap in, Confirmed' \cap in, List!Limit(settings, t))
        BY <3>1 DEF List!PoolsRebalanced
      <4> QED
        BY <4>1, <4>2
    <3>3. ASSUME NEW t \in List!Pools(settings), g \in List!InPool(settings, role', t)
          PROVE  LET in == List!InPool(settings, role', t)
                 IN List!PoolRebalanced(Confirmed \cap in, (Waiting \cup {g}) \cap in,
                                        Confirmed' \cap in, List!Limit(settings, t))
      BY <1>1, <1>5, <3>3, GuestBehind
    <3>4. List!PoolsRebalanced(settings, role', Confirmed, Waiting \cup {g}, Confirmed')
      BY <3>1, <3>2, <3>3 DEF List!PoolsRebalanced
    <3> QED
      BY <3>1, <3>4 DEF List!Rebalance, List!PoolsRebalanced
  <2> QED
    BY <1>1, <1>3, <1>5, <2>1 DEF List!AddGuest
<1> QED
  BY <1>4, <1>5

(* Every step is a step of Slots or leaves its lists alone.                *)
LEMMA SlotsStep ==
  ASSUME WaitInv, [Next]_vars
  PROVE  [List!SlotsNext]_<<status, settings, Confirmed, Waiting, role>>
<1>1. ASSUME NEW p \in Profile, NEW r \in List!Role, Confirm(p, r) PROVE List!SlotsNext
  BY <1>1, SlotsConfirm DEF List!SlotsNext, List!PresenceStep
<1>2. ASSUME NEW p \in Profile, CancelConfirmation(p)
      PROVE  List!SlotsNext \/ UNCHANGED <<status, settings, Confirmed, Waiting, role>>
  <2> DEFINE st == [presence EXCEPT ![p] = "cancelled"]
  <2>1. /\ Written(settings, role, st, Unplaced(p), order, created)
        /\ Rebalance(settings, role, st, Unplaced(p), order, created)
        /\ Holding(st) = Confirmed \ {p} /\ Queueing(st) = Waiting \ {p}
        /\ UNCHANGED <<status, settings, role>> /\ status # "finished"
    BY <1>2, CancelWrites
  <2> HIDE DEF st
  <2>2. List!Rebalance(settings, role, Confirmed \ {p}, Waiting \ {p})
    BY <2>1, SlotsRebalance
  <2>3. p \in Person
    BY DEF Person
  <2>4. List!CancelConfirmation(p) \/ UNCHANGED <<status, settings, Confirmed, Waiting, role>>
    BY <2>1, <2>2, <2>3, SlotsCancel
  <2> QED
    BY <2>4 DEF List!SlotsNext, List!PresenceStep
<1>3. ASSUME NEW g \in Guest, NEW r \in List!Role, AddGuest(g, r) PROVE List!SlotsNext
  BY <1>3, SlotsAddGuest DEF List!SlotsNext, List!PresenceStep
<1>4. ASSUME NEW g \in Guest, RemoveGuest(g)
      PROVE  List!SlotsNext \/ UNCHANGED <<status, settings, Confirmed, Waiting, role>>
  <2> DEFINE st == [presence EXCEPT ![g] = "absent"]
             rows == Among(created, Present \ {g})
  <2>1. /\ Written(settings, role, st, Unplaced(g), order, rows)
        /\ Rebalance(settings, role, st, Unplaced(g), order, rows)
        /\ Holding(st) = Confirmed \ {g} /\ Queueing(st) = Waiting \ {g}
        /\ UNCHANGED <<status, settings, role>> /\ status # "finished"
    BY <1>4, RemoveGuestWrites
  <2> HIDE DEF st, rows
  <2>2. List!Rebalance(settings, role, Confirmed \ {g}, Waiting \ {g})
    BY <2>1, SlotsRebalance
  <2>3. g \in Person
    BY DEF Person
  <2>4. List!CancelConfirmation(g) \/ UNCHANGED <<status, settings, Confirmed, Waiting, role>>
    BY <2>1, <2>2, <2>3, SlotsCancel
  <2> QED
    BY <2>4 DEF List!SlotsNext, List!PresenceStep, List!RemoveGuest
<1>5. ASSUME NEW s \in Settings, ChangeSettings(s) PROVE List!SlotsNext
  <2>1. List!Rebalance(s, role, Confirmed, Waiting)
    BY <1>5, ChangeWrites, SlotsRebalance
  <2>2. List!ChangeSettings(s)
    BY <1>5, <2>1, ChangeWrites DEF List!ChangeSettings
  <2> QED
    BY <2>2 DEF List!SlotsNext
<1>6. CASE Begin
  <2>1. List!Begin
    BY <1>6 DEF Begin, List!Begin, List!listVars, Confirmed, Waiting
  <2> QED
    BY <2>1 DEF List!SlotsNext
<1>7. CASE End
  <2>1. List!End
    BY <1>7 DEF End, List!End, List!listVars, Confirmed, Waiting
  <2> QED
    BY <2>1 DEF List!SlotsNext
<1>8. CASE UNCHANGED vars
  BY <1>8 DEF vars, Confirmed, Waiting
<1> QED
  BY <1>1, <1>2, <1>3, <1>4, <1>5, <1>6, <1>7, <1>8 DEF Next

(***************************************************************************)
(* The rows of event_presences, with positions, times, triggers and all,   *)
(* keep the promises of the confirmation list: module Waitlist implements  *)
(* module Slots.                                                           *)
(***************************************************************************)
THEOREM WaitlistImplementsSlots == Spec => ImplementsSlots
<1>1. Init => List!SlotsInit
  BY DEF Init, List!SlotsInit, Confirmed, Waiting, Person, List!Person
<1>2. WaitInv /\ [Next]_vars => [List!SlotsNext]_List!slotVars
  BY SlotsStep DEF List!slotVars
<1> QED
  BY <1>1, <1>2, WaitInvariant, PTL DEF Spec, ImplementsSlots, List!SlotsSpec

(***************************************************************************)
(* rebalance_event_waitlist numbers the line 1, 2, ..., n after every      *)
(* request, guests behind members; nobody else has a position.             *)
(***************************************************************************)
THEOREM LineStaysNumbered == Spec => []LineIsNumbered
<1>1. WaitInv => LineIsNumbered
  BY DEF WaitInv
<1> QED
  BY <1>1, WaitInvariant, PTL

(* A request leaves two others in the line as they were: the one ahead is  *)
(* served first.                                                           *)
LEMMA OthersInTurn ==
  ASSUME WaitInv,
         NEW s, NEW ro, NEW st, NEW pos, NEW ord, NEW rows,
         Written(s, ro, st, pos, ord, rows), Rebalance(s, ro, st, pos, ord, rows),
         settings' = s, role' = ro,
         NEW p \in Waiting, NEW q \in Waiting, SameKind(p, q), position[p] < position[q],
         p \in Queueing(st), q \in Queueing(st), pos[p] = position[p], pos[q] = position[q],
         q \in Confirmed'
  PROVE  p \notin Waiting' \/ (settings'.split /\ role'[p] # role'[q])
<1> SUFFICES ASSUME ~(s.split /\ ro[p] # ro[q]) PROVE p \notin Waiting'
  OBVIOUS
<1>1. p \in Person /\ q \in Person
  BY ListsOfRows
<1>2. ro \in [Person -> List!Role] /\ s \in List!SettingsType
  BY DEF Written
<1>3. PICK r \in List!Pools(s) : q \in List!InPool(s, ro, r)
  BY <1>1, <1>2, OnePool
<1>4. p \in List!InPool(s, ro, r)
  BY <1>1, <1>3 DEF List!InPool, List!Person, Person
<1>5. pos[p] # 0 /\ pos[q] # 0
  <2>1. position[p] \in 1 .. Cardinality(Waiting) /\ position[q] \in 1 .. Cardinality(Waiting)
    BY DEF WaitInv, LineIsNumbered
  <2> QED
    BY <2>1
<1>6. AheadInLine(pos, rows, p, q)
  BY <1>5 DEF AheadInLine
<1>7. p \in Confirmed'
  BY <1>3, <1>4, <1>6, ServedInTurn
<1>8. Waiting' = (Holding(st) \cup Queueing(st)) \ Confirmed'
  BY RebalancedPools
<1> QED
  BY <1>7, <1>8

(***************************************************************************)
(* Asking for the other role does not bring anybody in from the pool that  *)
(* is asked for: whoever waits there waits because it is full.             *)
(***************************************************************************)
LEMMA NobodyOvertakes ==
  ASSUME WaitInv, NEW p \in Profile, NEW r \in List!Role, Confirm(p, r),
         p \in Waiting, NEW q \in Waiting, q # p, q \in Confirmed'
  PROVE  settings.split /\ role[q] # r
<1> SUFFICES ASSUME ~(settings.split /\ role[q] # r) PROVE FALSE
  OBVIOUS
<1>1. /\ Written(settings, role', Asked(p, r), Unplaced(p), AskedOrder(p, r), AskedRows(p))
      /\ Rebalance(settings, role', Asked(p, r), Unplaced(p), AskedOrder(p, r), AskedRows(p))
      /\ Holding(Asked(p, r)) = IF Full(r) THEN Confirmed \ {p} ELSE Confirmed \cup {p}
      /\ role' = [role EXCEPT ![p] = r]
  BY ConfirmWrites
<1>2. /\ settings \in List!SettingsType /\ role \in [Person -> List!Role]
      /\ q \in Person /\ p \in Person /\ p \notin Confirmed /\ q \notin Confirmed
  BY RowTypes, ListsOfRows
<1>3. PICK t \in List!Pools(settings) : q \in List!InPool(settings, role, t)
  BY <1>2, OnePool
<1>4. /\ List!InPool(settings, role, t) = List!InPool(settings, role, r)
      /\ List!Limit(settings, t) = List!Limit(settings, r)
  BY <1>2, <1>3 DEF List!InPool, List!Limit, List!Pools
<1>5. Cardinality(Confirmed \cap List!InPool(settings, role, t)) = List!Limit(settings, t)
  BY <1>3 DEF WaitInv, Exact
<1>6. Full(r)
  <2>1. List!Limit(settings, t) \in Nat
    BY <1>2, LimitType
  <2> QED
    BY <1>4, <1>5, <2>1 DEF Full
<1>7. Holding(Asked(p, r)) = Confirmed
  BY <1>1, <1>2, <1>6
<1>8. Confirmed \cap List!InPool(settings, role', t) = Confirmed \cap List!InPool(settings, role, t)
  BY <1>1, <1>2 DEF List!InPool
<1>9. q \in List!InPool(settings, role', t)
  BY <1>1, <1>2, <1>3 DEF List!InPool
<1>10. List!PoolsRebalanced(settings, role', Confirmed, Queueing(Asked(p, r)), Confirmed')
  BY <1>1, <1>7, RebalancedPools
<1>11. Confirmed' \cap List!InPool(settings, role', t) = Confirmed \cap List!InPool(settings, role', t)
  <2>1. Confirmed \in SUBSET Person /\ Queueing(Asked(p, r)) \in SUBSET Person
    BY ListsOfRows DEF Queueing
  <2>2. Cardinality(Confirmed \cap List!InPool(settings, role', t)) = List!Limit(settings, t)
    BY <1>5, <1>8
  <2> QED
    BY <1>2, <1>10, <2>1, <2>2, FullPool
<1> QED
  BY <1>2, <1>9, <1>11

(* Two in the line, before and after one step.                             *)
LEMMA InTurnStep ==
  ASSUME WaitInv, [Next]_vars, NEW p \in Waiting, NEW q \in Waiting,
         SameKind(p, q), position[p] < position[q], q \in Confirmed', role'[q] = role[q]
  PROVE  p \notin Waiting' \/ (settings'.split /\ role'[p] # role'[q])
<1>1. /\ presence \in [Person -> Standing] /\ role \in [Person -> List!Role]
      /\ position \in [Person -> Nat]
  BY RowTypes
<1>2. /\ p \in Person /\ q \in Person /\ Waiting = Queueing(presence)
      /\ p \notin Confirmed /\ q \notin Confirmed /\ p # q
  BY <1>1, ListsOfRows
<1>3. presence[p] = "waitlist" /\ presence[q] = "waitlist"
  BY <1>2 DEF Queueing
<1>4. ASSUME NEW x \in Profile, NEW r \in List!Role, Confirm(x, r)
      PROVE  p \notin Waiting' \/ (settings'.split /\ role'[p] # role'[q])
  <2>1. /\ Written(settings, role', Asked(x, r), Unplaced(x), AskedOrder(x, r), AskedRows(x))
        /\ Rebalance(settings, role', Asked(x, r), Unplaced(x), AskedOrder(x, r), AskedRows(x))
        /\ Queueing(Asked(x, r)) = IF Full(r) THEN Waiting \cup {x} ELSE Waiting \ {x}
        /\ role' = [role EXCEPT ![x] = r] /\ settings' = settings
        /\ ~(x \in Confirmed \cup Waiting /\ role[x] = r)
    BY <1>4, ConfirmWrites
  <2>2. CASE x = p
    <3>1. settings.split /\ role[q] # r
      BY <1>2, <1>4, <2>2, NobodyOvertakes
    <3> QED
      BY <1>1, <1>2, <2>1, <2>2, <3>1
  <2>3. x # q
    BY <1>1, <1>2, <2>1
  <2>4. CASE x # p
    <3>1. p \in Queueing(Asked(x, r)) /\ q \in Queueing(Asked(x, r))
      BY <2>1, <2>3, <2>4
    <3>2. Unplaced(x)[p] = position[p] /\ Unplaced(x)[q] = position[q]
      BY <1>1, <1>2, <2>3, <2>4 DEF Unplaced
    <3> QED
      BY <2>1, <3>1, <3>2, OthersInTurn
  <2> QED
    BY <2>2, <2>4
<1>5. ASSUME NEW x \in Profile, CancelConfirmation(x)
      PROVE  p \notin Waiting' \/ (settings'.split /\ role'[p] # role'[q])
  <2> DEFINE st == [presence EXCEPT ![x] = "cancelled"]
  <2>1. /\ Written(settings, role, st, Unplaced(x), order, created)
        /\ Rebalance(settings, role, st, Unplaced(x), order, created)
        /\ Holding(st) = Confirmed \ {x} /\ Queueing(st) = Waiting \ {x}
        /\ UNCHANGED <<status, settings, role>>
    BY <1>5, CancelWrites
  <2> HIDE DEF st
  <2>2. /\ Confirmed' \in SUBSET (Holding(st) \cup Queueing(st))
        /\ Waiting' = (Holding(st) \cup Queueing(st)) \ Confirmed'
    BY <2>1, RebalancedPools DEF List!PoolsRebalanced
  <2>3. CASE x = p
    BY <1>2, <2>1, <2>2, <2>3
  <2>4. x # q
    BY <1>2, <2>1, <2>2
  <2>5. CASE x # p
    <3>1. Unplaced(x)[p] = position[p] /\ Unplaced(x)[q] = position[q]
      BY <1>1, <1>2, <2>4, <2>5 DEF Unplaced
    <3> QED
      BY <2>1, <2>4, <2>5, <3>1, OthersInTurn
  <2> QED
    BY <2>3, <2>5
<1>6. ASSUME NEW g \in Guest, NEW r \in List!Role, AddGuest(g, r)
      PROVE  p \notin Waiting' \/ (settings'.split /\ role'[p] # role'[q])
  <2> DEFINE st == [presence EXCEPT ![g] = "confirmed"]
             ord == AtEnd(order, Confirmed, g)
             rows == AtEnd(created, Present, g)
  <2>1. /\ Written(settings, role', st, position, ord, rows)
        /\ Rebalance(settings, role', st, position, ord, rows)
        /\ Queueing(st) = Waiting /\ UNCHANGED <<status, settings>>
    BY <1>6, AddGuestWrites
  <2> HIDE DEF st, ord, rows
  <2> QED
    BY <2>1, OthersInTurn
<1>7. ASSUME NEW g \in Guest, RemoveGuest(g)
      PROVE  p \notin Waiting' \/ (settings'.split /\ role'[p] # role'[q])
  <2> DEFINE st == [presence EXCEPT ![g] = "absent"]
             rows == Among(created, Present \ {g})
  <2>1. /\ Written(settings, role, st, Unplaced(g), order, rows)
        /\ Rebalance(settings, role, st, Unplaced(g), order, rows)
        /\ Holding(st) = Confirmed \ {g} /\ Queueing(st) = Waiting \ {g}
        /\ UNCHANGED <<status, settings, role>>
    BY <1>7, RemoveGuestWrites
  <2> HIDE DEF st, rows
  <2>2. /\ Confirmed' \in SUBSET (Holding(st) \cup Queueing(st))
        /\ Waiting' = (Holding(st) \cup Queueing(st)) \ Confirmed'
    BY <2>1, RebalancedPools DEF List!PoolsRebalanced
  <2>3. CASE g = p
    BY <1>2, <2>1, <2>2, <2>3
  <2>4. g # q
    BY <1>2, <2>1, <2>2
  <2>5. CASE g # p
    <3>1. Unplaced(g)[p] = position[p] /\ Unplaced(g)[q] = position[q]
      BY <1>1, <1>2, <2>4, <2>5 DEF Unplaced
    <3> QED
      BY <2>1, <2>4, <2>5, <3>1, OthersInTurn
  <2> QED
    BY <2>3, <2>5
<1>8. ASSUME NEW s \in Settings, ChangeSettings(s)
      PROVE  p \notin Waiting' \/ (settings'.split /\ role'[p] # role'[q])
  <2>1. /\ Written(s, role, presence, position, order, created)
        /\ Rebalance(s, role, presence, position, order, created)
        /\ settings' = s /\ UNCHANGED <<status, role>>
    BY <1>8, ChangeWrites
  <2> QED
    BY <1>2, <2>1, OthersInTurn
<1>9. CASE Begin \/ End \/ UNCHANGED vars
  BY <1>2, <1>9 DEF Begin, End, vars, Confirmed
<1> QED
  BY <1>4, <1>5, <1>6, <1>7, <1>8, <1>9 DEF Next

(***************************************************************************)
(* A place that becomes free goes to whoever waits first for it, whatever  *)
(* the request: a withdrawal, a change of role, a guest, new limits.       *)
(***************************************************************************)
THEOREM FirstComesFirst == Spec => FirstComeFirstServed
<1>1. WaitInv /\ [Next]_vars =>
        [ \A p, q \in Waiting :
            /\ SameKind(p, q) /\ position[p] < position[q]
            /\ q \in Confirmed' /\ role'[q] = role[q]
            => \/ p \notin Waiting'
               \/ settings'.split /\ role'[p] # role'[q] ]_vars
  BY InTurnStep
<1> QED
  BY <1>1, WaitInvariant, PTL DEF Spec, FirstComeFirstServed
=============================================================================
