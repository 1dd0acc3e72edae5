----------------------- MODULE ChampionshipSheetProofs -----------------------
(***************************************************************************)
(* Proofs about the sheets of an edition's matches, for any squads, any    *)
(* number of matches and launches.  What a row of championship_matches     *)
(* may hold is stated of its columns (CardsOK, KeepersOK, DutyOK, BegunOK, *)
(* ResultOK), so that each lemma is about one write; SheetInv, the         *)
(* conjunction, is inductive.                                              *)
(***************************************************************************)
EXTENDS ChampionshipSheet, FiniteSetTheorems, SequenceTheorems, TLAPS

-----------------------------------------------------------------------------
(***************************************************************************)
(* What MapThenSumSet, a fold over a finite set, computes.  The library    *)
(* has no theorem about it; all rests on the well-founded order of the     *)
(* subsets of a finite set.                                                *)
(***************************************************************************)
SumOf(f, S) == MapThenSumSet(LAMBDA x : f[x], S)

Pick(S) == CHOOSE x \in S : TRUE

(* g gives the sum of every subset of S as the fold computes it.           *)
IsFold(g, f, S) ==
  g = [T \in SUBSET S |-> IF T = {} THEN 0 ELSE f[Pick(T)] + g[T \ {Pick(T)}]]

(* The elements of A that k puts in the class d, or in a class of T.       *)
Class(A, k, d)   == {a \in A : k[a] = d}
Classed(A, k, T) == {a \in A : k[a] \in T}

Below(g, T) == [U \in SUBSET T |-> g[U]]

-----------------------------------------------------------------------------
(* Induction on the subsets of a finite set.                               *)
LEMMA SubsetInduction ==
  ASSUME NEW S, IsFiniteSet(S), NEW G,
         \A T \in SUBSET S : (\A U \in SUBSET T : U # T => U \in G) => T \in G
  PROVE  SUBSET S \subseteq G
<1> SUFFICES ASSUME (SUBSET S) \ G # {} PROVE FALSE
  OBVIOUS
<1>1. IsWellFoundedOn(StrictSubsetOrdering(S), SUBSET S)
  <2>1. IsWellFoundedOn(StrictSubsetOrdering(S), FiniteSubsetsOf(S))
    BY FS_StrictSubsetOrderingWellFounded
  <2>2. FiniteSubsetsOf(S) = SUBSET S
    BY FS_FiniteSubsetsOfFinite
  <2> QED
    BY <2>1, <2>2
<1>2. PICK T \in (SUBSET S) \ G : \A U \in (SUBSET S) \ G : ~(<<U, T>> \in StrictSubsetOrdering(S))
  <2> DEFINE R == StrictSubsetOrdering(S)
             A == SUBSET S
             B == (SUBSET S) \ G
  <2>1. IsWellFoundedOn(R, A) /\ B \subseteq A /\ B # {}
    BY <1>1
  <2> HIDE DEF R, A, B
  <2>2. \E T \in B : \A U \in B : ~(<<U, T>> \in R)
    BY <2>1, WFMin
  <2> QED
    BY <2>2 DEF R, A, B
<1>3. \A U \in SUBSET T : U # T => U \in G
  BY <1>2 DEF StrictSubsetOrdering
<1> QED
  BY <1>2, <1>3

(* The recursion of the fold has one solution, on any finite set.          *)
LEMMA FoldUnique ==
  ASSUME NEW S, IsFiniteSet(S), NEW f, NEW g, NEW h, IsFold(g, f, S), IsFold(h, f, S)
  PROVE  \A T \in SUBSET S : g[T] = h[T]
<1> DEFINE G == {T \in SUBSET S : g[T] = h[T]}
<1>1. \A T \in SUBSET S : (\A U \in SUBSET T : U # T => U \in G) => T \in G
  <2> SUFFICES ASSUME NEW T \in SUBSET S, \A U \in SUBSET T : U # T => U \in G PROVE g[T] = h[T]
    OBVIOUS
  <2>1. CASE T = {}
    BY <2>1 DEF IsFold
  <2>2. CASE T # {}
    <3>1. Pick(T) \in T
      BY <2>2 DEF Pick
    <3>2. g[T \ {Pick(T)}] = h[T \ {Pick(T)}]
      BY <3>1
    <3> QED
      BY <2>2, <3>2 DEF IsFold
  <2> QED
    BY <2>1, <2>2
<1> HIDE DEF G
<1>2. SUBSET S \subseteq G
  BY <1>1, SubsetInduction
<1> QED
  BY <1>2 DEF G

(* The part of a solution below a subset is the solution there.            *)
LEMMA FoldBelow ==
  ASSUME NEW S, NEW T \in SUBSET S, NEW f, NEW g, IsFold(g, f, S)
  PROVE  IsFold(Below(g, T), f, T)
<1> DEFINE h == Below(g, T)
<1>1. \A U \in SUBSET T : g[U] = IF U = {} THEN 0 ELSE f[Pick(U)] + g[U \ {Pick(U)}]
  BY DEF IsFold
<1>2. \A U \in SUBSET T : h[U] = IF U = {} THEN 0 ELSE f[Pick(U)] + h[U \ {Pick(U)}]
  BY <1>1 DEF Below
<1>3. h = [U \in SUBSET T |-> h[U]]
  BY DEF Below
<1>4. h = [U \in SUBSET T |-> IF U = {} THEN 0 ELSE f[Pick(U)] + h[U \ {Pick(U)}]]
  <2> HIDE DEF h
  <2> QED
    BY <1>2, <1>3
<1> HIDE DEF h
<1>5. IsFold(h, f, T)
  BY <1>4 DEF IsFold
<1> QED
  BY <1>5 DEF h

(* A sum is what a solution of that recursion says of the whole set.       *)
LEMMA SumIsFold ==
  ASSUME NEW S, NEW f
  PROVE  SumOf(f, S) = (CHOOSE g : IsFold(g, f, S))[S]
BY DEF SumOf, MapThenSumSet, MapThenFoldSet, IsFold, Pick

(* There is a solution on every finite set.                                *)
LEMMA FoldExists ==
  ASSUME NEW S, IsFiniteSet(S), NEW f
  PROVE  \E g : IsFold(g, f, S)
<1> DEFINE G == {T \in SUBSET S : \E g : IsFold(g, f, T)}
<1>1. ASSUME NEW T \in SUBSET S, \A U \in SUBSET T : U # T => U \in G
      PROVE  \E g : IsFold(g, f, T)
  <2> DEFINE V(U) == SumOf(f, U)
             W == IF T = {} THEN 0 ELSE f[Pick(T)] + V(T \ {Pick(T)})
             g == [U \in SUBSET T |-> IF U = T THEN W ELSE V(U)]
  <2>1. ASSUME NEW U \in SUBSET T, U # T
        PROVE  V(U) = IF U = {} THEN 0 ELSE f[Pick(U)] + V(U \ {Pick(U)})
    <3> DEFINE k == CHOOSE h : IsFold(h, f, U)
    <3>1. IsFold(k, f, U) /\ V(U) = k[U]
      <4>1. \E h : IsFold(h, f, U)
        BY <1>1, <2>1
      <4> QED
        BY <4>1, SumIsFold
    <3>2. CASE U = {}
      BY <3>1, <3>2 DEF IsFold
    <3>3. CASE U # {}
      <4> DEFINE D == U \ {Pick(U)}
                 l == CHOOSE h : IsFold(h, f, D)
      <4>1. Pick(U) \in U /\ D \in SUBSET U /\ D \in SUBSET T /\ D # T /\ IsFiniteSet(D)
        <5>1. Pick(U) \in U
          BY <3>3 DEF Pick
        <5>2. D \in SUBSET S
          BY <2>1, <1>1
        <5> QED
          BY <5>1, <5>2, <2>1, FS_Subset
      <4>2. IsFold(l, f, D) /\ V(D) = l[D]
        <5>1. \E h : IsFold(h, f, D)
          BY <1>1, <4>1
        <5> QED
          BY <5>1, SumIsFold
      <4>3. IsFold(Below(k, D), f, D)
        <5> HIDE DEF k, D
        <5> QED
          BY <3>1, <4>1, FoldBelow
      <4>4. k[D] = l[D]
        <5> HIDE DEF k, l, D
        <5>1. \A B \in SUBSET D : Below(k, D)[B] = l[B]
          BY <4>1, <4>2, <4>3, FoldUnique
        <5> QED
          BY <5>1 DEF Below
      <4>5. k[U] = f[Pick(U)] + k[D]
        BY <3>1, <3>3 DEF IsFold
      <4> QED
        BY <3>1, <3>3, <4>2, <4>4, <4>5
    <3> QED
      BY <3>2, <3>3
  <2>2. \A U \in SUBSET T : g[U] = IF U = {} THEN 0 ELSE f[Pick(U)] + g[U \ {Pick(U)}]
    <3> SUFFICES ASSUME NEW U \in SUBSET T
                 PROVE  g[U] = IF U = {} THEN 0 ELSE f[Pick(U)] + g[U \ {Pick(U)}]
      OBVIOUS
    <3> HIDE DEF V
    <3>1. U # {} => U \ {Pick(U)} \in SUBSET T /\ U \ {Pick(U)} # T
      BY DEF Pick
    <3> QED
      BY <2>1, <3>1
  <2>3. IsFold(g, f, T)
    <3> HIDE DEF V, W
    <3> QED
      BY <2>2 DEF IsFold
  <2> QED
    BY <2>3
<1>2. \A T \in SUBSET S : (\A U \in SUBSET T : U # T => U \in G) => T \in G
  BY <1>1
<1>3. SUBSET S \subseteq G
  <2> HIDE DEF G
  <2> QED
    BY <1>2, SubsetInduction
<1> QED
  BY <1>3

-----------------------------------------------------------------------------
(* One step of the fold. *)
LEMMA SumStep ==
  ASSUME NEW T, IsFiniteSet(T), NEW f
  PROVE  SumOf(f, T) = IF T = {} THEN 0 ELSE f[Pick(T)] + SumOf(f, T \ {Pick(T)})
<1> DEFINE D == T \ {Pick(T)}
           g == CHOOSE h : IsFold(h, f, T)
           l == CHOOSE h : IsFold(h, f, D)
<1>1. IsFiniteSet(D)
  BY FS_RemoveElement
<1>2. IsFold(g, f, T) /\ SumOf(f, T) = g[T]
  BY FoldExists, SumIsFold
<1>3. IsFold(l, f, D) /\ SumOf(f, D) = l[D]
  <2> HIDE DEF D
  <2> QED
    BY <1>1, FoldExists, SumIsFold
<1>4. g[D] = l[D]
  <2>1. D \in SUBSET T
    OBVIOUS
  <2> HIDE DEF g, l, D
  <2>2. IsFold(Below(g, D), f, D)
    BY <1>2, <2>1, FoldBelow
  <2>3. Below(g, D)[D] = l[D]
    BY <1>1, <1>3, <2>2, FoldUnique
  <2> QED
    BY <2>3 DEF Below
<1>5. g[T] = IF T = {} THEN 0 ELSE f[Pick(T)] + g[D]
  BY <1>2 DEF IsFold
<1> QED
  BY <1>2, <1>3, <1>4, <1>5

(* Nothing sums to zero.                                                   *)
LEMMA SumEmpty == \A f : SumOf(f, {}) = 0
BY SumStep, FS_EmptySet

(* A sum of numbers is a number. *)
LEMMA SumType ==
  ASSUME NEW S, IsFiniteSet(S), NEW f, \A x \in S : f[x] \in Int
  PROVE  \A T \in SUBSET S : SumOf(f, T) \in Int
<1> DEFINE G == {T \in SUBSET S : SumOf(f, T) \in Int}
<1>1. ASSUME NEW T \in SUBSET S, \A U \in SUBSET T : U # T => U \in G
      PROVE  SumOf(f, T) \in Int
  <2>1. IsFiniteSet(T)
    BY FS_Subset
  <2>2. T # {} => Pick(T) \in T
    BY DEF Pick
  <2>3. T # {} => SumOf(f, T \ {Pick(T)}) \in Int
    BY <1>1, <2>2
  <2> QED
    BY <2>1, <2>2, <2>3, SumStep
<1>2. \A T \in SUBSET S : (\A U \in SUBSET T : U # T => U \in G) => T \in G
  BY <1>1
<1>3. SUBSET S \subseteq G
  <2> HIDE DEF G
  <2> QED
    BY <1>2, SubsetInduction
<1> QED
  BY <1>3

(* ... and it does not matter who is taken out first. *)
LEMMA SumWithout ==
  ASSUME NEW S, IsFiniteSet(S), NEW f, \A x \in S : f[x] \in Int
  PROVE  \A T \in SUBSET S : \A y \in T : SumOf(f, T) = f[y] + SumOf(f, T \ {y})
<1> DEFINE G == {T \in SUBSET S : \A y \in T : SumOf(f, T) = f[y] + SumOf(f, T \ {y})}
<1>1. ASSUME NEW T \in SUBSET S, \A U \in SUBSET T : U # T => U \in G, NEW y \in T
      PROVE  SumOf(f, T) = f[y] + SumOf(f, T \ {y})
  <2> DEFINE x == Pick(T)
  <2>0. x \in T
    BY DEF Pick
  <2> HIDE DEF x
  <2>1. SumOf(f, T) = f[x] + SumOf(f, T \ {x})
    <3>1. IsFiniteSet(T)
      BY FS_Subset
    <3> QED
      BY <3>1, SumStep DEF x
  <2>2. CASE x = y
    BY <2>1, <2>2
  <2>3. CASE x # y
    <3> DEFINE B == T \ {x, y}
    <3>1. SumOf(f, T \ {x}) = f[y] + SumOf(f, B)
      <4>1. T \ {x} \in SUBSET T /\ T \ {x} # T /\ y \in T \ {x} /\ (T \ {x}) \ {y} = B
        BY <2>0, <2>3
      <4> QED
        BY <1>1, <4>1
    <3>2. SumOf(f, T \ {y}) = f[x] + SumOf(f, B)
      <4>1. T \ {y} \in SUBSET T /\ T \ {y} # T /\ x \in T \ {y} /\ (T \ {y}) \ {x} = B
        BY <2>0, <2>3
      <4> QED
        BY <1>1, <4>1
    <3>3. SumOf(f, B) \in Int /\ f[x] \in Int /\ f[y] \in Int
      <4>1. B \in SUBSET S /\ x \in S /\ y \in S
        BY <2>0
      <4> HIDE DEF B
      <4> QED
        BY <4>1, SumType
    <3> HIDE DEF B
    <3> QED
      BY <2>1, <3>1, <3>2, <3>3
  <2> QED
    BY <2>2, <2>3
<1>2. \A T \in SUBSET S : (\A U \in SUBSET T : U # T => U \in G) => T \in G
  BY <1>1
<1>3. SUBSET S \subseteq G
  <2> HIDE DEF G
  <2> QED
    BY <1>2, SubsetInduction
<1> QED
  BY <1>3

(* A sum of natural numbers is one, and as large as each of them.          *)
LEMMA SumNat ==
  ASSUME NEW S, IsFiniteSet(S), NEW f, \A x \in S : f[x] \in Nat
  PROVE  \A T \in SUBSET S : SumOf(f, T) \in Nat /\ \A y \in T : f[y] <= SumOf(f, T)
<1> DEFINE G == {T \in SUBSET S : SumOf(f, T) \in Nat}
<1>1. ASSUME NEW T \in SUBSET S, \A U \in SUBSET T : U # T => U \in G
      PROVE  SumOf(f, T) \in Nat
  <2>1. CASE T = {}
    BY <2>1, SumEmpty
  <2>2. CASE T # {}
    <3>1. PICK y \in T : TRUE
      BY <2>2
    <3>2. SumOf(f, T \ {y}) \in Nat
      BY <1>1
    <3>3. SumOf(f, T) = f[y] + SumOf(f, T \ {y})
      BY SumWithout
    <3> QED
      BY <3>2, <3>3
  <2> QED
    BY <2>1, <2>2
<1>2. \A T \in SUBSET S : (\A U \in SUBSET T : U # T => U \in G) => T \in G
  BY <1>1
<1>3. SUBSET S \subseteq G
  <2> HIDE DEF G
  <2> QED
    BY <1>2, SubsetInduction
<1>4. \A T \in SUBSET S : \A y \in T : f[y] <= SumOf(f, T)
  <2> SUFFICES ASSUME NEW T \in SUBSET S, NEW y \in T PROVE f[y] <= SumOf(f, T)
    OBVIOUS
  <2>1. SumOf(f, T \ {y}) \in Nat /\ f[y] \in Nat
    BY <1>3
  <2>2. SumOf(f, T) = f[y] + SumOf(f, T \ {y})
    BY SumWithout
  <2> QED
    BY <2>1, <2>2
<1> QED
  BY <1>3, <1>4

(***************************************************************************)
(* Elements counted class by class: the sizes of the classes of S that     *)
(* have their representative in T add up to the size of these together.    *)
(***************************************************************************)
LEMMA SumOfClasses ==
  ASSUME NEW A, IsFiniteSet(A), NEW k, NEW S, IsFiniteSet(S), NEW f,
         \A d \in S : f[d] = Cardinality(Class(A, k, d))
  PROVE  \A T \in SUBSET S : SumOf(f, T) = Cardinality(Classed(A, k, T))
<1> DEFINE G == {T \in SUBSET S : SumOf(f, T) = Cardinality({a \in A : k[a] \in T})}
<1>0. \A B \in SUBSET A : IsFiniteSet(B) /\ Cardinality(B) \in Nat
  BY FS_Subset, FS_CardinalityType
<1>4. \A d \in S : f[d] = Cardinality({a \in A : k[a] = d})
  BY DEF Class
<1>1. ASSUME NEW T \in SUBSET S, \A U \in SUBSET T : U # T => U \in G
      PROVE  SumOf(f, T) = Cardinality({a \in A : k[a] \in T})
  <2>1. CASE T = {}
    <3>1. {a \in A : k[a] \in T} = {}
      BY <2>1
    <3> QED
      BY <2>1, <3>1, SumEmpty, FS_EmptySet
  <2>2. CASE T # {}
    <3>1. PICK d \in T : TRUE
      BY <2>2
    <3> DEFINE B == {a \in A : k[a] = d}
               C == {a \in A : k[a] \in T \ {d}}
    <3>2. SumOf(f, T \ {d}) = Cardinality(C)
      BY <1>1
    <3>3. \A x \in S : f[x] \in Int
      <4> SUFFICES ASSUME NEW x \in S PROVE f[x] \in Int
        OBVIOUS
      <4>1. {a \in A : k[a] = x} \in SUBSET A
        OBVIOUS
      <4>2. Cardinality({a \in A : k[a] = x}) \in Nat
        BY <1>0, <4>1
      <4> QED
        BY <1>4, <4>2
    <3>4. SumOf(f, T) = f[d] + SumOf(f, T \ {d})
      BY <3>3, SumWithout
    <3>5. f[d] = Cardinality(B)
      BY <1>4
    <3>6. {a \in A : k[a] \in T} = B \cup C /\ B \cap C = {}
      BY <3>1
    <3>7. IsFiniteSet(B) /\ IsFiniteSet(C) /\ Cardinality(B) \in Nat /\ Cardinality(C) \in Nat
      BY <1>0
    <3> HIDE DEF B, C
    <3>8. Cardinality(B \cup C) = Cardinality(B) + Cardinality(C) - Cardinality(B \cap C)
      BY <3>7, FS_Union
    <3>9. Cardinality(B \cap C) = 0
      BY <3>6, FS_EmptySet
    <3>10. Cardinality({a \in A : k[a] \in T}) = Cardinality(B \cup C)
      BY <3>6
    <3>11. Cardinality(B \cup C) = Cardinality(B) + Cardinality(C)
      BY <3>7, <3>8, <3>9
    <3> QED
      BY <3>2, <3>4, <3>5, <3>10, <3>11
  <2> QED
    BY <2>1, <2>2
<1>2. \A T \in SUBSET S : (\A U \in SUBSET T : U # T => U \in G) => T \in G
  BY <1>1
<1>3. SUBSET S \subseteq G
  <2> HIDE DEF G
  <2> QED
    BY <1>2, SubsetInduction
<1> QED
  BY <1>3 DEF Classed

(* A sum of zeros is zero. *)
LEMMA SumZero ==
  ASSUME NEW S, IsFiniteSet(S), NEW f, \A x \in S : f[x] = 0
  PROVE  SumOf(f, S) = 0
<1> DEFINE A == {}
<1>1. IsFiniteSet(A) /\ Cardinality(A) = 0
  BY FS_EmptySet
<1>2. \A T : Classed(A, f, T) = A /\ Class(A, f, T) = A
  BY DEF Class, Classed
<1> HIDE DEF A
<1>3. \A d \in S : f[d] = Cardinality(Class(A, f, d))
  BY <1>1, <1>2
<1>4. \A T \in SUBSET S : SumOf(f, T) = Cardinality(Classed(A, f, T))
  BY <1>1, <1>3, SumOfClasses
<1> QED
  BY <1>1, <1>2, <1>4

-----------------------------------------------------------------------------
(* The columns of a row. *)

(* The launches somebody made, without the automatic expulsions.           *)
Own(some) == {a \in some : ~a.auto}

(***************************************************************************)
(* At most two yellow cards and one red one each, and no red card after    *)
(* the second yellow: then the expulsions follow from them.                *)
(***************************************************************************)
FairCards(own) ==
  \A p \in Person :
    /\ Cardinality(Kinds(p, "yellow_card", own)) <= 2
    /\ Cardinality(Kinds(p, "red_card", own)) <= 1
    /\ Cardinality(Kinds(p, "yellow_card", own)) = 2 => Kinds(p, "red_card", own) = {}

CardsOK(some) ==
  /\ some \subseteq Launch
  /\ IsFiniteSet(some)
  /\ some = Synced(Own(some))
  /\ FairCards(Own(some))
  /\ \A a \in Own(some) : a.id \in Id
  /\ \A a, b \in Own(some) : a.id = b.id => a = b

(* ExpulsionsAreExact of one sheet. *)
Exact(some) ==
  \A p \in Person :
    LET yellows == Kinds(p, "yellow_card", some)
        reds    == Kinds(p, "red_card", some)
    IN /\ Cardinality(yellows) <= 2 /\ Cardinality(reds) <= 1
       /\ (\E a \in reds : a.auto) <=> Cardinality(yellows) = 2
       /\ \A a \in Of(p, some) : a.auto => a \in reds

AutoRed(p) == [id |-> p, kind |-> "red_card", person |-> p, auto |-> TRUE, keeper |-> Nobody]

-----------------------------------------------------------------------------
(* The two clubs, and whose player is who. *)
LEMMA TwoSides ==
  /\ \E s \in Side : TRUE
  /\ \A s \in Side : Other(s) \in Side /\ Other(s) # s /\ Other(Other(s)) = s
  /\ \A s, t \in Side : t = s \/ t = Other(s)
<1>1. PICK s \in Side : TRUE
  BY SideAssumption, FS_EmptySet
<1>2. IsFiniteSet(Side \ {s}) /\ Cardinality(Side \ {s}) = 1
  BY SideAssumption, FS_RemoveElement
<1>3. PICK t : Side \ {s} = {t}
  BY <1>2, FS_Singleton
<1>4. Side = {s, t} /\ s # t
  BY <1>1, <1>3
<1>5. \A u \in Side : Other(u) \in Side /\ Other(u) # u
  BY <1>4 DEF Other
<1> QED
  BY <1>4, <1>5

(* A player belongs to one club, and is a number other than Nobody.        *)
LEMMA Players ==
  /\ \A s \in Side : \A p \in Squad[s] : p \in Person /\ SideOf(p) = s
  /\ \A p \in Person : SideOf(p) \in Side /\ p \in Squad[SideOf(p)] /\ p \in Nat /\ p # Nobody
<1>1. \A s \in Side : \A p \in Squad[s] : p \in Person
  BY DEF Person
<1>2. \A p \in Person : \E s \in Side : p \in Squad[s]
  BY DEF Person
<1>3. \A s, t \in Side : \A p \in Squad[s] : p \in Squad[t] => s = t
  BY SquadAssumption
<1>4. \A p \in Person : SideOf(p) \in Side /\ p \in Squad[SideOf(p)]
  BY <1>2 DEF SideOf
<1>5. \A p \in Person : p \in Nat /\ p # Nobody
  BY <1>2, SquadAssumption
<1> QED
  BY <1>1, <1>3, <1>4, <1>5

(* There are finitely many players.                                        *)
LEMMA FewPlayers == IsFiniteSet(Person) /\ \A s \in Side : IsFiniteSet(Squad[s])
<1>1. PICK s \in Side : TRUE
  BY TwoSides
<1>2. Person = Squad[s] \cup Squad[Other(s)]
  BY <1>1, TwoSides DEF Person
<1>3. IsFiniteSet(Squad[s]) /\ IsFiniteSet(Squad[Other(s)])
  BY <1>1, TwoSides, SquadAssumption
<1> QED
  BY <1>2, <1>3, FS_Union, SquadAssumption

-----------------------------------------------------------------------------
(* Cards *)

(* Part of a finite set has no more elements than the whole.               *)
LEMMA Counted ==
  ASSUME NEW A, IsFiniteSet(A), NEW B \in SUBSET A
  PROVE  IsFiniteSet(B) /\ Cardinality(B) \in Nat /\ Cardinality(B) <= Cardinality(A)
BY FS_Subset, FS_CardinalityType

(* What the automatic expulsions add: nothing but red cards.               *)
LEMMA SyncAdds ==
  ASSUME NEW own, \A a \in own : ~a.auto
  PROVE  /\ Own(own) = own
         /\ Own(Synced(own)) = own
         /\ \A a \in Synced(own) : a \in own \/ \E p \in Person : a = AutoRed(p)
         /\ \A p, k : k # "red_card" => Kinds(p, k, Synced(own)) = Kinds(p, k, own)
         /\ \A p \in Person :
              Kinds(p, "red_card", Synced(own)) =
                Kinds(p, "red_card", own) \cup
                  IF Cardinality(Kinds(p, "yellow_card", own)) >= 2 /\ Kinds(p, "red_card", own) = {}
                  THEN {AutoRed(p)} ELSE {}
<1> DEFINE Out == {q \in Person : Cardinality(Kinds(q, "yellow_card", own)) >= 2 /\ Kinds(q, "red_card", own) = {}}
<1>1. {a \in own : ~a.auto} = own
  OBVIOUS
<1>2. Synced(own) = own \cup {AutoRed(p) : p \in Out}
  BY <1>1 DEF Synced, AutoRed
<1>3. \A p : AutoRed(p).auto /\ AutoRed(p).kind = "red_card" /\ AutoRed(p).person = p
  BY DEF AutoRed
<1>4. Own(Synced(own)) = own
  BY <1>1, <1>2, <1>3 DEF Own
<1>5. ASSUME NEW p, NEW k, k # "red_card" PROVE Kinds(p, k, Synced(own)) = Kinds(p, k, own)
  <2> HIDE DEF Out
  <2>1. \A a \in Synced(own) : a \in own \/ a.kind # k
    BY <1>2, <1>3, <1>5
  <2>2. own \subseteq Synced(own)
    BY <1>2
  <2> QED
    BY <2>1, <2>2 DEF Kinds, Of
<1>6. \A p \in Person : Kinds(p, "red_card", Synced(own)) =
        Kinds(p, "red_card", own) \cup (IF p \in Out THEN {AutoRed(p)} ELSE {})
  <2> SUFFICES ASSUME NEW p \in Person
               PROVE  Kinds(p, "red_card", Synced(own)) =
                        Kinds(p, "red_card", own) \cup (IF p \in Out THEN {AutoRed(p)} ELSE {})
    OBVIOUS
  <2> HIDE DEF Out
  <2> QED
    BY <1>2, <1>3 DEF Kinds, Of
<1> QED
  BY <1>1, <1>2, <1>4, <1>5, <1>6 DEF Own

(* With fair cards, synchronised expulsions are exact.                     *)
LEMMA SyncIsExact ==
  ASSUME NEW own, IsFiniteSet(own), \A a \in own : ~a.auto, FairCards(own)
  PROVE  Exact(Synced(own))
<1> SUFFICES ASSUME NEW p \in Person
             PROVE  LET yellows == Kinds(p, "yellow_card", Synced(own))
                        reds    == Kinds(p, "red_card", Synced(own))
                    IN /\ Cardinality(yellows) <= 2 /\ Cardinality(reds) <= 1
                       /\ (\E a \in reds : a.auto) <=> Cardinality(yellows) = 2
                       /\ \A a \in Of(p, Synced(own)) : a.auto => a \in reds
  BY DEF Exact
<1> DEFINE Y == Kinds(p, "yellow_card", own)
           R == Kinds(p, "red_card", own)
<1>1. Kinds(p, "yellow_card", Synced(own)) = Y
  BY SyncAdds
<1>2. Kinds(p, "red_card", Synced(own)) = R \cup IF Cardinality(Y) >= 2 /\ R = {} THEN {AutoRed(p)} ELSE {}
  BY SyncAdds
<1>3. Cardinality(Y) \in Nat /\ Cardinality(R) \in Nat
  <2>1. Y \in SUBSET own /\ R \in SUBSET own
    BY DEF Kinds, Of
  <2> HIDE DEF Y, R
  <2> QED
    BY <2>1, Counted
<1>4. Cardinality(Y) <= 2 /\ Cardinality(R) <= 1 /\ (Cardinality(Y) = 2 => R = {})
  BY DEF FairCards
<1>5. \A a \in R : ~a.auto
  BY DEF Kinds, Of
<1>6. AutoRed(p).auto
  BY DEF AutoRed
<1>7. \A a \in Of(p, Synced(own)) : a.auto => a \in Kinds(p, "red_card", Synced(own))
  <2> SUFFICES ASSUME NEW a \in Synced(own), a.person = p, a.auto PROVE a.kind = "red_card"
    BY DEF Kinds, Of
  <2> QED
    BY SyncAdds DEF AutoRed
<1> HIDE DEF Y, R
<1>8. Cardinality({AutoRed(p)}) = 1
  BY FS_Singleton
<1>9. CASE Cardinality(Y) = 2
  <2>1. Kinds(p, "red_card", Synced(own)) = {AutoRed(p)}
    BY <1>2, <1>4, <1>9
  <2> QED
    BY <1>1, <1>4, <1>6, <1>7, <1>8, <1>9, <2>1
<1>10. CASE Cardinality(Y) # 2
  <2>1. Kinds(p, "red_card", Synced(own)) = R
    BY <1>2, <1>3, <1>4, <1>10
  <2> QED
    BY <1>1, <1>3, <1>4, <1>5, <1>7, <1>10, <2>1
<1> QED
  BY <1>9, <1>10

(* The sheet that the server writes, from what is left or added.           *)
LEMMA SyncedOK ==
  ASSUME NEW own, own \subseteq Launch, IsFiniteSet(own), \A a \in own : ~a.auto /\ a.id \in Id,
         \A a, b \in own : a.id = b.id => a = b,
         FairCards(own)
  PROVE  CardsOK(Synced(own))
<1> DEFINE Out == {q \in Person : Cardinality(Kinds(q, "yellow_card", own)) >= 2 /\ Kinds(q, "red_card", own) = {}}
           Red == {AutoRed(p) : p \in Out}
<1>1. Own(Synced(own)) = own
  BY SyncAdds
<1>2. Synced(own) = own \cup Red
  <2>1. {a \in own : ~a.auto} = own
    OBVIOUS
  <2> QED
    BY <2>1 DEF Synced, AutoRed
<1>3. Synced(own) \subseteq Launch
  <2>1. \A p \in Person : AutoRed(p) \in Launch
    BY DEF AutoRed, Launch, Kind, Keeper
  <2> QED
    BY <1>2, <2>1
<1>4. IsFiniteSet(Red)
  <2> DEFINE f == [p \in Out |-> AutoRed(p)]
  <2>1. f \in Surjection(Out, Red)
    BY DEF Surjection
  <2>2. IsFiniteSet(Out)
    BY FewPlayers, FS_Subset
  <2> HIDE DEF f, Out, Red
  <2> QED
    BY <2>1, <2>2, FS_Surjection
<1>5. IsFiniteSet(Synced(own))
  <2> HIDE DEF Red
  <2>1. IsFiniteSet(own \cup Red)
    BY <1>4, FS_Union
  <2> QED
    BY <1>2, <2>1
<1> QED
  BY <1>1, <1>3, <1>5 DEF CardsOK

(* Automatic expulsions do not feed on automatic expulsions.               *)
LEMMA SyncOfOwn == \A some : Synced(some) = Synced(Own(some))
<1> SUFFICES ASSUME NEW some PROVE Synced(some) = Synced(Own(some))
  OBVIOUS
<1>1. {a \in Own(some) : ~a.auto} = {a \in some : ~a.auto}
  BY DEF Own
<1> QED
  BY <1>1 DEF Synced

(* Such a sheet has exactly the expulsions it should, and ids of its own.  *)
LEMMA CardsAreExact ==
  ASSUME NEW some, CardsOK(some)
  PROVE  /\ Exact(some)
         /\ \A a, b \in some : a.id = b.id => a = b
<1> DEFINE own == Own(some)
<1>1. /\ own \subseteq some /\ IsFiniteSet(own) /\ \A a \in own : ~a.auto
      /\ FairCards(own) /\ some = Synced(own)
      /\ \A a \in own : a.id \in Id
      /\ \A a, b \in own : a.id = b.id => a = b
  <2>1. own \in SUBSET some
    BY DEF Own
  <2>2. IsFiniteSet(own)
    BY <2>1, Counted DEF CardsOK
  <2> QED
    BY <2>1, <2>2 DEF CardsOK, Own
<1> HIDE DEF own
<1>2. Exact(some)
  BY <1>1, SyncIsExact
<1>3. \A a \in some : a \in own \/ (a.id \in Person /\ a = AutoRed(a.id))
  BY <1>1, SyncAdds DEF AutoRed
<1>4. \A a, b \in some : a.id = b.id => a = b
  BY <1>1, <1>3, IdAssumption
<1> QED
  BY <1>2, <1>4

(* A launch that is accepted leaves a proper sheet.                        *)
LEMMA AddedOK ==
  ASSUME NEW some, CardsOK(some), NEW new \in Launch, ~new.auto, new.id \in Id,
         \A a \in some : a.id # new.id,
         new.kind \in {"yellow_card", "red_card"} => ~Expelled(new.person, some)
  PROVE  CardsOK(Synced(some \cup {new}))
<1> DEFINE own == Own(some)
           own2 == own \cup {new}
<1>1. /\ own \subseteq some /\ IsFiniteSet(own) /\ \A a \in own : ~a.auto
      /\ FairCards(own) /\ some = Synced(own) /\ own \subseteq Launch
      /\ \A a \in own : a.id \in Id
      /\ \A a, b \in own : a.id = b.id => a = b
  <2>1. own \in SUBSET some
    BY DEF Own
  <2>2. IsFiniteSet(own)
    BY <2>1, Counted DEF CardsOK
  <2> QED
    BY <2>1, <2>2 DEF CardsOK, Own
<1>2. Own(some \cup {new}) = own2
  BY DEF Own
<1> HIDE DEF own
<1>3. FairCards(own2)
  <2> SUFFICES ASSUME NEW p \in Person
               PROVE  /\ Cardinality(Kinds(p, "yellow_card", own2)) <= 2
                      /\ Cardinality(Kinds(p, "red_card", own2)) <= 1
                      /\ Cardinality(Kinds(p, "yellow_card", own2)) = 2 => Kinds(p, "red_card", own2) = {}
    BY DEF FairCards
  <2> DEFINE Y == Kinds(p, "yellow_card", own)
             R == Kinds(p, "red_card", own)
  <2>1. /\ Cardinality(Y) \in Nat /\ IsFiniteSet(Y)
        /\ Cardinality(R) \in Nat /\ IsFiniteSet(R)
    <3>1. Y \in SUBSET own /\ R \in SUBSET own
      BY DEF Kinds, Of
    <3> HIDE DEF Y, R
    <3> QED
      BY <1>1, <3>1, Counted
  <2>2. Cardinality(Y) <= 2 /\ Cardinality(R) <= 1 /\ (Cardinality(Y) = 2 => R = {})
    BY <1>1 DEF FairCards
  <2>3. new \notin Y /\ new \notin R
    BY <1>1 DEF Kinds, Of
  <2>4. CASE new.person = p /\ new.kind = "yellow_card"
    <3>1. Kinds(p, "yellow_card", own2) = Y \cup {new} /\ Kinds(p, "red_card", own2) = R
      BY <2>4 DEF Kinds, Of
    <3>2. Kinds(p, "yellow_card", some) = Y /\ R \subseteq Kinds(p, "red_card", some)
      <4>1. R \subseteq Kinds(p, "red_card", some)
        BY <1>1 DEF Kinds, Of
      <4> QED
        BY <1>1, <4>1, SyncAdds
    <3>3. ~Expelled(p, some)
      BY <2>4
    <3>4. R = {} /\ ~(Cardinality(Y) >= 2)
      BY <3>2, <3>3 DEF Expelled
    <3> HIDE DEF Y, R
    <3>5. Cardinality(Y \cup {new}) = Cardinality(Y) + 1
      BY <2>1, <2>3, FS_AddElement
    <3>6. Cardinality(R) = 0
      BY <3>4, FS_EmptySet
    <3>7. Cardinality(Y \cup {new}) <= 2
      BY <2>1, <3>4, <3>5
    <3> HIDE DEF own2
    <3> QED
      BY <3>1, <3>4, <3>6, <3>7
  <2>5. CASE new.person = p /\ new.kind = "red_card"
    <3>1. Kinds(p, "red_card", own2) = R \cup {new} /\ Kinds(p, "yellow_card", own2) = Y
      BY <2>5 DEF Kinds, Of
    <3>2. Kinds(p, "yellow_card", some) = Y /\ R \subseteq Kinds(p, "red_card", some)
      <4>1. R \subseteq Kinds(p, "red_card", some)
        BY <1>1 DEF Kinds, Of
      <4> QED
        BY <1>1, <4>1, SyncAdds
    <3>3. ~Expelled(p, some)
      BY <2>5
    <3>4. R = {} /\ ~(Cardinality(Y) >= 2)
      BY <3>2, <3>3 DEF Expelled
    <3> HIDE DEF Y, R
    <3>5. Cardinality(R \cup {new}) = 1
      BY <3>4, FS_Singleton
    <3> QED
      BY <2>1, <3>1, <3>4, <3>5
  <2>6. CASE new.person # p \/ new.kind \notin {"yellow_card", "red_card"}
    <3>1. Kinds(p, "yellow_card", own2) = Y /\ Kinds(p, "red_card", own2) = R
      BY <2>6 DEF Kinds, Of
    <3> QED
      BY <2>2, <3>1
  <2> QED
    BY <2>4, <2>5, <2>6
<1>4. IsFiniteSet(own2)
  BY <1>1, FS_AddElement
<1>5. /\ own2 \subseteq Launch /\ \A a \in own2 : ~a.auto /\ a.id \in Id
      /\ \A a, b \in own2 : a.id = b.id => a = b
  BY <1>1
<1> HIDE DEF own2
<1>6. CardsOK(Synced(own2))
  BY <1>3, <1>4, <1>5, SyncedOK
<1> QED
  BY <1>2, <1>6, SyncOfOwn

(* So does the removal of one.                                             *)
LEMMA RemovedOK ==
  ASSUME NEW some, CardsOK(some), NEW id
  PROVE  CardsOK(Synced({a \in some : a.id # id}))
<1> DEFINE own == Own(some)
           own2 == Own({a \in some : a.id # id})
<1>1. /\ own2 \subseteq own /\ own \subseteq some
      /\ IsFiniteSet(own) /\ FairCards(own)
  <2>1. own \in SUBSET some /\ own2 \subseteq own
    BY DEF Own
  <2>2. IsFiniteSet(own)
    BY <2>1, Counted DEF CardsOK
  <2> QED
    BY <2>1, <2>2 DEF CardsOK
<1>2. /\ own2 \subseteq Launch /\ \A a \in own2 : ~a.auto /\ a.id \in Id
      /\ \A a, b \in own2 : a.id = b.id => a = b
  BY <1>1 DEF CardsOK, Own
<1> HIDE DEF own, own2
<1>3. IsFiniteSet(own2)
  BY <1>1, Counted
<1>4. FairCards(own2)
  <2> SUFFICES ASSUME NEW p \in Person
               PROVE  /\ Cardinality(Kinds(p, "yellow_card", own2)) <= 2
                      /\ Cardinality(Kinds(p, "red_card", own2)) <= 1
                      /\ Cardinality(Kinds(p, "yellow_card", own2)) = 2 => Kinds(p, "red_card", own2) = {}
    BY DEF FairCards
  <2> DEFINE Y == Kinds(p, "yellow_card", own)
             R == Kinds(p, "red_card", own)
             Y2 == Kinds(p, "yellow_card", own2)
             R2 == Kinds(p, "red_card", own2)
  <2>1. Y2 \in SUBSET Y /\ R2 \in SUBSET R /\ Y \in SUBSET own /\ R \in SUBSET own
    BY <1>1 DEF Kinds, Of
  <2>2. Cardinality(Y) <= 2 /\ Cardinality(R) <= 1 /\ (Cardinality(Y) = 2 => R = {})
    BY <1>1 DEF FairCards
  <2> HIDE DEF Y, R, Y2, R2
  <2>3. /\ IsFiniteSet(Y) /\ IsFiniteSet(R) /\ Cardinality(Y) \in Nat /\ Cardinality(R) \in Nat
    BY <1>1, <2>1, Counted
  <2>4. /\ Cardinality(Y2) \in Nat /\ Cardinality(Y2) <= Cardinality(Y)
        /\ Cardinality(R2) \in Nat /\ Cardinality(R2) <= Cardinality(R)
    BY <2>1, <2>3, Counted
  <2> QED
    BY <2>1, <2>2, <2>3, <2>4 DEF Y2, R2
<1>5. CardsOK(Synced(own2))
  BY <1>2, <1>3, <1>4, SyncedOK
<1> QED
  BY <1>5, SyncOfOwn DEF own2

(* And the empty sheet, which is what a walkover leaves, is proper.        *)
LEMMA EmptySheetOK == CardsOK({})
<1>1. Synced({}) = {} /\ Own({}) = {}
  <2>1. \A p \in Person : Kinds(p, "yellow_card", {}) = {}
    BY DEF Kinds, Of
  <2>2. \A p \in Person : ~(Cardinality(Kinds(p, "yellow_card", {})) >= 2)
    BY <2>1, FS_EmptySet
  <2>3. {a \in {} : ~a.auto} = {}
    OBVIOUS
  <2> QED
    BY <2>2, <2>3 DEF Synced, Own
<1>2. FairCards({})
  <2>1. \A p \in Person, k \in Kind : Kinds(p, k, {}) = {}
    BY DEF Kinds, Of
  <2> QED
    BY <2>1, FS_EmptySet DEF FairCards, Kind
<1> QED
  BY <1>1, <1>2, FS_EmptySet DEF CardsOK

-----------------------------------------------------------------------------
(* Goalkeepers: the columns of a row that say who keeps the goal, and since *)
(* when.                                                                   *)
KeepersOK(kp, hi) ==
  /\ kp \in [Side -> Keeper]
  /\ \A s \in Side : kp[s] \in Squad[s] \cup {Nobody}
  /\ hi \in [Side -> Seq(Keeper)]
  /\ \/ \A s \in Side : hi[s] = <<>>
     \/ \A s \in Side : hi[s] # <<>> /\ hi[s][Len(hi[s])] = kp[s]

(* Each goal of the sheet is charged to somebody of the history.           *)
DutyOK(some, hi) ==
  \A s \in Side : \A a \in some :
    Against(a, s) =>
      /\ a.keeper \in Squad[s] \cup {Nobody}
      /\ \E i \in DOMAIN hi[s] : hi[s][i] = a.keeper

(* A match that was decided without being played has no sheet and no       *)
(* history; any other has a history from when it began.                    *)
BegunOK(some, hi, st, wo, decided) ==
  /\ wo => decided /\ some = {} /\ \A s \in Side : hi[s] = <<>>
  /\ ~wo => (st <=> \A s \in Side : hi[s] # <<>>)
  /\ some # {} => st
  /\ decided /\ ~wo => st

(* What a result must agree with.                                          *)
Agrees(some, hi, sc, co, sta) ==
  /\ co => AddsUp(sta, sc)
  /\ some # {} => co /\ sta = FromSheet(some) /\ sc = ScoreOfSheet(some)
  /\ some = {} => \A s \in Side : Cardinality({hi[s][i] : i \in DOMAIN hi[s]}) > 1 => sc[Other(s)] = 0

ResultOK(some, hi, sc, wo, co, sta) ==
  /\ sta \in [Person -> Tally]
  /\ sc # Undecided => sc \in [Side -> Nat]
  /\ sc # Undecided /\ ~wo => Agrees(some, hi, sc, co, sta)

(* Columns of Begun(m). *)
BegunOf(kp, hi) == IF \A s \in Side : hi[s] = <<>> THEN [s \in Side |-> <<kp[s]>>] ELSE hi

(* Starting the histories of the keepers keeps them right.                 *)
LEMMA BeginningOK ==
  ASSUME NEW kp, NEW hi, KeepersOK(kp, hi)
  PROVE  /\ KeepersOK(kp, BegunOf(kp, hi))
         /\ \A s \in Side : BegunOf(kp, hi)[s] # <<>>
         /\ \A some : DutyOK(some, hi) => DutyOK(some, BegunOf(kp, hi))
<1>1. CASE \A s \in Side : hi[s] = <<>>
  <2> DEFINE b == [s \in Side |-> <<kp[s]>>]
  <2>1. BegunOf(kp, hi) = b
    BY <1>1 DEF BegunOf
  <2>2. \A s \in Side : kp[s] \in Keeper
    BY DEF KeepersOK
  <2>3. \A s \in Side : b[s] # <<>> /\ b[s] \in Seq(Keeper) /\ Len(b[s]) = 1 /\ b[s][1] = kp[s]
    BY <2>2
  <2>4. KeepersOK(kp, b)
    <3>1. b \in [Side -> Seq(Keeper)]
      BY <2>3
    <3> HIDE DEF b
    <3> QED
      BY <2>3, <3>1 DEF KeepersOK
  <2>5. ASSUME NEW some, DutyOK(some, hi) PROVE DutyOK(some, b)
    <3>1. \A s \in Side : \A a \in some : ~Against(a, s)
      BY <1>1, <2>5 DEF DutyOK
    <3> QED
      BY <3>1 DEF DutyOK
  <2> QED
    BY <2>1, <2>3, <2>4, <2>5
<1>2. CASE ~ \A s \in Side : hi[s] = <<>>
  BY <1>2 DEF BegunOf, KeepersOK
<1> QED
  BY <1>1, <1>2

(* What a launch goes against is one club: by the kind and the person.     *)
LEMMA OneSide ==
  ASSUME NEW a, a.person \in Person
  PROVE  \A s, t \in Side : Against(a, s) /\ Against(a, t) => s = t
<1>1. \A s, t \in Side : s # SideOf(a.person) /\ t # SideOf(a.person) => s = t
  BY TwoSides, Players
<1> QED
  BY <1>1 DEF Against

(* Automatic expulsions go against nobody. *)
LEMMA DutySynced ==
  ASSUME NEW some, NEW hi, DutyOK(some, hi)
  PROVE  DutyOK(Synced(some), hi)
<1>1. \A a \in Synced(some) : a \in some \/ \A s : ~Against(a, s)
  <2>1. \A a \in Own(some) : a \in some /\ ~a.auto
    BY DEF Own
  <2>2. \A a \in Synced(some) : a \in Own(some) \/ \E p \in Person : a = AutoRed(p)
    <3>1. Own(Own(some)) = Own(some) /\ Synced(some) = Synced(Own(some))
      BY <2>1, SyncAdds, SyncOfOwn
    <3> QED
      BY <2>1, <3>1, SyncAdds
  <2> QED
    BY <2>1, <2>2 DEF Against, AutoRed
<1> QED
  BY <1>1 DEF DutyOK

(* A launch whose keeper is the one in charge keeps the duties right.      *)
LEMMA DutyAdded ==
  ASSUME NEW kp, NEW hi, KeepersOK(kp, hi), \A s \in Side : hi[s] # <<>>,
         NEW some, DutyOK(some, hi),
         NEW new, \A s \in Side : Against(new, s) => new.keeper = kp[s]
  PROVE  DutyOK(Synced(some \cup {new}), hi)
<1>1. \A s \in Side : hi[s] \in Seq(Keeper) /\ hi[s] # <<>> /\ hi[s][Len(hi[s])] = kp[s] /\ kp[s] \in Squad[s] \cup {Nobody}
  BY DEF KeepersOK
<1>2. \A s \in Side : Len(hi[s]) \in DOMAIN hi[s]
  BY <1>1
<1>3. DutyOK(some \cup {new}, hi)
  BY <1>1, <1>2 DEF DutyOK
<1> QED
  BY <1>3, DutySynced

(* What the history of a club becomes of a change.                         *)
Relief(h, old, new) == IF new # old THEN Append(h, new) ELSE h

(* A keeper who comes in is added to the history; nobody leaves it.        *)
LEMMA StintOK ==
  ASSUME NEW kp, NEW hi, KeepersOK(kp, hi), \A s \in Side : hi[s] # <<>>,
         NEW kp2 \in [Side -> Keeper], \A s \in Side : kp2[s] \in Squad[s] \cup {Nobody},
         NEW hi2, hi2 = [s \in Side |-> hi2[s]],
         \A s \in Side : hi2[s] = Relief(hi[s], kp[s], kp2[s])
  PROVE  /\ KeepersOK(kp2, hi2)
         /\ \A s \in Side : hi2[s] # <<>>
         /\ \A some : DutyOK(some, hi) => DutyOK(some, hi2)
<1>1. ASSUME NEW s \in Side
      PROVE  /\ hi2[s] \in Seq(Keeper) /\ hi2[s] # <<>> /\ hi2[s][Len(hi2[s])] = kp2[s]
             /\ \A i \in DOMAIN hi[s] : i \in DOMAIN hi2[s] /\ hi2[s][i] = hi[s][i]
  <2>1. hi[s] \in Seq(Keeper) /\ hi[s] # <<>> /\ hi[s][Len(hi[s])] = kp[s] /\ kp2[s] \in Keeper
    BY DEF KeepersOK
  <2>2. CASE kp2[s] = kp[s]
    BY <2>1, <2>2 DEF Relief
  <2>3. CASE kp2[s] # kp[s]
    <3> DEFINE h == Append(hi[s], kp2[s])
    <3>1. hi2[s] = h
      BY <2>3 DEF Relief
    <3>2. /\ h \in Seq(Keeper) /\ Len(h) = Len(hi[s]) + 1
          /\ \A i \in 1 .. Len(hi[s]) : h[i] = hi[s][i]
          /\ h[Len(hi[s]) + 1] = kp2[s]
      BY <2>1, AppendProperties
    <3>3. Len(hi[s]) \in Nat /\ DOMAIN hi[s] = 1 .. Len(hi[s])
      BY <2>1
    <3> HIDE DEF h
    <3>4. DOMAIN h = 1 .. Len(h) /\ h # <<>>
      BY <3>2, <3>3
    <3>5. h[Len(h)] = kp2[s]
      BY <3>2, <3>3
    <3>6. \A i \in DOMAIN hi[s] : i \in DOMAIN h /\ h[i] = hi[s][i]
      BY <3>2, <3>3, <3>4
    <3> QED
      BY <3>1, <3>2, <3>4, <3>5, <3>6
  <2> QED
    BY <2>2, <2>3
<1>2. KeepersOK(kp2, hi2)
  <2>1. hi2 \in [Side -> Seq(Keeper)]
    BY <1>1
  <2> QED
    BY <1>1, <2>1 DEF KeepersOK
<1>3. ASSUME NEW some, DutyOK(some, hi) PROVE DutyOK(some, hi2)
  <2> QED
    BY <1>1, <1>3 DEF DutyOK
<1> QED
  BY <1>1, <1>2, <1>3

-----------------------------------------------------------------------------
(* The inductive invariant *)

Columns ==
  /\ sheet \in [Match -> SUBSET Launch]
  /\ keeper \in [Match -> [Side -> Keeper]]
  /\ history \in [Match -> [Side -> Seq(Keeper)]]
  /\ started \in [Match -> BOOLEAN] /\ walkover \in [Match -> BOOLEAN] /\ complete \in [Match -> BOOLEAN]
  /\ score \in [Match -> [Side -> Int]]
  /\ stats \in [Match -> [Person -> Tally]]

Row(m) ==
  /\ CardsOK(sheet[m])
  /\ KeepersOK(keeper[m], history[m])
  /\ DutyOK(sheet[m], history[m])
  /\ BegunOK(sheet[m], history[m], started[m], walkover[m], ~Open(m))
  /\ ResultOK(sheet[m], history[m], score[m], walkover[m], complete[m], stats[m])

(* Trophies are given once, with the edition's end, and nothing changes    *)
(* after it.                                                               *)
EditionOK ==
  /\ banned \subseteq Side
  /\ champion \in Side \cup {NoClub}
  /\ champion = NoClub => awards = {}
  /\ champion # NoClub => champion \notin banned /\ awards = Awarded

SheetInv == Columns /\ (\A m \in Match : Row(m)) /\ EditionOK

(* A row that is not written stays as it should be. *)
LEMMA SameRow ==
  ASSUME NEW m \in Match, Row(m),
         sheet'[m] = sheet[m], keeper'[m] = keeper[m], history'[m] = history[m], started'[m] = started[m],
         score'[m] = score[m], walkover'[m] = walkover[m], complete'[m] = complete[m], stats'[m] = stats[m]
  PROVE  Row(m)'
BY DEF Row, Open

(* Nor does one to which a request does not apply.                         *)
LEMMA SameEdition ==
  ASSUME EditionOK, champion = NoClub, UNCHANGED editionVars
  PROVE  EditionOK'
BY DEF EditionOK, editionVars

(* What begins a match is the same function of its columns.                *)
LEMMA Started ==
  ASSUME NEW m \in Match, Row(m)
  PROVE  Begun(m) = BegunOf(keeper[m], history[m])
BY DEF Begun, BegunOf

(* What is written of a launch: its keeper is the one in charge.           *)
LEMMA DutyOf ==
  ASSUME Columns, NEW m \in Match, NEW id \in Id, NEW k \in Kind, NEW p \in Person
  PROVE  /\ OnDuty(m, id, k, p) \in Launch
         /\ OnDuty(m, id, k, p).id = id /\ OnDuty(m, id, k, p).kind = k
         /\ OnDuty(m, id, k, p).person = p /\ ~OnDuty(m, id, k, p).auto
         /\ \A s \in Side : Against(OnDuty(m, id, k, p), s) => OnDuty(m, id, k, p).keeper = keeper[m][s]
<1> DEFINE a == [id |-> id, kind |-> k, person |-> p, auto |-> FALSE, keeper |-> Nobody]
           kp == IF \E s \in Side : Against(a, s) THEN keeper[m][CHOOSE s \in Side : Against(a, s)] ELSE Nobody
           new == [id |-> id, kind |-> k, person |-> p, auto |-> FALSE, keeper |-> kp]
<1>1. OnDuty(m, id, k, p) = new
  <2>1. OnDuty(m, id, k, p) = [a EXCEPT !.keeper = kp]
    BY Zenon DEF OnDuty
  <2> HIDE DEF kp
  <2> QED
    BY <2>1
<1>2. \A s : Against(new, s) <=> Against(a, s)
  BY DEF Against
<1>3. ASSUME NEW s \in Side, Against(a, s) PROVE kp = keeper[m][s]
  <2>1. (CHOOSE t \in Side : Against(a, t)) \in Side /\ Against(a, CHOOSE t \in Side : Against(a, t))
    BY <1>3
  <2>2. a.person \in Person
    OBVIOUS
  <2> HIDE DEF a
  <2>3. (CHOOSE t \in Side : Against(a, t)) = s
    BY <1>3, <2>1, <2>2, OneSide
  <2> QED
    BY <1>3, <2>3
<1>4. kp \in Keeper
  <2>1. CASE \E s \in Side : Against(a, s)
    <3>1. \A s \in Side : keeper[m][s] \in Keeper
      BY DEF Columns
    <3> HIDE DEF kp, a
    <3> QED
      BY <1>3, <2>1, <3>1
  <2>2. CASE ~ \E s \in Side : Against(a, s)
    BY <2>2 DEF Keeper
  <2> QED
    BY <2>1, <2>2
<1>5. new \in Launch
  <2> HIDE DEF kp
  <2> QED
    BY <1>4 DEF Launch
<1>6. \A s \in Side : Against(new, s) => new.keeper = keeper[m][s]
  <2>1. new.keeper = kp
    OBVIOUS
  <2> HIDE DEF kp, a, new
  <2> QED
    BY <1>2, <1>3, <2>1
<1> HIDE DEF kp, a
<1>7. new.id = id /\ new.kind = k /\ new.person = p /\ ~new.auto
  OBVIOUS
<1> HIDE DEF new
<1> QED
  BY <1>1, <1>5, <1>6, <1>7

-----------------------------------------------------------------------------
(* The requests for a sheet *)

(* A row that is still open, written with columns that are as they should  *)
(* be, leaves everything as it should be.                                  *)
LEMMA RowWritten ==
  ASSUME SheetInv, NEW m \in Match, Editable(m),
         NEW sh, NEW kp, NEW hi, NEW st \in BOOLEAN,
         sheet' = [sheet EXCEPT ![m] = sh], keeper' = [keeper EXCEPT ![m] = kp],
         history' = [history EXCEPT ![m] = hi], started' = [started EXCEPT ![m] = st],
         UNCHANGED <<resultVars, editionVars>>,
         CardsOK(sh), KeepersOK(kp, hi), DutyOK(sh, hi),
         st <=> \A s \in Side : hi[s] # <<>>, sh # {} => st
  PROVE  SheetInv'
<1>0. Columns /\ (\A n \in Match : Row(n)) /\ EditionOK
  BY DEF SheetInv
<1>1. Columns'
  <2>1. sh \subseteq Launch /\ kp \in [Side -> Keeper] /\ hi \in [Side -> Seq(Keeper)]
    BY DEF CardsOK, KeepersOK
  <2> QED
    BY <1>0, <2>1 DEF Columns, resultVars
<1>2. /\ sheet'[m] = sh /\ keeper'[m] = kp /\ history'[m] = hi /\ started'[m] = st
      /\ \A n \in Match : n # m => sheet'[n] = sheet[n] /\ keeper'[n] = keeper[n] /\ history'[n] = history[n]
                                   /\ started'[n] = started[n]
      /\ score' = score /\ walkover' = walkover /\ complete' = complete /\ stats' = stats
  BY <1>0 DEF Columns, resultVars
<1>3. Row(m)'
  <2>1. score[m] = Undecided /\ ~walkover[m]
    BY <1>0 DEF Editable, Open, Row, BegunOK, Columns
  <2>2. BegunOK(sh, hi, st, walkover[m], ~(score[m] = Undecided))
    BY <2>1 DEF BegunOK
  <2>3. ResultOK(sh, hi, score[m], walkover[m], complete[m], stats[m])
    BY <1>0, <2>1 DEF ResultOK, Columns
  <2> QED
    BY <1>2, <2>2, <2>3 DEF Row, Open
<1>4. \A n \in Match : Row(n)'
  BY <1>0, <1>2, <1>3, SameRow
<1>5. EditionOK'
  BY <1>0, SameEdition DEF Editable
<1> QED
  BY <1>1, <1>4, <1>5 DEF SheetInv

(* Somebody launches. *)
LEMMA AddStep ==
  ASSUME SheetInv, NEW m \in Match, NEW id \in Id, NEW k \in Kind, NEW p \in Person, AddAction(m, id, k, p)
  PROVE  SheetInv'
<1> DEFINE new == OnDuty(m, id, k, p)
           b == BegunOf(keeper[m], history[m])
<1>0. Columns /\ Row(m)
  BY DEF SheetInv
<1>1. /\ new.id = id /\ new.kind = k /\ new.person = p /\ ~new.auto
      /\ new \in Launch
      /\ \A s \in Side : Against(new, s) => new.keeper = keeper[m][s]
  BY <1>0, DutyOf
<1>2. /\ Editable(m) /\ \A a \in sheet[m] : a.id # id
      /\ k \in {"yellow_card", "red_card"} => ~Expelled(p, sheet[m])
      /\ sheet' = [sheet EXCEPT ![m] = Synced(@ \cup {new})]
      /\ history' = [history EXCEPT ![m] = b]
      /\ started' = [started EXCEPT ![m] = TRUE]
      /\ UNCHANGED <<keeper, resultVars, editionVars>>
  BY <1>0, Started DEF AddAction, Launched
<1> HIDE DEF new
<1>3. CardsOK(Synced(sheet[m] \cup {new}))
  BY <1>0, <1>1, <1>2, AddedOK DEF Row
<1>4. KeepersOK(keeper[m], b) /\ (\A s \in Side : b[s] # <<>>) /\ DutyOK(sheet[m], b)
  BY <1>0, BeginningOK DEF Row
<1> HIDE DEF b
<1>5. DutyOK(Synced(sheet[m] \cup {new}), b)
  BY <1>1, <1>4, DutyAdded
<1>6. keeper' = [keeper EXCEPT ![m] = keeper[m]]
  BY <1>0, <1>2 DEF Columns
<1> QED
  BY <1>2, <1>3, <1>4, <1>5, <1>6, RowWritten

(* Somebody takes a launch back. *)
LEMMA RemoveStep ==
  ASSUME SheetInv, NEW m \in Match, NEW id \in Id, RemoveAction(m, id)
  PROVE  SheetInv'
<1> DEFINE left == {a \in sheet[m] : a.id # id}
<1>0. Columns /\ Row(m) /\ score[m] = Undecided /\ Editable(m)
  BY DEF SheetInv, RemoveAction, Editable, Open
<1>1. sheet' = [sheet EXCEPT ![m] = Synced(left)] /\ sheet[m] # {}
  BY DEF RemoveAction
<1>2. UNCHANGED <<keeper, history, started, resultVars, editionVars>>
  BY DEF RemoveAction
<1>3. CardsOK(Synced(left))
  BY <1>0, RemovedOK DEF Row
<1>4. DutyOK(Synced(left), history[m])
  <2>1. DutyOK(left, history[m])
    BY <1>0 DEF Row, DutyOK
  <2> QED
    BY <2>1, DutySynced
<1> HIDE DEF left
<1>5. started[m] \in BOOLEAN /\ started[m] /\ (started[m] <=> \A s \in Side : history[m][s] # <<>>)
  BY <1>0, <1>1 DEF Row, BegunOK, Columns, Open
<1>6. /\ keeper' = [keeper EXCEPT ![m] = keeper[m]] /\ history' = [history EXCEPT ![m] = history[m]]
      /\ started' = [started EXCEPT ![m] = started[m]]
  BY <1>0, <1>2 DEF Columns
<1>7. KeepersOK(keeper[m], history[m])
  BY <1>0 DEF Row
<1> QED
  BY <1>0, <1>1, <1>2, <1>3, <1>4, <1>5, <1>6, <1>7, RowWritten

(* The match begins. *)
LEMMA KickoffStep ==
  ASSUME SheetInv, NEW m \in Match, KickoffMatch(m)
  PROVE  SheetInv'
<1> DEFINE b == BegunOf(keeper[m], history[m])
<1>0. Columns /\ Row(m)
  BY DEF SheetInv
<1>1. /\ Editable(m)
      /\ history' = [history EXCEPT ![m] = b] /\ started' = [started EXCEPT ![m] = TRUE]
      /\ UNCHANGED <<sheet, keeper, resultVars, editionVars>>
  BY <1>0, Started DEF KickoffMatch
<1>2. KeepersOK(keeper[m], b) /\ (\A s \in Side : b[s] # <<>>) /\ DutyOK(sheet[m], b) /\ CardsOK(sheet[m])
  BY <1>0, BeginningOK DEF Row
<1> HIDE DEF b
<1>3. keeper' = [keeper EXCEPT ![m] = keeper[m]] /\ sheet' = [sheet EXCEPT ![m] = sheet[m]]
  BY <1>0, <1>1 DEF Columns
<1> QED
  BY <1>1, <1>2, <1>3, RowWritten

(***************************************************************************)
(* Goalkeepers change: before the match nothing is remembered of it, in    *)
(* the match each change is a stint more.                                  *)
(***************************************************************************)
LEMMA KeeperStep ==
  ASSUME SheetInv, NEW m \in Match, NEW some \in SUBSET Side, NEW f \in [some -> Keeper], SetGoalkeepers(m, f)
  PROVE  SheetInv'
<1> DEFINE kp2 == [s \in Side |-> IF s \in DOMAIN f THEN f[s] ELSE keeper[m][s]]
           b == BegunOf(keeper[m], history[m])
           hi2 == [s \in Side |-> IF kp2[s] # keeper[m][s] THEN Append(b[s], kp2[s]) ELSE b[s]]
<1>0. Columns /\ Row(m) /\ Editable(m)
  BY DEF SheetInv, SetGoalkeepers
<1>1. /\ keeper' = [keeper EXCEPT ![m] = kp2]
      /\ history' = IF started[m] THEN [history EXCEPT ![m] = Stint(m, f)] ELSE history
      /\ UNCHANGED <<sheet, started, resultVars, editionVars>>
  BY DEF SetGoalkeepers
<1>2. Stint(m, f) = hi2
  <2>1. \A s \in Side : s \in Changed(m, f) <=> kp2[s] # keeper[m][s]
    BY DEF Changed
  <2>2. \A s \in Side : s \in Changed(m, f) => f[s] = kp2[s]
    BY DEF Changed
  <2> HIDE DEF kp2, b
  <2> QED
    BY <1>0, <2>1, <2>2, Started DEF Stint, b
<1>3. kp2 \in [Side -> Keeper] /\ \A s \in Side : kp2[s] \in Squad[s] \cup {Nobody}
  <2> SUFFICES ASSUME NEW s \in Side PROVE kp2[s] \in Squad[s] \cup {Nobody} /\ kp2[s] \in Keeper
    OBVIOUS
  <2>1. keeper[m][s] \in Squad[s] \cup {Nobody} /\ keeper[m][s] \in Keeper
    BY <1>0 DEF Row, KeepersOK
  <2>2. CASE s \in DOMAIN f
    BY <2>1, <2>2 DEF SetGoalkeepers, Changed
  <2>3. CASE s \notin DOMAIN f
    BY <2>1, <2>3
  <2> QED
    BY <2>2, <2>3
<1>4. score[m] = Undecided /\ ~walkover[m] /\ started[m] \in BOOLEAN
  BY <1>0 DEF Editable, Open, Row, BegunOK, Columns
<1>5. /\ CardsOK(sheet[m]) /\ KeepersOK(keeper[m], history[m]) /\ DutyOK(sheet[m], history[m])
      /\ started[m] <=> \A s \in Side : history[m][s] # <<>>
      /\ sheet[m] # {} => started[m]
  BY <1>0, <1>4 DEF Row, BegunOK
<1>6. KeepersOK(keeper[m], b) /\ (\A s \in Side : b[s] # <<>>) /\ DutyOK(sheet[m], b)
  BY <1>5, BeginningOK
<1>7. started' = [started EXCEPT ![m] = started[m]] /\ sheet' = [sheet EXCEPT ![m] = sheet[m]]
  BY <1>0, <1>1 DEF Columns
<1>8. CASE started[m]
  <2> HIDE DEF b, kp2
  <2>0. /\ hi2 = [s \in Side |-> hi2[s]]
        /\ \A s \in Side : hi2[s] = Relief(b[s], keeper[m][s], kp2[s])
    BY DEF Relief
  <2> HIDE DEF hi2
  <2>1. KeepersOK(kp2, hi2) /\ (\A s \in Side : hi2[s] # <<>>) /\ DutyOK(sheet[m], hi2)
    BY <1>3, <1>6, <2>0, StintOK
  <2>2. history' = [history EXCEPT ![m] = hi2]
    BY <1>1, <1>2, <1>8
  <2> QED
    BY <1>0, <1>1, <1>4, <1>5, <1>7, <1>8, <2>1, <2>2, RowWritten
<1>9. CASE ~started[m]
  <2> HIDE DEF b, hi2, kp2
  <2>1. \A s \in Side : history[m][s] = <<>>
    BY <1>5, <1>9 DEF KeepersOK
  <2>2. KeepersOK(kp2, history[m])
    BY <1>3, <1>5, <2>1 DEF KeepersOK
  <2>3. history' = [history EXCEPT ![m] = history[m]]
    BY <1>0, <1>1, <1>9 DEF Columns
  <2> QED
    BY <1>0, <1>1, <1>4, <1>5, <1>7, <1>9, <2>2, <2>3, RowWritten
<1> QED
  BY <1>4, <1>8, <1>9

-----------------------------------------------------------------------------
(***************************************************************************)
(* Results.  The folds of the model are the sums of Sums: TotalIsSum and   *)
(* its likes say so of each, by the equation of the fold.                  *)
(***************************************************************************)
LEMMA TotalIsSum ==
  ASSUME NEW f, NEW s, NEW t
  PROVE  Total(f, s, t) = SumOf([p \in Squad[s] |-> t[p][f]], Squad[s])
<1> DEFINE S == Squad[s]
           g == [p \in S |-> t[p][f]]
           P(h) == h = [T \in SUBSET S |-> IF T = {} THEN 0 ELSE t[Pick(T)][f] + h[T \ {Pick(T)}]]
<1>1. Total(f, s, t) = (CHOOSE h : P(h))[S]
  BY DEF Total, MapThenSumSet, MapThenFoldSet, Pick
<1>2. SumOf(g, S) = (CHOOSE h : IsFold(h, g, S))[S]
  BY SumIsFold
<1>3. \A h : P(h) <=> IsFold(h, g, S)
  <2>1. \A T \in SUBSET S : T # {} => g[Pick(T)] = t[Pick(T)][f]
    BY DEF Pick
  <2>2. \A h : [T \in SUBSET S |-> IF T = {} THEN 0 ELSE t[Pick(T)][f] + h[T \ {Pick(T)}]]
             = [T \in SUBSET S |-> IF T = {} THEN 0 ELSE g[Pick(T)] + h[T \ {Pick(T)}]]
    <3> HIDE DEF g
    <3> QED
      BY <2>1
  <2> HIDE DEF g
  <2> QED
    BY <2>2, Zenon DEF IsFold
<1>4. (CHOOSE h : P(h)) = (CHOOSE h : IsFold(h, g, S))
  <2> HIDE DEF P
  <2> QED
    BY <1>3, Zenon
<1> QED
  BY <1>1, <1>2, <1>4

(* Nothing adds up to nothing. *)
LEMMA NobodyScored ==
  ASSUME NEW t, t = [p \in Person |-> NoTally], NEW s \in Side,
         NEW f \in {"goals", "assists", "own_goals"}
  PROVE  Total(f, s, t) = 0
<1> DEFINE g == [p \in Squad[s] |-> t[p][f]]
<1>1. \A p \in Squad[s] : p \in Person
  BY Players
<1>2. \A p \in Squad[s] : g[p] = 0
  BY <1>1 DEF NoTally
<1>3. Total(f, s, t) = SumOf(g, Squad[s])
  BY TotalIsSum
<1> HIDE DEF g
<1> QED
  BY <1>2, <1>3, FewPlayers, SumZero

(* A bare result without goals needs no statistics. *)
LEMMA NothingAddsUp ==
  ASSUME NEW sc \in [Side -> Nat], \A s \in Side : sc[s] = 0, NEW t, t = [p \in Person |-> NoTally]
  PROVE  AddsUp(t, sc)
<1>1. \A s \in Side : /\ Total("goals", s, t) = 0 /\ Total("assists", s, t) = 0 /\ Total("own_goals", s, t) = 0
                      /\ Other(s) \in Side
  BY NobodyScored, TwoSides
<1>2. \A s \in Side : \A p \in Squad[s] : t[p].assists = 0 /\ t[p].goals = 0
  BY Players DEF NoTally
<1> HIDE DEF AddsUp
<1>3. ASSUME NEW s \in Side
      PROVE  /\ Total("goals", s, t) + Total("own_goals", Other(s), t) = sc[s]
             /\ Total("assists", s, t) <= Total("goals", s, t)
             /\ \A p \in Squad[s] : t[p].assists <= Total("goals", s, t) - t[p].goals
  BY <1>1, <1>2, <1>3
<1> QED
  BY <1>3 DEF AddsUp

(* What a sheet counts are numbers. *)
LEMMA SheetCounts ==
  ASSUME NEW some, IsFiniteSet(some)
  PROVE  FromSheet(some) \in [Person -> Tally] /\ ScoreOfSheet(some) \in [Side -> Nat]
<1>1. \A p, k : Cardinality(Kinds(p, k, some)) \in Nat
  <2>1. \A p, k : Kinds(p, k, some) \in SUBSET some
    BY DEF Kinds, Of
  <2> QED
    BY <2>1, Counted
<1>2. \A s : Cardinality({a \in some : Against(a, Other(s))}) \in Nat
  <2>1. \A s : {a \in some : Against(a, Other(s))} \in SUBSET some
    OBVIOUS
  <2> QED
    BY <2>1, Counted
<1>3. \A p \in Person : TallyOf(p, some) \in Tally
  BY <1>1 DEF TallyOf, Tally
<1> QED
  BY <1>2, <1>3 DEF FromSheet, ScoreOfSheet

(* A result is no longer open. *)
LEMMA Decided == \A sc \in [Side -> Nat] : sc # Undecided
<1>1. PICK s \in Side : TRUE
  BY TwoSides
<1>2. Undecided[s] = -1
  BY DEF Undecided
<1> QED
  BY <1>2

(* The edition goes on, or has its champion and its awards.                *)
LEMMA EditionProgress ==
  ASSUME EditionOK, champion = NoClub, banned' \subseteq Side, Progressed
  PROVE  EditionOK'
<1>1. \A s \in Side : s # NoClub
  BY SideAssumption DEF NoClub
<1>2. CASE champion' \in Side \ banned' /\ awards' = Awarded'
  BY <1>1, <1>2 DEF EditionOK
<1>3. CASE UNCHANGED <<champion, awards>>
  BY <1>3 DEF EditionOK
<1> QED
  BY <1>2, <1>3 DEF Progressed

(* A result that agrees with the row is written.                           *)
LEMMA ResultWritten ==
  ASSUME SheetInv, NEW m \in Match, Editable(m),
         NEW sc \in [Side -> Nat], NEW t \in [Person -> Tally], NEW full \in BOOLEAN,
         Result(m, sc, t, full), Agrees(sheet[m], Begun(m), sc, full, t)
  PROVE  SheetInv'
<1> DEFINE b == BegunOf(keeper[m], history[m])
<1>0. Columns /\ (\A n \in Match : Row(n)) /\ EditionOK /\ Open(m)
  BY DEF SheetInv, Editable
<1>1. /\ score' = [score EXCEPT ![m] = sc] /\ stats' = [stats EXCEPT ![m] = t]
      /\ complete' = [complete EXCEPT ![m] = full] /\ history' = [history EXCEPT ![m] = b]
      /\ started' = [started EXCEPT ![m] = TRUE]
      /\ UNCHANGED <<sheet, keeper, walkover, banned>> /\ Progressed
      /\ Agrees(sheet[m], b, sc, full, t)
  BY <1>0, Started DEF Result
<1>2. KeepersOK(keeper[m], b) /\ (\A s \in Side : b[s] # <<>>) /\ DutyOK(sheet[m], b) /\ CardsOK(sheet[m])
  BY <1>0, BeginningOK DEF Row
<1> HIDE DEF b
<1>3. Columns'
  <2>1. b \in [Side -> Seq(Keeper)] /\ sc \in [Side -> Int]
    BY <1>2 DEF KeepersOK
  <2>2. /\ score' \in [Match -> [Side -> Int]] /\ stats' \in [Match -> [Person -> Tally]]
        /\ complete' \in [Match -> BOOLEAN] /\ history' \in [Match -> [Side -> Seq(Keeper)]]
        /\ started' \in [Match -> BOOLEAN]
    BY <1>0, <1>1, <2>1 DEF Columns
  <2> QED
    BY <1>0, <1>1, <2>2 DEF Columns
<1>4. /\ score'[m] = sc /\ stats'[m] = t /\ complete'[m] = full /\ history'[m] = b /\ started'[m] = TRUE
      /\ \A n \in Match : n # m => score'[n] = score[n] /\ stats'[n] = stats[n] /\ complete'[n] = complete[n]
                                   /\ history'[n] = history[n] /\ started'[n] = started[n]
      /\ sheet' = sheet /\ keeper' = keeper /\ walkover' = walkover
  BY <1>0, <1>1 DEF Columns
<1>5. Row(m)'
  <2>1. ~walkover[m]
    BY <1>0 DEF Row, BegunOK, Open, Columns
  <2>2. BegunOK(sheet[m], b, TRUE, walkover[m], TRUE)
    BY <1>2, <2>1 DEF BegunOK
  <2>3. ResultOK(sheet[m], b, sc, walkover[m], full, t)
    BY <1>1 DEF ResultOK
  <2>4. sc # Undecided
    BY Decided
  <2> QED
    BY <1>2, <1>4, <2>2, <2>3, <2>4 DEF Row, Open
<1>6. \A n \in Match : Row(n)'
  BY <1>0, <1>4, <1>5, SameRow
<1>7. EditionOK'
  <2>1. champion = NoClub /\ banned' \subseteq Side
    BY <1>0, <1>1 DEF Editable, EditionOK
  <2> QED
    BY <1>0, <1>1, <2>1, EditionProgress
<1> QED
  BY <1>3, <1>6, <1>7 DEF SheetInv

(* The result of a sheet of launches. *)
LEMMA SheetResultStep ==
  ASSUME SheetInv, NEW m \in Match, ScoreFromSheet(m)
  PROVE  SheetInv'
<1> DEFINE sc == ScoreOfSheet(sheet[m])
           t == FromSheet(sheet[m])
<1>1. IsFiniteSet(sheet[m])
  BY DEF SheetInv, Row, CardsOK
<1>2. sc \in [Side -> Nat] /\ t \in [Person -> Tally]
  BY <1>1, SheetCounts
<1>3. Editable(m) /\ sheet[m] # {} /\ AddsUp(t, sc) /\ Result(m, sc, t, TRUE)
  BY DEF ScoreFromSheet
<1>4. Agrees(sheet[m], Begun(m), sc, TRUE, t)
  BY <1>3 DEF Agrees
<1> HIDE DEF sc, t
<1> QED
  BY <1>2, <1>3, <1>4, ResultWritten

(* The result of a client that sends no launches.                          *)
LEMMA BareResultStep ==
  ASSUME SheetInv, NEW m \in Match, ScoreAlone(m)
  PROVE  SheetInv'
<1>1. PICK sc \in [Side -> 0 .. MaxGoals] :
        /\ ~Ambiguous(m, sc)
        /\ \/ Result(m, sc, [p \in Person |-> NoTally], \A s \in Side : sc[s] = 0)
           \/ \E t \in Reports(sc) : Result(m, sc, t, TRUE)
  BY DEF ScoreAlone
<1>2. Editable(m) /\ sheet[m] = {}
  BY DEF ScoreAlone
<1>3. sc \in [Side -> Nat]
  BY <1>1, BoundAssumption
<1>4. \A s \in Side : Cardinality({Begun(m)[s][i] : i \in DOMAIN Begun(m)[s]}) > 1 => sc[Other(s)] = 0
  BY <1>1, <1>3, TwoSides DEF Ambiguous
<1>5. CASE Result(m, sc, [p \in Person |-> NoTally], \A s \in Side : sc[s] = 0)
  <2> DEFINE t == [p \in Person |-> NoTally]
             full == \A s \in Side : sc[s] = 0
  <2>1. t \in [Person -> Tally]
    BY DEF NoTally, Tally
  <2>2. full => AddsUp(t, sc)
    BY <1>3, NothingAddsUp
  <2>3. Result(m, sc, t, full) /\ full \in BOOLEAN
    BY <1>5
  <2> HIDE DEF t, full
  <2>4. Agrees(sheet[m], Begun(m), sc, full, t)
    BY <1>2, <1>4, <2>2 DEF Agrees
  <2> QED
    BY <1>2, <1>3, <2>1, <2>3, <2>4, ResultWritten
<1>6. CASE \E t \in Reports(sc) : Result(m, sc, t, TRUE)
  <2>1. PICK t \in Reports(sc) : Result(m, sc, t, TRUE)
    BY <1>6
  <2>2. t \in [Person -> Tally] /\ AddsUp(t, sc)
    <3>1. t \in [Person -> [goals : 0 .. MaxGoals, assists : 0 .. MaxGoals, own_goals : 0 .. MaxGoals]] /\ AddsUp(t, sc)
      BY DEF Reports
    <3> QED
      BY <3>1, BoundAssumption DEF Tally
  <2>3. Agrees(sheet[m], Begun(m), sc, TRUE, t)
    BY <1>2, <1>4, <2>2 DEF Agrees
  <2> QED
    BY <1>2, <1>3, <2>1, <2>2, <2>3, ResultWritten
<1> QED
  BY <1>1, <1>5, <1>6

(* Matches won and lost without being played lose their keepers, their     *)
(* history and, of a disqualified club, their launches.                    *)
LEMMA WalkedOverRows ==
  ASSUME Columns, \A n \in Match : Row(n),
         NEW some \in SUBSET Match, NEW sc, \A n \in some : sc[n] \in [Side -> Nat],
         WalkedOver(some, sc), sheet' = [n \in Match |-> IF n \in some THEN {} ELSE sheet[n]]
  PROVE  Columns' /\ \A n \in Match : Row(n)'
<1> DEFINE none == [s \in Side |-> Nobody]
           void == [s \in Side |-> <<>>]
<1>1. /\ score' = [n \in Match |-> IF n \in some THEN sc[n] ELSE score[n]]
      /\ walkover' = [n \in Match |-> walkover[n] \/ n \in some]
      /\ complete' = [n \in Match |-> complete[n] \/ n \in some]
      /\ keeper' = [n \in Match |-> IF n \in some THEN none ELSE keeper[n]]
      /\ history' = [n \in Match |-> IF n \in some THEN void ELSE history[n]]
      /\ started' = started /\ stats' = stats
  BY DEF WalkedOver
<1>2. KeepersOK(none, void) /\ \A s \in Side : void[s] = <<>>
  BY DEF KeepersOK, Keeper
<1> HIDE DEF none, void
<1>3. Columns'
  <2>1. none \in [Side -> Keeper] /\ void \in [Side -> Seq(Keeper)]
    BY <1>2 DEF KeepersOK
  <2>2. \A n \in some : sc[n] \in [Side -> Int]
    OBVIOUS
  <2>3. score' \in [Match -> [Side -> Int]]
    BY <1>1, <2>2 DEF Columns
  <2>4. keeper' \in [Match -> [Side -> Keeper]] /\ history' \in [Match -> [Side -> Seq(Keeper)]]
    BY <1>1, <2>1 DEF Columns
  <2>5. walkover' \in [Match -> BOOLEAN] /\ complete' \in [Match -> BOOLEAN]
    BY <1>1 DEF Columns
  <2>6. sheet' \in [Match -> SUBSET Launch]
    BY DEF Columns
  <2> QED
    BY <1>1, <2>3, <2>4, <2>5, <2>6 DEF Columns
<1>4. ASSUME NEW n \in some PROVE Row(n)'
  <2>1. /\ score'[n] = sc[n] /\ walkover'[n] /\ keeper'[n] = none /\ history'[n] = void /\ sheet'[n] = {}
        /\ started'[n] = started[n] /\ stats'[n] = stats[n] /\ sc[n] \in [Side -> Nat]
    BY <1>1
  <2>2. sc[n] # Undecided
    BY <2>1, Decided
  <2>3. CardsOK({}) /\ DutyOK({}, void)
    BY EmptySheetOK DEF DutyOK
  <2>4. BegunOK({}, void, started'[n], walkover'[n], ~(score'[n] = Undecided))
    BY <1>2, <2>1, <2>2 DEF BegunOK
  <2>5. ResultOK({}, void, sc[n], walkover'[n], complete'[n], stats[n])
    BY <2>1 DEF ResultOK, Columns
  <2> QED
    BY <1>2, <2>1, <2>3, <2>4, <2>5 DEF Row, Open
<1>5. ASSUME NEW n \in Match \ some PROVE Row(n)'
  <2>1. /\ score'[n] = score[n] /\ walkover'[n] = walkover[n] /\ keeper'[n] = keeper[n] /\ complete'[n] = complete[n]
        /\ history'[n] = history[n] /\ sheet'[n] = sheet[n] /\ started'[n] = started[n] /\ stats'[n] = stats[n]
    BY <1>1 DEF Columns
  <2> QED
    BY <2>1, SameRow
<1> QED
  BY <1>3, <1>4, <1>5

(* A walkover keeps the invariant.                                         *)
LEMMA WalkoverStep ==
  ASSUME SheetInv, NEW m \in Match, NEW w \in Side, Walkover(m, w)
  PROVE  SheetInv'
<1> DEFINE sc == [n \in {m} |-> [s \in Side |-> IF s = w THEN 3 ELSE 0]]
<1>0. Columns /\ (\A n \in Match : Row(n)) /\ EditionOK
  BY DEF SheetInv
<1>1. Editable(m) /\ sheet[m] = {} /\ WalkedOver({m}, sc) /\ UNCHANGED <<sheet, banned>> /\ Progressed
  BY DEF Walkover
<1>2. \A n \in {m} : sc[n] \in [Side -> Nat]
  OBVIOUS
<1> HIDE DEF sc
<1>3. sheet' = [n \in Match |-> IF n \in {m} THEN {} ELSE sheet[n]]
  BY <1>0, <1>1 DEF Columns
<1>4. Columns' /\ \A n \in Match : Row(n)'
  <2>1. {m} \in SUBSET Match
    OBVIOUS
  <2> QED
    BY <1>0, <1>1, <1>2, <1>3, <2>1, WalkedOverRows
<1>5. EditionOK'
  BY <1>0, <1>1, EditionProgress DEF Editable, EditionOK
<1> QED
  BY <1>4, <1>5 DEF SheetInv

(* So does a disqualification, which gives several walkovers at once.      *)
LEMMA DisqualifyStep ==
  ASSUME SheetInv, NEW s \in Side, Disqualify(s)
  PROVE  SheetInv'
<1> DEFINE pending == {m \in Match : Open(m)}
           sc == [n \in pending |-> [t \in Side |-> IF t = s THEN 0 ELSE 3]]
<1>0. Columns /\ (\A n \in Match : Row(n)) /\ EditionOK
  BY DEF SheetInv
<1>1. /\ champion = NoClub /\ banned' = {s} /\ WalkedOver(pending, sc) /\ Progressed
      /\ sheet' = [m \in Match |-> IF m \in pending THEN {} ELSE sheet[m]]
  BY DEF Disqualify
<1>2. pending \in SUBSET Match
  OBVIOUS
<1> HIDE DEF pending
<1>3. \A n \in pending : sc[n] \in [Side -> Nat]
  OBVIOUS
<1> HIDE DEF sc
<1>4. Columns' /\ \A n \in Match : Row(n)'
  BY <1>0, <1>1, <1>2, <1>3, WalkedOverRows
<1>5. EditionOK'
  <2>1. banned' \subseteq Side
    BY <1>1
  <2> QED
    BY <1>0, <1>1, <2>1, EditionProgress
<1> QED
  BY <1>4, <1>5 DEF SheetInv

-----------------------------------------------------------------------------
(* What the awards are made from is read from the variables alone.         *)
LEMMA SameAwards ==
  ASSUME UNCHANGED vars
  PROVE  Awarded' = Awarded
<1>1. \A f, p : Scored(f, p)' = Scored(f, p)
  BY DEF vars, Scored, MapThenSumSet, MapThenFoldSet
<1>2. \A m, s, p : ConcededBy(m, s, p)' = ConcededBy(m, s, p)
  BY DEF vars, ConcededBy, Recorded, Participants, Stints
<1>3. \A p : Guarded(p)' = Guarded(p)
  BY DEF vars, Guarded, Played, Open, Participants, Stints
<1>4. \A p : LetIn(p)' = LetIn(p)
  BY <1>2, <1>3 DEF LetIn, MapThenSumSet, MapThenFoldSet
<1>5. Ranked' = Ranked
  BY DEF vars, Ranked
<1>6. \A f : Eligible(f)' = Eligible(f)
  BY <1>1, <1>3, <1>5 DEF Eligible
<1>7. \A f, p, q : Ahead(f, p, q)' = Ahead(f, p, q)
  BY <1>1, <1>4 DEF Ahead, Key, Position, vars
<1>8. \A f : Leaders(f)' = Leaders(f)
  BY <1>6, <1>7 DEF Leaders
<1> QED
  BY <1>8 DEF Awarded, vars

(* And a step that changes nothing.                                        *)
LEMMA Stuttering ==
  ASSUME SheetInv, UNCHANGED vars
  PROVE  SheetInv'
<1>1. Columns'
  BY DEF SheetInv, Columns, vars
<1>2. \A m \in Match : Row(m)'
  BY SameRow DEF SheetInv, vars
<1>3. Awarded' = Awarded
  BY SameAwards
<1>4. EditionOK'
  BY <1>3 DEF SheetInv, EditionOK, vars
<1> QED
  BY <1>1, <1>2, <1>4 DEF SheetInv

(* Before anything is launched every row is as it should be.               *)
LEMMA InitSheet == Init => SheetInv
<1> SUFFICES ASSUME Init PROVE SheetInv
  OBVIOUS
<1> DEFINE void == [s \in Side |-> <<>>]
           t == [p \in Person |-> NoTally]
<1>1. PICK f \in [Side -> Keeper] :
        (\A s \in Side : f[s] \in Squad[s] \cup {Nobody}) /\ keeper = [m \in Match |-> f]
  BY DEF Init
<1>2. void \in [Side -> Seq(Keeper)] /\ t \in [Person -> Tally] /\ \A s \in Side : void[s] = <<>>
  BY DEF NoTally, Tally
<1>3. Undecided \in [Side -> Int]
  BY DEF Undecided
<1>4. /\ sheet = [m \in Match |-> {}] /\ history = [m \in Match |-> void] /\ stats = [m \in Match |-> t]
      /\ started = [m \in Match |-> FALSE] /\ walkover = [m \in Match |-> FALSE] /\ complete = [m \in Match |-> FALSE]
      /\ score = [m \in Match |-> Undecided]
  BY DEF Init
<1> HIDE DEF void, t
<1>5. Columns
  BY <1>1, <1>2, <1>3, <1>4 DEF Columns
<1>6. ASSUME NEW m \in Match PROVE Row(m)
  <2>1. /\ sheet[m] = {} /\ history[m] = void /\ stats[m] = t /\ ~started[m] /\ ~walkover[m]
        /\ score[m] = Undecided /\ keeper[m] = f
    BY <1>1, <1>4
  <2>2. CardsOK({}) /\ DutyOK({}, void) /\ KeepersOK(f, void)
    BY <1>1, <1>2, EmptySheetOK DEF DutyOK, KeepersOK
  <2>3. BegunOK({}, void, started[m], walkover[m], FALSE)
    BY <1>2, <2>1, TwoSides DEF BegunOK
  <2>4. ResultOK({}, void, score[m], walkover[m], complete[m], t)
    BY <1>2, <2>1 DEF ResultOK
  <2> QED
    BY <2>1, <2>2, <2>3, <2>4 DEF Row, Open
<1>7. EditionOK
  BY DEF Init, EditionOK
<1> QED
  BY <1>5, <1>6, <1>7 DEF SheetInv

(* Every request leaves every row and the edition as they should be.       *)
LEMMA SheetInvStep == SheetInv /\ [Next]_vars => SheetInv'
<1> SUFFICES ASSUME SheetInv, [Next]_vars PROVE SheetInv'
  OBVIOUS
<1>1. ASSUME NEW m \in Match, SheetStep(m) PROVE SheetInv'
  <2>1. ASSUME NEW id \in Id, RemoveAction(m, id) PROVE SheetInv'
    BY <2>1, RemoveStep
  <2>2. ASSUME NEW id \in Id, NEW k \in Kind, NEW p \in Person, AddAction(m, id, k, p) PROVE SheetInv'
    BY <2>2, AddStep
  <2>3. ASSUME NEW some \in (SUBSET Side) \ {{}}, NEW f \in [some -> Keeper], SetGoalkeepers(m, f) PROVE SheetInv'
    <3>1. some \in SUBSET Side
      OBVIOUS
    <3> QED
      BY <2>3, <3>1, KeeperStep
  <2>4. CASE KickoffMatch(m)
    BY <2>4, KickoffStep
  <2> QED
    BY <1>1, <2>1, <2>2, <2>3, <2>4 DEF SheetStep
<1>2. ASSUME NEW m \in Match, ResultStep(m) PROVE SheetInv'
  <2>1. CASE ScoreFromSheet(m)
    BY <2>1, SheetResultStep
  <2>2. CASE ScoreAlone(m)
    BY <2>2, BareResultStep
  <2>3. ASSUME NEW w \in Side, Walkover(m, w) PROVE SheetInv'
    BY <2>3, WalkoverStep
  <2> QED
    BY <1>2, <2>1, <2>2, <2>3 DEF ResultStep
<1>3. ASSUME NEW s \in Side, Disqualify(s) PROVE SheetInv'
  BY <1>3, DisqualifyStep
<1>4. CASE UNCHANGED vars
  BY <1>4, Stuttering
<1> QED
  BY <1>1, <1>2, <1>3, <1>4 DEF Next

(* The invariant holds in every reachable state.                           *)
LEMMA SheetInvariant == Spec => []SheetInv
BY InitSheet, SheetInvStep, PTL DEF Spec

-----------------------------------------------------------------------------
(* What follows from it *)

(* Awards go to players, by category.                                      *)
LEMMA AwardsHaveNames ==
  ASSUME EditionOK
  PROVE  awards \subseteq Category \X Person
<1>1. CASE champion = NoClub
  BY <1>1 DEF EditionOK
<1>2. CASE champion # NoClub
  <2>1. champion \in Side /\ awards = Awarded
    BY <1>2 DEF EditionOK
  <2>2. \A f : Leaders(f) \subseteq Person
    BY Players DEF Leaders, Eligible, Ranked
  <2>3. \A s \in Side : Squad[s] \subseteq Person
    BY Players
  <2> DEFINE A == {"champion"} \X Squad[champion]
             B == {"runner_up"} \X UNION {Squad[s] : s \in Side \ (banned \cup {champion})}
             solo == IF \A m \in Match : complete[m] THEN {"goals", "assists", "goals_conceded"} ELSE {}
             C == UNION {{f} \X Leaders(f) : f \in solo}
  <2>4. Awarded = A \cup B \cup C
    BY DEF Awarded
  <2>5. A \subseteq Category \X Person /\ B \subseteq Category \X Person
    BY <2>1, <2>3 DEF Category
  <2>6. C \subseteq Category \X Person
    <3>1. solo \subseteq Category
      BY DEF Category
    <3> HIDE DEF solo
    <3> QED
      BY <2>2, <3>1
  <2> HIDE DEF A, B, C
  <2> QED
    BY <2>1, <2>4, <2>5, <2>6
<1> QED
  BY <1>1, <1>2

(* The invariant implies the types.                                        *)
LEMMA RowsHaveTypes == SheetInv => TypeOK
<1> SUFFICES ASSUME SheetInv PROVE TypeOK
  OBVIOUS
<1>0. Columns /\ (\A n \in Match : Row(n)) /\ EditionOK
  BY DEF SheetInv
<1>1. ASSUME NEW m \in Match
      PROVE  /\ sheet[m] \subseteq Launch
             /\ \A a, b \in sheet[m] : a.id = b.id => a = b
             /\ keeper[m] \in [Side -> Keeper]
             /\ history[m] \in [Side -> Seq(Keeper)]
             /\ Open(m) \/ score[m] \in [Side -> Nat]
             /\ stats[m] \in [Person -> Tally]
             /\ sheet[m] # {} => started[m]
             /\ started[m] /\ ~walkover[m] <=> \A s \in Side : history[m][s] # <<>>
  <2>1. \A a, b \in sheet[m] : a.id = b.id => a = b
    BY <1>0, CardsAreExact DEF Row
  <2>2. started[m] /\ ~walkover[m] <=> \A s \in Side : history[m][s] # <<>>
    BY <1>0, TwoSides DEF Row, BegunOK, Columns
  <2>3. Open(m) \/ score[m] \in [Side -> Nat]
    BY <1>0 DEF Row, ResultOK, Open
  <2>4. sheet[m] # {} => started[m]
    BY <1>0 DEF Row, BegunOK
  <2> QED
    BY <1>0, <2>1, <2>2, <2>3, <2>4 DEF Columns
<1>2. {started, walkover, complete} \subseteq [Match -> BOOLEAN]
  BY <1>0 DEF Columns
<1>3. awards \subseteq Category \X Person
  BY <1>0, AwardsHaveNames
<1> QED
  BY <1>0, <1>1, <1>2, <1>3 DEF TypeOK, EditionOK

(***************************************************************************)
(* Type correctness: rows, launches with ids of their own, a history of    *)
(* goalkeepers exactly where a match has begun and was not walked over.    *)
(***************************************************************************)
THEOREM SheetTypes == Spec => []TypeOK
BY SheetInvariant, RowsHaveTypes, PTL

(***************************************************************************)
(* sync_championship_cards keeps expulsions exact: whatever cards are      *)
(* launched, taken back and repeated, two yellow ones and no red one make  *)
(* exactly one automatic expulsion, less never do, and none stays behind.  *)
(***************************************************************************)
THEOREM ExpulsionsFollowTheCards == Spec => []ExpulsionsAreExact
<1>1. SheetInv => ExpulsionsAreExact
  BY CardsAreExact DEF SheetInv, Row, ExpulsionsAreExact, Exact
<1> QED
  BY <1>1, SheetInvariant, PTL

(***************************************************************************)
(* begin_goalkeeping and the launches agree: a goal is charged to a keeper *)
(* of the club that conceded it, who is in the history of the match, and   *)
(* the history ends with the keeper of now.                                *)
(***************************************************************************)
THEOREM GoalsStayWithTheirKeeper == Spec => []GoalsHaveTheirKeeper
<1>1. SheetInv => GoalsHaveTheirKeeper
  <2> SUFFICES ASSUME SheetInv PROVE GoalsHaveTheirKeeper
    OBVIOUS
  <2>1. TypeOK
    BY RowsHaveTypes
  <2>2. ASSUME NEW m \in Match, NEW s \in Side
        PROVE  /\ \A a \in Recorded(m, s) :
                    a.keeper \in Squad[s] \cup {Nobody} /\ \E i \in DOMAIN history[m][s] : history[m][s][i] = a.keeper
               /\ history[m][s] # <<>> => history[m][s][Len(history[m][s])] = keeper[m][s]
    <3>1. DutyOK(sheet[m], history[m]) /\ KeepersOK(keeper[m], history[m])
      BY DEF SheetInv, Row
    <3>2. history[m][s] # <<>> => history[m][s][Len(history[m][s])] = keeper[m][s]
      BY <3>1 DEF KeepersOK
    <3> QED
      BY <3>1, <3>2 DEF Recorded, DutyOK
  <2> QED
    BY <2>1, <2>2 DEF GoalsHaveTheirKeeper
<1> QED
  BY <1>1, SheetInvariant, PTL

(***************************************************************************)
(* save_statistics: complete statistics add up to the result, and are      *)
(* those of the launches where there are any.                              *)
(***************************************************************************)
THEOREM StatisticsOfTheResult == Spec => []StatisticsAddUp
<1>1. SheetInv => StatisticsAddUp
  BY DEF SheetInv, Row, ResultOK, Agrees, StatisticsAddUp, Played, Open
<1> QED
  BY <1>1, SheetInvariant, PTL

(* Of a finite set with two different members the cardinality is above one. *)
LEMMA Several ==
  ASSUME NEW H, IsFiniteSet(H), NEW p \in H, NEW q \in H, p # q
  PROVE  Cardinality(H) > 1
<1>1. IsFiniteSet(H \ {p}) /\ Cardinality(H \ {p}) = Cardinality(H) - 1
  BY FS_RemoveElement
<1>2. Cardinality(H \ {p}) # 0
  BY <1>1, FS_EmptySet
<1> QED
  BY <1>1, <1>2, FS_CardinalityType

(* ConcededBy, summed over the keepers of a club.                          *)
LEMMA KeptIsSum ==
  ASSUME NEW m, NEW s
  PROVE  MapThenSumSet(LAMBDA p : ConcededBy(m, s, p), Participants(m, s))
           = SumOf([p \in Participants(m, s) |-> ConcededBy(m, s, p)], Participants(m, s))
<1> DEFINE S == Participants(m, s)
           g == [p \in S |-> ConcededBy(m, s, p)]
           P(h) == h = [T \in SUBSET S |-> IF T = {} THEN 0 ELSE ConcededBy(m, s, Pick(T)) + h[T \ {Pick(T)}]]
<1>1. MapThenSumSet(LAMBDA p : ConcededBy(m, s, p), Participants(m, s)) = (CHOOSE h : P(h))[S]
  BY DEF MapThenSumSet, MapThenFoldSet, Pick
<1>2. SumOf(g, S) = (CHOOSE h : IsFold(h, g, S))[S]
  BY SumIsFold
<1>3. \A h : P(h) <=> IsFold(h, g, S)
  <2>1. \A T \in SUBSET S : T # {} => g[Pick(T)] = ConcededBy(m, s, Pick(T))
    BY DEF Pick
  <2>2. \A h : [T \in SUBSET S |-> IF T = {} THEN 0 ELSE ConcededBy(m, s, Pick(T)) + h[T \ {Pick(T)}]]
             = [T \in SUBSET S |-> IF T = {} THEN 0 ELSE g[Pick(T)] + h[T \ {Pick(T)}]]
    <3> HIDE DEF g
    <3> QED
      BY <2>1
  <2> HIDE DEF g
  <2> QED
    BY <2>2, Zenon DEF IsFold
<1>4. (CHOOSE h : P(h)) = (CHOOSE h : IsFold(h, g, S))
  <2> HIDE DEF P
  <2> QED
    BY <1>3, Zenon
<1> QED
  BY <1>1, <1>2, <1>4

(* Finitely many people guarded a goal in a match.                         *)
LEMMA FewKeepers ==
  ASSUME Columns, NEW m \in Match, NEW s \in Side
  PROVE  /\ IsFiniteSet({history[m][s][i] : i \in DOMAIN history[m][s]})
         /\ IsFiniteSet(Participants(m, s))
<1>1. IsFiniteSet(Keeper)
  BY FewPlayers, FS_AddElement DEF Keeper
<1>2. history[m][s] \in Seq(Keeper) /\ keeper[m][s] \in Keeper
  BY DEF Columns
<1>3. \A i \in DOMAIN history[m][s] : history[m][s][i] \in Keeper
  BY <1>2
<1>4. {history[m][s][i] : i \in DOMAIN history[m][s]} \in SUBSET Keeper
  BY <1>3
<1>5. Participants(m, s) \in SUBSET Keeper
  BY <1>2, <1>3 DEF Participants, Stints
<1> QED
  BY <1>1, <1>4, <1>5, FS_Subset

(* What the launches of a match that was played go against.                *)
LEMMA PlayedRow ==
  ASSUME SheetInv, NEW m \in Played, NEW s \in Side
  PROVE  /\ m \in Match
         /\ Participants(m, s) = Stints(m, s)
         /\ score[m] \in [Side -> Nat]
         /\ Agrees(sheet[m], history[m], score[m], complete[m], stats[m])
         /\ IsFiniteSet(Recorded(m, s))
<1>1. m \in Match /\ ~Open(m) /\ ~walkover[m] /\ Row(m)
  BY DEF Played, SheetInv
<1>2. history[m][s] # <<>>
  BY <1>1 DEF Row, BegunOK
<1>3. Recorded(m, s) \in SUBSET sheet[m] /\ IsFiniteSet(sheet[m])
  BY <1>1 DEF Row, CardsOK, Recorded
<1>4. IsFiniteSet(Recorded(m, s))
  BY <1>3, Counted
<1> QED
  BY <1>1, <1>2, <1>4 DEF Participants, Row, ResultOK, Open

(* With launches: each keeper is charged those that name him.              *)
LEMMA SheetIsConceded ==
  ASSUME SheetInv, NEW m \in Played, NEW s \in Side, sheet[m] # {}
  PROVE  MapThenSumSet(LAMBDA p : ConcededBy(m, s, p), Participants(m, s))
           + Cardinality({a \in Recorded(m, s) : a.keeper = Nobody}) = score[m][Other(s)]
<1> DEFINE A == Recorded(m, s)
           S == Participants(m, s)
           g == [p \in S |-> ConcededBy(m, s, p)]
           k == [a \in A |-> a.keeper]
           named == Classed(A, k, S)
           unnamed == {a \in A : a.keeper = Nobody}
<1>1. /\ m \in Match /\ S = Stints(m, s) /\ IsFiniteSet(A)
      /\ Agrees(sheet[m], history[m], score[m], complete[m], stats[m])
  BY PlayedRow
<1>2. IsFiniteSet(S)
  BY <1>1, FewKeepers DEF SheetInv
<1>3. score[m][Other(s)] = Cardinality(A)
  BY <1>1, TwoSides DEF Agrees, ScoreOfSheet, Recorded
<1>4. Cardinality(A) \in Nat
  BY <1>1, FS_CardinalityType
<1>5. \A p \in S : g[p] = Cardinality(Class(A, k, p))
  <2> SUFFICES ASSUME NEW p \in S PROVE g[p] = Cardinality(Class(A, k, p))
    OBVIOUS
  <2>1. Class(A, k, p) = {a \in A : a.keeper = p}
    BY DEF Class
  <2>2. Cardinality({a \in A : a.keeper = p}) \in Nat
    <3>1. {a \in A : a.keeper = p} \in SUBSET A
      OBVIOUS
    <3> QED
      BY <1>1, <3>1, Counted
  <2>3. ConcededBy(m, s, p) = Cardinality({a \in A : a.keeper = p})
    BY <1>3, <1>4, <2>2 DEF ConcededBy
  <2> QED
    BY <2>1, <2>3
<1>6. SumOf(g, S) = Cardinality(named)
  <2>1. S \in SUBSET S
    OBVIOUS
  <2> HIDE DEF A, S, g, k
  <2>2. IsFiniteSet(A)
    BY <1>1
  <2>3. \A T \in SUBSET S : SumOf(g, T) = Cardinality(Classed(A, k, T))
    BY <1>2, <1>5, <2>2, SumOfClasses
  <2> QED
    BY <2>1, <2>3
<1>7. named \cup unnamed = A /\ named \cap unnamed = {}
  <2>1. \A a \in A : a.keeper = Nobody \/ a.keeper \in Stints(m, s)
    BY <1>1 DEF SheetInv, Row, DutyOK, Recorded, Stints
  <2>2. Nobody \notin Stints(m, s)
    BY DEF Stints
  <2>3. named = {a \in A : a.keeper \in S}
    BY DEF Classed
  <2> HIDE DEF A, named
  <2> QED
    BY <1>1, <2>1, <2>2, <2>3
<1>8. Cardinality(named) + Cardinality(unnamed) = Cardinality(A)
  <2>1. named \in SUBSET A /\ unnamed \in SUBSET A
    BY DEF Classed
  <2> HIDE DEF named, unnamed, A
  <2>2. IsFiniteSet(named) /\ IsFiniteSet(unnamed) /\ Cardinality(named) \in Nat /\ Cardinality(unnamed) \in Nat
    BY <1>1, <2>1, Counted
  <2>3. Cardinality(named \cup unnamed) = Cardinality(named) + Cardinality(unnamed) - Cardinality(named \cap unnamed)
    BY <2>2, FS_Union
  <2>4. Cardinality(named \cap unnamed) = 0
    BY <1>7, FS_EmptySet
  <2>5. Cardinality(named \cup unnamed) = Cardinality(A)
    BY <1>7, Zenon
  <2> QED
    BY <2>2, <2>3, <2>4, <2>5
<1>9. MapThenSumSet(LAMBDA p : ConcededBy(m, s, p), Participants(m, s)) = SumOf(g, S)
  BY KeptIsSum
<1> HIDE DEF g, k, named
<1> QED
  BY <1>3, <1>6, <1>8, <1>9

(***************************************************************************)
(* Without launches: all of them are the only keeper's; where there were   *)
(* several, there were none.                                               *)
(***************************************************************************)
LEMMA BareResultIsConceded ==
  ASSUME SheetInv, NEW m \in Played, NEW s \in Side, sheet[m] = {}, Participants(m, s) # {}
  PROVE  MapThenSumSet(LAMBDA p : ConcededBy(m, s, p), Participants(m, s)) = score[m][Other(s)]
<1> DEFINE S == Participants(m, s)
           g == [p \in S |-> ConcededBy(m, s, p)]
           H == {history[m][s][i] : i \in DOMAIN history[m][s]}
           n == score[m][Other(s)]
<1>1. /\ m \in Match /\ S = Stints(m, s) /\ n \in Nat
      /\ Cardinality(H) > 1 => n = 0
  BY PlayedRow, TwoSides DEF Agrees
<1>2. IsFiniteSet(S) /\ IsFiniteSet(H)
  BY <1>1, FewKeepers DEF SheetInv
<1>3. \A p : {a \in Recorded(m, s) : a.keeper = p} = {} /\ Recorded(m, s) = {}
  BY DEF Recorded
<1>4. \A p \in S : g[p] = IF S = {p} THEN n ELSE 0
  <2> SUFFICES ASSUME NEW p \in S PROVE g[p] = IF S = {p} THEN n ELSE 0
    OBVIOUS
  <2>1. g[p] = ConcededBy(m, s, p)
    OBVIOUS
  <2>2. /\ Cardinality({a \in Recorded(m, s) : a.keeper = p}) = 0
        /\ Cardinality(Recorded(m, s)) = 0
    BY <1>3, FS_EmptySet
  <2>3. ConcededBy(m, s, p) = 0 + IF S = {p} /\ n > 0 THEN n - 0 ELSE 0
    BY <2>2 DEF ConcededBy
  <2> HIDE DEF n, g, S
  <2> QED
    BY <1>1, <2>1, <2>3
<1>5. PICK p \in S : TRUE
  OBVIOUS
<1>6. MapThenSumSet(LAMBDA q : ConcededBy(m, s, q), Participants(m, s)) = SumOf(g, S)
  BY KeptIsSum
<1>7. SumOf(g, S) = n
  <2>1. CASE S = {p}
    <3>1. \A q \in S : g[q] \in Int
      BY <1>1, <1>4
    <3> HIDE DEF g
    <3>2. SumOf(g, S) = g[p] + SumOf(g, S \ {p})
      BY <1>2, <1>5, <3>1, SumWithout
    <3>3. S \ {p} = {}
      BY <2>1
    <3> QED
      BY <1>1, <1>4, <1>5, <2>1, <3>2, <3>3, SumEmpty
  <2>2. CASE S # {p}
    <3>1. PICK q \in S : q # p
      BY <1>5, <2>2
    <3>2. p \in H /\ q \in H
      BY <1>1, <1>5 DEF Stints
    <3>3. n = 0
      <4> HIDE DEF H, n, S
      <4> QED
        BY <1>1, <1>2, <3>1, <3>2, Several
    <3>4. \A r \in S : g[r] = 0
      BY <1>4, <3>3
    <3> HIDE DEF g, S
    <3> QED
      BY <1>2, <3>3, <3>4, SumZero
  <2> QED
    BY <2>1, <2>2
<1> QED
  BY <1>6, <1>7

(***************************************************************************)
(* goalkeeper_totals gives every goal of a match that was played to the    *)
(* goalkeepers of the club that conceded it, but for those that went in    *)
(* while nobody was named.                                                 *)
(***************************************************************************)
THEOREM GoalsAreSharedOut == Spec => []EveryGoalIsConceded
<1>1. SheetInv => EveryGoalIsConceded
  BY SheetIsConceded, BareResultIsConceded DEF EveryGoalIsConceded
<1> QED
  BY <1>1, SheetInvariant, PTL

-----------------------------------------------------------------------------
(* Awards: the order of a ranking is one of numbers.                       *)

(* The figures of a ranking are sums over the matches.                     *)
LEMMA ScoredIsSum ==
  ASSUME NEW f, NEW q
  PROVE  Scored(f, q) = SumOf([m \in Match |-> stats[m][q][f]], Match)
<1> DEFINE S == Match
           g == [m \in S |-> stats[m][q][f]]
           P(h) == h = [T \in SUBSET S |-> IF T = {} THEN 0 ELSE stats[Pick(T)][q][f] + h[T \ {Pick(T)}]]
<1>1. Scored(f, q) = (CHOOSE h : P(h))[S]
  BY DEF Scored, MapThenSumSet, MapThenFoldSet, Pick
<1>2. SumOf(g, S) = (CHOOSE h : IsFold(h, g, S))[S]
  BY SumIsFold
<1>3. \A h : P(h) <=> IsFold(h, g, S)
  <2>1. \A T \in SUBSET S : T # {} => g[Pick(T)] = stats[Pick(T)][q][f]
    BY DEF Pick
  <2>2. \A h : [T \in SUBSET S |-> IF T = {} THEN 0 ELSE stats[Pick(T)][q][f] + h[T \ {Pick(T)}]]
             = [T \in SUBSET S |-> IF T = {} THEN 0 ELSE g[Pick(T)] + h[T \ {Pick(T)}]]
    <3> HIDE DEF g
    <3> QED
      BY <2>1
  <2> HIDE DEF g
  <2> QED
    BY <2>2, Zenon DEF IsFold
<1>4. (CHOOSE h : P(h)) = (CHOOSE h : IsFold(h, g, S))
  <2> HIDE DEF P
  <2> QED
    BY <1>3, Zenon
<1> QED
  BY <1>1, <1>2, <1>4

(* So are the goals somebody let in.                                       *)
LEMMA LetInIsSum ==
  ASSUME NEW p
  PROVE  LetIn(p) = SumOf([m \in Guarded(p) |-> ConcededBy(m, SideOf(p), p)], Guarded(p))
<1> DEFINE S == Guarded(p)
           g == [m \in S |-> ConcededBy(m, SideOf(p), p)]
           P(h) == h = [T \in SUBSET S |-> IF T = {} THEN 0 ELSE ConcededBy(Pick(T), SideOf(p), p) + h[T \ {Pick(T)}]]
<1>1. LetIn(p) = (CHOOSE h : P(h))[S]
  BY DEF LetIn, MapThenSumSet, MapThenFoldSet, Pick
<1>2. SumOf(g, S) = (CHOOSE h : IsFold(h, g, S))[S]
  BY SumIsFold
<1>3. \A h : P(h) <=> IsFold(h, g, S)
  <2>1. \A T \in SUBSET S : T # {} => g[Pick(T)] = ConcededBy(Pick(T), SideOf(p), p)
    BY DEF Pick
  <2>2. \A h : [T \in SUBSET S |-> IF T = {} THEN 0 ELSE ConcededBy(Pick(T), SideOf(p), p) + h[T \ {Pick(T)}]]
             = [T \in SUBSET S |-> IF T = {} THEN 0 ELSE g[Pick(T)] + h[T \ {Pick(T)}]]
    <3> HIDE DEF g
    <3> QED
      BY <2>1
  <2> HIDE DEF g
  <2> QED
    BY <2>2, Zenon DEF IsFold
<1>4. (CHOOSE h : P(h)) = (CHOOSE h : IsFold(h, g, S))
  <2> HIDE DEF P
  <2> QED
    BY <1>3, Zenon
<1> QED
  BY <1>1, <1>2, <1>4

(* The figures of the rankings of players are natural numbers.             *)
LEMMA ScoredIsNat ==
  ASSUME Columns, NEW p \in Person, NEW f \in {"goals", "assists"}
  PROVE  Scored(f, p) \in Nat
<1> DEFINE g == [m \in Match |-> stats[m][p][f]]
<1>1. \A m \in Match : g[m] \in Nat
  BY DEF Columns, Tally
<1>2. Scored(f, p) = SumOf(g, Match)
  BY ScoredIsSum
<1> HIDE DEF g
<1>3. Match \in SUBSET Match /\ IsFiniteSet(Match)
  BY MatchAssumption
<1> QED
  BY <1>1, <1>2, <1>3, SumNat

(* Those of the ranking of keepers are integers.                           *)
LEMMA LetInIsInt ==
  ASSUME SheetInv, NEW p \in Person
  PROVE  LetIn(p) \in Int
<1> DEFINE S == Guarded(p)
           g == [m \in S |-> ConcededBy(m, SideOf(p), p)]
<1>1. \A m \in S : g[m] \in Int
  <2> SUFFICES ASSUME NEW m \in S PROVE ConcededBy(m, SideOf(p), p) \in Int
    OBVIOUS
  <2> DEFINE s == SideOf(p)
             A == {a \in Recorded(m, s) : a.keeper = p}
  <2>1. m \in Played /\ s \in Side /\ Other(s) \in Side
    BY Players, TwoSides DEF Guarded
  <2>2. score[m] \in [Side -> Nat] /\ IsFiniteSet(Recorded(m, s))
    BY <2>1, PlayedRow
  <2>3. A \in SUBSET Recorded(m, s)
    OBVIOUS
  <2> HIDE DEF s, A
  <2>4. Cardinality(A) \in Nat /\ Cardinality(Recorded(m, s)) \in Nat
    BY <2>2, <2>3, Counted
  <2>5. score[m][Other(s)] \in Nat
    BY <2>1, <2>2
  <2>6. ConcededBy(m, s, p) \in Int
    BY <2>4, <2>5 DEF ConcededBy, A
  <2> QED
    BY <2>6 DEF s
<1>2. S \in SUBSET Match /\ S \in SUBSET S
  BY DEF Guarded, Played
<1>3. IsFiniteSet(S)
  BY <1>2, MatchAssumption, FS_Subset
<1>4. LetIn(p) = SumOf(g, S)
  BY LetInIsSum
<1> HIDE DEF g, S
<1> QED
  BY <1>1, <1>2, <1>3, <1>4, SumType

(* Only one player is ahead of all others, and he is one of those ranked.  *)
LEMMA OneLeader ==
  ASSUME SheetInv, NEW f \in {"goals", "assists", "goals_conceded"}
  PROVE  /\ \A p \in Person : Key(f, p) \in Int
         /\ \A p \in Leaders(f) : p \in Person /\ p \in Eligible(f) /\ SideOf(p) \notin banned
         /\ \A p, q \in Leaders(f) : p = q
<1>0. Columns
  BY DEF SheetInv
<1>1. ASSUME NEW p \in Person PROVE Key(f, p) \in Int
  <2>1. CASE f = "goals_conceded"
    BY <2>1, LetInIsInt DEF Key
  <2>2. CASE f # "goals_conceded"
    <3>1. Scored(f, p) \in Nat
      BY <1>0, <2>2, ScoredIsNat
    <3> QED
      BY <2>2, <3>1 DEF Key
  <2> QED
    BY <2>1, <2>2
<1>2. \A p \in Ranked : p \in Person /\ SideOf(p) \notin banned
  BY Players DEF Ranked
<1>3. \A p \in Leaders(f) : p \in Eligible(f) /\ p \in Ranked
  BY DEF Leaders, Eligible
<1>4. ASSUME NEW p \in Leaders(f), NEW q \in Leaders(f) PROVE p = q
  <2>1. Ahead(f, p, q) /\ Ahead(f, q, p)
    BY <1>3 DEF Leaders
  <2>2. Key(f, p) \in Int /\ Key(f, q) \in Int /\ p \in Nat /\ q \in Nat
    BY <1>1, <1>2, <1>3, Players
  <2>3. Position(p) \in {1, 2} /\ Position(q) \in {1, 2}
    BY DEF Position
  <2> QED
    BY <2>1, <2>2, <2>3 DEF Ahead
<1> QED
  BY <1>1, <1>2, <1>3, <1>4

(* The individual trophies are those of the leaders.                       *)
LEMMA TrophiesOfLeaders ==
  ASSUME EditionOK, NEW f \in {"goals", "assists", "goals_conceded"}, NEW p, <<f, p>> \in awards
  PROVE  p \in Leaders(f) /\ \A m \in Match : complete[m]
<1> DEFINE solo == IF \A m \in Match : complete[m] THEN {"goals", "assists", "goals_conceded"} ELSE {}
           C == UNION {{g} \X Leaders(g) : g \in solo}
<1>1. <<f, p>> \in Awarded
  BY DEF EditionOK
<1>2. <<f, p>> \in C
  <2>1. \A x : <<f, p>> \notin {"champion"} \X x /\ <<f, p>> \notin {"runner_up"} \X x
    OBVIOUS
  <2> QED
    BY <1>1, <2>1 DEF Awarded
<1>3. PICK g \in solo : <<f, p>> \in {g} \X Leaders(g)
  <2> HIDE DEF solo
  <2> QED
    BY <1>2
<1>4. f = g /\ p \in Leaders(g)
  BY <1>3
<1> QED
  BY <1>3, <1>4

(***************************************************************************)
(* award_championship: at most one winner in each individual category, of  *)
(* a club that stayed, only when all statistics are complete; nobody did   *)
(* better, and among equals a player of the champion comes first.          *)
(***************************************************************************)
THEOREM AwardsGoToTheBest == Spec => []AwardsAreEarned
<1>1. SheetInv => AwardsAreEarned
  <2> SUFFICES ASSUME SheetInv, NEW f \in {"goals", "assists", "goals_conceded"}
               PROVE  LET named == {p \in Person : <<f, p>> \in awards}
                      IN /\ Cardinality(named) <= 1
                         /\ \A p \in named, q \in Person :
                              /\ \A m \in Match : complete[m]
                              /\ SideOf(p) \notin banned
                              /\ f # "goals_conceded" /\ SideOf(q) \notin banned
                                   => Scored(f, p) >= Scored(f, q) /\ Scored(f, p) > 0
                              /\ f = "goals_conceded" /\ SideOf(q) \notin banned /\ Guarded(q) # {}
                                   => LetIn(p) <= LetIn(q)
                              /\ q \in Eligible(f) /\ Key(f, p) = Key(f, q) /\ SideOf(q) = champion
                                   => SideOf(p) = champion
    BY DEF AwardsAreEarned
  <2> DEFINE named == {p \in Person : <<f, p>> \in awards}
  <2>0. Columns /\ EditionOK
    BY DEF SheetInv
  <2>1. \A p \in named : p \in Leaders(f) /\ \A m \in Match : complete[m]
    BY <2>0, TrophiesOfLeaders
  <2>2. Cardinality(named) <= 1
    <3>1. \A p, q \in named : p = q
      BY <2>1, OneLeader
    <3> HIDE DEF named
    <3>2. CASE named = {}
      BY <3>2, FS_EmptySet
    <3>3. CASE named # {}
      <4>1. PICK p : named = {p}
        BY <3>1, <3>3
      <4>2. Cardinality({p}) = 1
        BY FS_Singleton
      <4>3. Cardinality(named) = 1
        BY <4>1, <4>2, Zenon
      <4> QED
        BY <4>3
    <3> QED
      BY <3>2, <3>3
  <2>3. ASSUME NEW p \in named, NEW q \in Person
        PROVE  /\ SideOf(p) \notin banned
               /\ f # "goals_conceded" /\ SideOf(q) \notin banned
                    => Scored(f, p) >= Scored(f, q) /\ Scored(f, p) > 0
               /\ f = "goals_conceded" /\ SideOf(q) \notin banned /\ Guarded(q) # {}
                    => LetIn(p) <= LetIn(q)
               /\ q \in Eligible(f) /\ Key(f, p) = Key(f, q) /\ SideOf(q) = champion
                    => SideOf(p) = champion
    <3>1. /\ p \in Leaders(f) /\ p \in Person /\ p \in Eligible(f) /\ SideOf(p) \notin banned
          /\ Key(f, p) \in Int /\ Key(f, q) \in Int
      BY <2>1, OneLeader
    <3>2. q \in Eligible(f) => Ahead(f, p, q)
      BY <3>1 DEF Leaders
    <3>3. SideOf(q) \notin banned => q \in Ranked
      BY Players DEF Ranked
    <3>4. ASSUME f # "goals_conceded", SideOf(q) \notin banned
          PROVE  Scored(f, p) >= Scored(f, q) /\ Scored(f, p) > 0
      <4>1. Scored(f, p) \in Nat /\ Scored(f, q) \in Nat
        BY <2>0, <3>1, <3>4, ScoredIsNat
      <4>2. Scored(f, p) > 0
        BY <3>1, <3>4 DEF Eligible
      <4>3. Scored(f, q) > 0 => q \in Eligible(f)
        BY <3>3, <3>4 DEF Eligible
      <4>4. q \in Eligible(f) => -Scored(f, p) <= -Scored(f, q)
        BY <3>2, <3>4, <4>1 DEF Ahead, Key
      <4> QED
        BY <4>1, <4>2, <4>3, <4>4
    <3>5. ASSUME f = "goals_conceded", SideOf(q) \notin banned, Guarded(q) # {}
          PROVE  LetIn(p) <= LetIn(q)
      <4>1. q \in Eligible(f)
        BY <3>3, <3>5 DEF Eligible
      <4>2. Key(f, p) <= Key(f, q)
        BY <3>1, <3>2, <4>1 DEF Ahead
      <4> QED
        BY <3>5, <4>2 DEF Key
    <3>6. ASSUME q \in Eligible(f), Key(f, p) = Key(f, q), SideOf(q) = champion
          PROVE  SideOf(p) = champion
      <4>1. Position(q) = 1 /\ ~(Key(f, p) < Key(f, q))
        BY <3>1, <3>6 DEF Position
      <4>2. Position(p) = 1
        BY <3>2, <3>6, <4>1 DEF Ahead, Position
      <4> QED
        BY <4>2 DEF Position
    <3> QED
      BY <3>1, <3>4, <3>5, <3>6
  <2> QED
    BY <2>1, <2>2, <2>3
<1> QED
  BY <1>1, SheetInvariant, PTL
=============================================================================
