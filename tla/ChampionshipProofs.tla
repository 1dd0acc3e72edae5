-------------------------- MODULE ChampionshipProofs --------------------------
(***************************************************************************)
(* Proofs about the progress of an edition, for any clubs and any editions *)
(* an organiser may create.                                                *)
(***************************************************************************)
EXTENDS Championship, FiniteSetTheorems, SequenceTheorems, TLAPS

-----------------------------------------------------------------------------
(* Finite orders *)

(* R orders S, whatever else it orders.                                    *)
Lines(R, S) ==
  /\ \A p \in S : <<p, p>> \notin R
  /\ \A p, q \in S : p # q => <<p, q>> \in R \/ <<q, p>> \in R
  /\ \A p, q, t \in S : <<p, q>> \in R /\ <<q, t>> \in R => <<p, t>> \in R

Ahead(R, S, p) == {q \in S : <<q, p>> \in R}

Place(R, S, p) == Cardinality(Ahead(R, S, p))

(* Whoever comes later has more ahead.                                     *)
LEMMA PlaceGrows ==
  ASSUME NEW S, IsFiniteSet(S), NEW R, Lines(R, S)
  PROVE  /\ \A p \in S : Place(R, S, p) \in 0 .. Cardinality(S) - 1
         /\ \A p, q \in S : <<p, q>> \in R => Place(R, S, p) < Place(R, S, q)
<1>1. \A p \in S : Ahead(R, S, p) \in SUBSET S /\ p \notin Ahead(R, S, p)
  BY DEF Ahead, Lines
<1>2. \A p \in S : IsFiniteSet(Ahead(R, S, p)) /\ Place(R, S, p) \in Nat
  BY <1>1, FS_Subset, FS_CardinalityType DEF Place
<1>3. ASSUME NEW p \in S PROVE Place(R, S, p) < Cardinality(S)
  <2>1. Ahead(R, S, p) \in SUBSET (S \ {p})
    BY <1>1
  <2>2. IsFiniteSet(S \ {p}) /\ Cardinality(S \ {p}) = Cardinality(S) - 1
    BY FS_RemoveElement
  <2>3. Place(R, S, p) <= Cardinality(S \ {p})
    BY <2>1, <2>2, FS_Subset DEF Place
  <2> QED
    BY <1>2, <2>2, <2>3, FS_CardinalityType
<1>4. ASSUME NEW p \in S, NEW q \in S, <<p, q>> \in R
      PROVE  Place(R, S, p) < Place(R, S, q)
  <2>1. Ahead(R, S, p) \in SUBSET (Ahead(R, S, q) \ {p}) /\ p \in Ahead(R, S, q)
    BY <1>4 DEF Ahead, Lines
  <2>2. /\ IsFiniteSet(Ahead(R, S, q) \ {p})
        /\ Cardinality(Ahead(R, S, q) \ {p}) = Place(R, S, q) - 1
    BY <1>2, <2>1, FS_RemoveElement DEF Place
  <2>3. Place(R, S, p) <= Cardinality(Ahead(R, S, q) \ {p})
    BY <2>1, <2>2, FS_Subset DEF Place
  <2> QED
    BY <1>2, <2>2, <2>3
<1> QED
  BY <1>2, <1>3, <1>4, FS_CardinalityType

(* The places are 0, 1, ..., without gaps, and nobody shares one.          *)
LEMMA PlacesAreAll ==
  ASSUME NEW S, IsFiniteSet(S), NEW R, Lines(R, S)
  PROVE  /\ \A p, q \in S : p # q => Place(R, S, p) # Place(R, S, q)
         /\ \A k \in 0 .. Cardinality(S) - 1 : \E p \in S : Place(R, S, p) = k
<1> DEFINE n == Cardinality(S)
           f == [p \in S |-> Place(R, S, p)]
<1>1. n \in Nat
  BY FS_CardinalityType
<1>2. IsFiniteSet(0 .. n - 1) /\ Cardinality(0 .. n - 1) = n
  BY <1>1, FS_Interval
<1>3. ASSUME NEW p \in S, NEW q \in S, p # q
      PROVE  Place(R, S, p) # Place(R, S, q)
  <2>1. Place(R, S, p) \in Int /\ Place(R, S, q) \in Int
    BY <1>1, PlaceGrows
  <2>2. <<p, q>> \in R \/ <<q, p>> \in R
    BY <1>3 DEF Lines
  <2> QED
    BY <2>1, <2>2, PlaceGrows
<1>4. f \in Injection(S, 0 .. n - 1)
  BY <1>3, PlaceGrows DEF Injection, IsInjective
<1>5. f \in Surjection(S, 0 .. n - 1)
  <2> HIDE DEF f
  <2> QED
    BY <1>2, <1>4, FS_Injection
<1> QED
  BY <1>3, <1>5 DEF Surjection

(* Finitely many things in line have a first.                              *)
LEMMA SomeFirst ==
  ASSUME NEW S, IsFiniteSet(S), NEW R, Lines(R, S), S # {}
  PROVE  \E p \in S : \A q \in S : <<q, p>> \notin R
<1>1. Cardinality(S) \in Nat /\ Cardinality(S) # 0
  BY FS_CardinalityType, FS_EmptySet
<1>2. PICK p \in S : Place(R, S, p) = 0
  BY <1>1, PlacesAreAll
<1>3. \A q \in S : <<q, p>> \in R => Place(R, S, q) < 0 /\ Place(R, S, q) \in Nat
  BY <1>1, <1>2, PlaceGrows
<1> QED
  BY <1>3

(* Finitely many numbers have a least and a greatest.                      *)
LEMMA LeastAndGreatest ==
  ASSUME NEW S \in SUBSET Int, IsFiniteSet(S), S # {}
  PROVE  /\ \E x \in S : \A y \in S : x <= y
         /\ \E x \in S : \A y \in S : x >= y
<1> DEFINE R == {e \in S \X S : e[1] < e[2]}
           Q == {e \in S \X S : e[2] < e[1]}
<1>1. \A x, y \in S : (<<x, y>> \in R <=> x < y) /\ (<<x, y>> \in Q <=> y < x)
  OBVIOUS
<1>2. Lines(R, S) /\ Lines(Q, S)
  <2> HIDE DEF R, Q
  <2> QED
    BY <1>1 DEF Lines
<1>3. /\ \E p \in S : \A q \in S : <<q, p>> \notin R
      /\ \E p \in S : \A q \in S : <<q, p>> \notin Q
  <2> HIDE DEF R, Q
  <2> QED
    BY <1>2, SomeFirst
<1>4. \A x, y \in S : (~(y < x) <=> x <= y) /\ (~(x < y) <=> x >= y)
  OBVIOUS
<1> HIDE DEF R, Q
<1>5. \E x \in S : \A y \in S : x <= y
  BY <1>1, <1>3, <1>4
<1>6. \E x \in S : \A y \in S : x >= y
  BY <1>1, <1>3, <1>4
<1> QED
  BY <1>5, <1>6

-----------------------------------------------------------------------------
(* Sorting *)

(* The keys of n numbers.                                                  *)
Keys(n) == [1 .. n -> Int]

(* Precedes is the order of the dictionary.                                *)
LEMMA PrecedesOrders ==
  ASSUME NEW n \in Nat
  PROVE  /\ \A a \in Keys(n) : ~Precedes(a, a)
         /\ \A a, b \in Keys(n) : a # b => Precedes(a, b) \/ Precedes(b, a)
         /\ \A a, b, c \in Keys(n) : Precedes(a, b) /\ Precedes(b, c) => Precedes(a, c)
<1>1. \A a \in Keys(n) : ~Precedes(a, a)
  BY DEF Precedes, Keys
<1>2. ASSUME NEW a \in Keys(n), NEW b \in Keys(n), a # b
      PROVE  Precedes(a, b) \/ Precedes(b, a)
  <2> DEFINE D == {i \in 1 .. n : a[i] # b[i]}
  <2>1. D # {}
    BY <1>2 DEF Keys
  <2>2. IsFiniteSet(D)
    BY FS_Interval, FS_Subset
  <2>3. PICK i \in D : \A j \in D : i <= j
    <3> D \in SUBSET Int
      OBVIOUS
    <3> HIDE DEF D
    <3> QED
      BY <2>1, <2>2, LeastAndGreatest
  <2>4. \A j \in 1 .. i - 1 : a[j] = b[j]
    BY <2>3
  <2> QED
    BY <2>4 DEF Precedes, Keys
<1>3. ASSUME NEW a \in Keys(n), NEW b \in Keys(n), NEW c \in Keys(n),
             Precedes(a, b), Precedes(b, c)
      PROVE  Precedes(a, c)
  <2>1. PICK i \in 1 .. n : a[i] < b[i] /\ \A j \in 1 .. i - 1 : a[j] = b[j]
    BY <1>3 DEF Precedes, Keys
  <2>2. PICK k \in 1 .. n : b[k] < c[k] /\ \A j \in 1 .. k - 1 : b[j] = c[j]
    BY <1>3 DEF Precedes, Keys
  <2>3. a[i] \in Int /\ b[i] \in Int /\ c[i] \in Int /\ a[k] \in Int /\ b[k] \in Int /\ c[k] \in Int
    BY DEF Keys
  <2>4. CASE i <= k
    <3>1. a[i] < c[i] /\ \A j \in 1 .. i - 1 : a[j] = c[j]
      BY <2>1, <2>2, <2>3, <2>4
    <3> QED
      BY <3>1 DEF Precedes, Keys
  <2>5. CASE k < i
    <3>1. a[k] < c[k] /\ \A j \in 1 .. k - 1 : a[j] = c[j]
      BY <2>1, <2>2, <2>3, <2>5
    <3> QED
      BY <3>1 DEF Precedes, Keys
  <2> QED
    BY <2>4, <2>5
<1> QED
  BY <1>1, <1>2, <1>3

(* What can be sorted: things with different keys of n numbers.            *)
Sortable(pairs, n) ==
  /\ IsFiniteSet(pairs)
  /\ \A p \in pairs : p = <<p[1], p[2]>> /\ p[2] \in Keys(n)
  /\ \A p, q \in pairs : p # q => p[1] # q[1] /\ p[2] # q[2]

(* Sorting loses and repeats nothing, and puts a least key first.          *)
LEMMA SortedProperties ==
  ASSUME NEW pairs, NEW n \in Nat, Sortable(pairs, n)
  PROVE  LET s == Sorted(pairs)
         IN /\ s \in [1 .. Cardinality(pairs) -> {p[1] : p \in pairs}]
            /\ \A p \in pairs : \E k \in 1 .. Cardinality(pairs) : s[k] = p[1]
            /\ \A j, k \in 1 .. Cardinality(pairs) : s[j] = s[k] => j = k
            /\ \A p, q \in pairs : s[1] = p[1] => ~Precedes(q[2], p[2])
<1> DEFINE N == Cardinality(pairs)
           R == {e \in pairs \X pairs : Precedes(e[1][2], e[2][2])}
           s == Sorted(pairs)
           placed == {<<p[1], 1 + Cardinality({q \in pairs : Precedes(q[2], p[2])})>> : p \in pairs}
<1>1. \A p, q \in pairs : <<p, q>> \in R <=> Precedes(p[2], q[2])
  OBVIOUS
<1>2. Lines(R, pairs)
  <2> HIDE DEF R
  <2> QED
    BY <1>1, PrecedesOrders DEF Lines, Sortable
<1>3. N \in Nat
  BY FS_CardinalityType DEF Sortable
<1>4. \A p \in pairs : {q \in pairs : Precedes(q[2], p[2])} = Ahead(R, pairs, p)
  <2> HIDE DEF R
  <2> QED
    BY <1>1 DEF Ahead
<1>5. placed = {<<p[1], 1 + Place(R, pairs, p)>> : p \in pairs}
  <2>1. \A p \in pairs : Cardinality({q \in pairs : Precedes(q[2], p[2])}) = Place(R, pairs, p)
    <3> HIDE DEF R
    <3> QED
      BY <1>4 DEF Place
  <2> HIDE DEF R
  <2> QED
    BY <2>1
<1>6. s = [k \in 1 .. N |-> (CHOOSE p \in placed : p[2] = k)[1]]
  BY DEF Sorted
<1> HIDE DEF R, s, placed
<1>7. ASSUME NEW p \in pairs
      PROVE  /\ 1 + Place(R, pairs, p) \in 1 .. N
             /\ s[1 + Place(R, pairs, p)] = p[1]
  <2> DEFINE k == 1 + Place(R, pairs, p)
  <2>1. k \in 1 .. N
    BY <1>2, <1>3, PlaceGrows DEF Sortable
  <2>2. <<p[1], k>> \in placed
    BY <1>5
  <2>3. \A q \in pairs : 1 + Place(R, pairs, q) = k => q = p
    BY <1>2, <1>3, PlacesAreAll, PlaceGrows DEF Sortable
  <2>4. \A e \in placed : e[2] = k => e = <<p[1], k>>
    BY <1>5, <2>3
  <2>5. (CHOOSE e \in placed : e[2] = k) = <<p[1], k>>
    <3> HIDE DEF k
    <3> QED
      BY <2>2, <2>4
  <2> QED
    BY <1>6, <2>1, <2>5
<1>8. ASSUME NEW k \in 1 .. N
      PROVE  \E p \in pairs : k = 1 + Place(R, pairs, p) /\ s[k] = p[1]
  <2>1. k - 1 \in 0 .. N - 1
    BY <1>3
  <2>2. PICK p \in pairs : Place(R, pairs, p) = k - 1
    BY <1>2, <2>1, PlacesAreAll DEF Sortable
  <2> QED
    BY <1>3, <1>7, <2>2
<1>9. s \in [1 .. N -> {p[1] : p \in pairs}]
  BY <1>6, <1>8
<1>10. ASSUME NEW j \in 1 .. N, NEW k \in 1 .. N, s[j] = s[k]
       PROVE  j = k
  BY <1>8, <1>10 DEF Sortable
<1>11. ASSUME NEW p \in pairs, NEW q \in pairs, s[1] = p[1]
       PROVE  ~Precedes(q[2], p[2])
  <2>1. N # 0
    BY FS_EmptySet DEF Sortable
  <2>2. 1 \in 1 .. N
    BY <1>3, <2>1
  <2>3. PICK r \in pairs : 1 = 1 + Place(R, pairs, r) /\ s[1] = r[1]
    BY <1>8, <2>2
  <2>4. r = p
    BY <1>11, <2>3 DEF Sortable
  <2>5. Place(R, pairs, p) \in Int /\ Place(R, pairs, q) \in Nat
    BY <1>2, <1>3, PlaceGrows DEF Sortable
  <2>6. <<q, p>> \in R => Place(R, pairs, q) < Place(R, pairs, p)
    BY <1>2, PlaceGrows DEF Sortable
  <2> QED
    BY <1>1, <2>3, <2>4, <2>5, <2>6
<1> QED
  BY <1>3, <1>7, <1>9, <1>10, <1>11 DEF s

(* The first n numbers are n.                                              *)
LEMMA UpTo ==
  ASSUME NEW n \in Nat
  PROVE  IsFiniteSet(1 .. n) /\ Cardinality(1 .. n) = n
BY FS_Interval

(* The values of a function of finitely many things.                       *)
LEMMA FiniteRange ==
  ASSUME NEW S, IsFiniteSet(S), NEW T, NEW f \in [S -> T]
  PROVE  /\ IsFiniteSet(Range(f))
         /\ Cardinality(Range(f)) <= Cardinality(S)
         /\ IsInjective(f) => Cardinality(Range(f)) = Cardinality(S)
<1>1. f \in Surjection(S, Range(f))
  BY DEF Surjection, Range
<1>2. IsInjective(f) => f \in Injection(S, Range(f))
  BY DEF Injection, Range
<1> QED
  BY <1>1, <1>2, FS_Surjection

(* The things of S with their keys.                                        *)
Keyed(pairs, S, key) ==
  /\ \A p \in pairs : p[1] \in S /\ p = <<p[1], key[p[1]]>>
  /\ \A c \in S : <<c, key[c]>> \in pairs

(* The things of S sorted by their keys.                                   *)
LEMMA SortedByKey ==
  ASSUME NEW S, IsFiniteSet(S), NEW n \in Nat, NEW key \in [S -> Keys(n)], IsInjective(key),
         NEW pairs, Keyed(pairs, S, key)
  PROVE  LET s == Sorted(pairs)
         IN /\ s \in [1 .. Cardinality(S) -> S]
            /\ IsInjective(s)
            /\ \A c \in S : \E k \in 1 .. Cardinality(S) : s[k] = c
            /\ \A c, d \in S : s[1] = c => ~Precedes(key[d], key[c])
<1> DEFINE f == [c \in S |-> <<c, key[c]>>]
           s == Sorted(pairs)
<1>1. f \in [S -> pairs] /\ IsInjective(f) /\ Range(f) = pairs
  <2>1. f \in [S -> pairs] /\ IsInjective(f)
    BY DEF IsInjective, Keyed
  <2>2. \A p \in pairs : \E c \in S : f[c] = p
    BY DEF Keyed
  <2> QED
    BY <2>1, <2>2 DEF Range
<1>2. IsFiniteSet(pairs) /\ Cardinality(pairs) = Cardinality(S)
  <2> HIDE DEF f
  <2> QED
    BY <1>1, FiniteRange
<1>3. Sortable(pairs, n)
  BY <1>2 DEF Sortable, IsInjective, Keyed
<1>4. {p[1] : p \in pairs} = S
  <2>1. \A c \in S : <<c, key[c]>> \in pairs /\ <<c, key[c]>>[1] = c
    BY DEF Keyed
  <2> QED
    BY <2>1 DEF Keyed
<1>5. /\ s \in [1 .. Cardinality(S) -> S]
      /\ \A p \in pairs : \E k \in 1 .. Cardinality(S) : s[k] = p[1]
      /\ \A j, k \in 1 .. Cardinality(S) : s[j] = s[k] => j = k
      /\ \A p, q \in pairs : s[1] = p[1] => ~Precedes(q[2], p[2])
  BY <1>2, <1>3, <1>4, SortedProperties
<1> HIDE DEF s
<1>6. \A c \in S : <<c, key[c]>> \in pairs /\ <<c, key[c]>>[1] = c /\ <<c, key[c]>>[2] = key[c]
  BY DEF Keyed
<1>7. \A c \in S : \E k \in 1 .. Cardinality(S) : s[k] = c
  BY <1>5, <1>6
<1>8. ASSUME NEW c \in S, NEW d \in S, s[1] = c
      PROVE  ~Precedes(key[d], key[c])
  <2>1. ~Precedes(<<d, key[d]>>[2], <<c, key[c]>>[2])
    BY <1>5, <1>6, <1>8
  <2> QED
    BY <1>6, <2>1
<1>9. IsInjective(s)
  BY <1>5 DEF IsInjective
<1> QED
  BY <1>5, <1>7, <1>8, <1>9 DEF s

(* t holds what s has in the places I.                                     *)
Picks(t, s, I) ==
  /\ DOMAIN t = 1 .. Cardinality(I)
  /\ t = [k \in 1 .. Cardinality(I) |-> t[k]]
  /\ \A k \in 1 .. Cardinality(I) : \E i \in I : t[k] = s[i]
  /\ \A i \in I : \E k \in 1 .. Cardinality(I) : t[k] = s[i]
  /\ \A j, k \in 1 .. Cardinality(I) :
       j # k => \E h, i \in I : h # i /\ t[j] = s[h] /\ t[k] = s[i]

(* Picking takes what is in those places.                                  *)
LEMMA PickedProperties ==
  ASSUME NEW I \in SUBSET Int, IsFiniteSet(I), NEW s
  PROVE  Picks(Picked(s, I), s, I)
<1> DEFINE key == [i \in I |-> <<i>>]
           pairs == {<<i, <<i>> >> : i \in I}
           order == Sorted(pairs)
<1>1. \A i \in I : <<i>> \in Keys(1)
  BY DEF Keys
<1>2. key \in [I -> Keys(1)] /\ IsInjective(key)
  BY <1>1 DEF IsInjective
<1>3. Keyed(pairs, I, key)
  BY DEF Keyed
<1>4. /\ order \in [1 .. Cardinality(I) -> I] /\ IsInjective(order)
      /\ \A i \in I : \E k \in 1 .. Cardinality(I) : order[k] = i
  <2> HIDE DEF key, pairs, order
  <2>1. 1 \in Nat
    OBVIOUS
  <2>2. LET t == Sorted(pairs)
        IN /\ t \in [1 .. Cardinality(I) -> I]
           /\ IsInjective(t)
           /\ \A c \in I : \E k \in 1 .. Cardinality(I) : t[k] = c
           /\ \A c, d \in I : t[1] = c => ~Precedes(key[d], key[c])
    BY <1>2, <1>3, <2>1, SortedByKey, Zenon
  <2> QED
    BY <2>2 DEF order
<1>5. Picked(s, I) = [k \in 1 .. Cardinality(I) |-> s[order[k]]]
  BY <1>4 DEF Picked
<1> HIDE DEF order
<1>6. \A j, k \in 1 .. Cardinality(I) : j # k => order[j] \in I /\ order[k] \in I /\ order[j] # order[k]
  BY <1>4 DEF IsInjective
<1> QED
  BY <1>4, <1>5, <1>6 DEF Picks

-----------------------------------------------------------------------------
(* Entries and tables *)

(* The rows of the edition's clubs, by seed.                               *)
Enrolled == entries \in Seq(Club) /\ IsInjective(entries)

(* Every club entered has one seed, and the seeds count the clubs.         *)
LEMMA Seeds ==
  ASSUME Enrolled
  PROVE  /\ \A c \in Entered : Seed(c) \in 1 .. Len(entries) /\ entries[Seed(c)] = c
         /\ \A i \in 1 .. Len(entries) : entries[i] \in Entered /\ Seed(entries[i]) = i
         /\ Entered \in SUBSET Club
         /\ IsFiniteSet(Entered) /\ Cardinality(Entered) = Len(entries) /\ Len(entries) \in Nat
<1>1. /\ entries \in [1 .. Len(entries) -> Club] /\ DOMAIN entries = 1 .. Len(entries)
      /\ Len(entries) \in Nat
  BY LenProperties DEF Enrolled
<1>2. \A c \in Entered : Seed(c) \in 1 .. Len(entries) /\ entries[Seed(c)] = c
  BY <1>1 DEF Entered, Range, Seed
<1>3. \A i \in 1 .. Len(entries) : entries[i] \in Entered
  BY <1>1 DEF Entered, Range
<1>4. \A i \in 1 .. Len(entries) : Seed(entries[i]) = i
  BY <1>1, <1>2, <1>3 DEF Enrolled, IsInjective
<1>5. IsFiniteSet(1 .. Len(entries)) /\ Cardinality(1 .. Len(entries)) = Len(entries)
  BY <1>1, UpTo
<1>6. IsFiniteSet(Entered) /\ Cardinality(Entered) = Len(entries)
  BY <1>1, <1>5, FiniteRange DEF Enrolled, Entered
<1> QED
  BY <1>1, <1>2, <1>3, <1>4, <1>6 DEF Entered, Range

(* What a club has done in finitely many games is counted in numbers.      *)
LEMMA FormType ==
  ASSUME NEW games \in SUBSET MatchType, IsFiniteSet(games), NEW c
  PROVE  Form(games, c) \in [won : Nat, drawn : Nat, lost : Nat, goals : Nat]
<1> DEFINE mine == {m \in games : m.decided /\ Plays(m, c)}
           Scores(m) == {m} \X (1 .. Scored(m, c))
           scores == [m \in mine |-> Scores(m)]
<1>1. IsFiniteSet(mine)
  BY FS_Subset
<1>2. \A T \in SUBSET mine : Cardinality(T) \in Nat
  BY <1>1, FS_Subset, FS_CardinalityType
<1>3. ASSUME NEW m \in mine
      PROVE  IsFiniteSet(Scores(m))
  <2>1. Scored(m, c) \in Nat
    BY DEF Scored, MatchType
  <2>2. IsFiniteSet({m}) /\ IsFiniteSet(1 .. Scored(m, c))
    BY <2>1, FS_Singleton, UpTo
  <2> QED
    BY <2>2, FS_Product
<1>4. IsFiniteSet(Range(scores))
  <2>1. scores \in [mine -> Range(scores)]
    BY DEF Range
  <2> HIDE DEF scores, mine
  <2> QED
    BY <1>1, <2>1, FiniteRange
<1>5. \A T \in Range(scores) : IsFiniteSet(T)
  BY <1>3 DEF Range
<1>6. UNION {Scores(m) : m \in mine} = UNION Range(scores)
  BY DEF Range
<1>7. Cardinality(UNION {Scores(m) : m \in mine}) \in Nat
  <2>1. IsFiniteSet(UNION Range(scores))
    BY <1>4, <1>5, FS_UNION
  <2> QED
    BY <1>6, <2>1, FS_CardinalityType
<1>8. /\ Cardinality({m \in mine : Scored(m, c) > Conceded(m, c)}) \in Nat
      /\ Cardinality({m \in mine : Scored(m, c) = Conceded(m, c)}) \in Nat
      /\ Cardinality({m \in mine : Scored(m, c) < Conceded(m, c)}) \in Nat
  <2> HIDE DEF mine
  <2> QED
    BY <1>2
<1> QED
  BY <1>7, <1>8 DEF Form

(* An edition as a handler has written it so far.                          *)
Written(ed) ==
  /\ ed.matches \in Seq(MatchType)
  /\ ed.banned \in SUBSET Entered
  /\ ed.deducted \in [Club -> Nat]

(* Seven numbers make a key.                                               *)
LEMMA SevenAreAKey ==
  ASSUME NEW a1 \in Int, NEW a2 \in Int, NEW a3 \in Int, NEW a4 \in Int, NEW a5 \in Int,
         NEW a6 \in Int, NEW a7 \in Int
  PROVE  <<a1, a2, a3, a4, a5, a6, a7>> \in Keys(7)
BY DEF Keys

(* What the matches gave a club, less what it was fined.                   *)
Net(ed, games, c) == Points(Form(games, c)) - ed.deducted[c]

(* Every club has a rank of its own; the disqualified come last.           *)
LEMMA RankProperties ==
  ASSUME Enrolled, NEW ed, Written(ed), NEW games \in SUBSET MatchType, IsFiniteSet(games),
         NEW c \in Entered
  PROVE  LET r == Rank(ed, games, c)
         IN /\ r \in Keys(7)
            /\ r[1] = IF c \in ed.banned THEN 1 ELSE 0
            /\ r[2] = -Net(ed, games, c) /\ Net(ed, games, c) \in Int
            /\ r[7] = Seed(c)
<1> DEFINE form == Form(games, c)
<1>1. form \in [won : Nat, drawn : Nat, lost : Nat, goals : Nat]
  BY FormType
<1>2. c \in Club /\ Seed(c) \in Int
  BY Seeds
<1>3. Points(form) - ed.deducted[c] \in Int /\ Net(ed, games, c) = Points(form) - ed.deducted[c]
  BY <1>1, <1>2 DEF Points, Written, Net
<1> HIDE DEF form
<1> DEFINE a1 == IF c \in ed.banned THEN 1 ELSE 0
           a2 == -(Points(form) - ed.deducted[c])
           a3 == -form.won
           a4 == -form.drawn
           a6 == -form.goals
<1>4. a1 \in Int /\ a2 \in Int /\ a3 \in Int /\ a4 \in Int /\ form.lost \in Int /\ a6 \in Int
  BY <1>1, <1>3
<1>5. Rank(ed, games, c) = <<a1, a2, a3, a4, form.lost, a6, Seed(c)>>
  BY DEF Rank, RankOf, form
<1> HIDE DEF a1, a2, a3, a4, a6
<1>6. Rank(ed, games, c) \in Keys(7)
  <2>1. <<a1, a2, a3, a4, form.lost, a6, Seed(c)>> \in Keys(7)
    BY <1>2, <1>4, SevenAreAKey, Zenon
  <2> QED
    BY <1>5, <2>1
<1> QED
  BY <1>3, <1>5, <1>6 DEF a1, a2

(* A table holds each of its clubs once; the first is not disqualified if  *)
(* any is not, and none of those has more points.                          *)
LEMMA TableProperties ==
  ASSUME Enrolled, NEW ed, Written(ed), NEW games \in SUBSET MatchType, IsFiniteSet(games),
         NEW S \in SUBSET Entered
  PROVE  LET t == Table(ed, games, S)
         IN /\ t \in [1 .. Cardinality(S) -> S]
            /\ IsInjective(t)
            /\ \A c \in S : \E k \in 1 .. Cardinality(S) : t[k] = c
            /\ \A c \in S \ ed.banned :
                 t[1] \notin ed.banned /\ Net(ed, games, c) <= Net(ed, games, t[1])
            /\ Cardinality(S) \in Nat
<1> DEFINE key == [c \in S |-> Rank(ed, games, c)]
           pairs == {<<c, Rank(ed, games, c)>> : c \in S}
           t == Sorted(pairs)
           N == Cardinality(S)
<1>1. IsFiniteSet(S) /\ N \in Nat
  BY Seeds, FS_Subset, FS_CardinalityType
<1>2. key \in [S -> Keys(7)]
  BY RankProperties
<1>3. IsInjective(key)
  <2> SUFFICES ASSUME NEW c \in S, NEW d \in S, key[c] = key[d] PROVE c = d
    BY DEF IsInjective
  <2>1. Seed(c) = Seed(d)
    BY RankProperties
  <2> QED
    BY <2>1, Seeds
<1>4. Keyed(pairs, S, key)
  BY DEF Keyed
<1>5. /\ t \in [1 .. N -> S]
      /\ IsInjective(t)
      /\ \A c \in S : \E k \in 1 .. N : t[k] = c
      /\ \A c, d \in S : t[1] = c => ~Precedes(key[d], key[c])
  <2>1. 7 \in Nat
    OBVIOUS
  <2>2. LET s == Sorted(pairs)
        IN /\ s \in [1 .. Cardinality(S) -> S]
           /\ IsInjective(s)
           /\ \A c \in S : \E k \in 1 .. Cardinality(S) : s[k] = c
           /\ \A c, d \in S : s[1] = c => ~Precedes(key[d], key[c])
    <3> HIDE DEF key, pairs
    <3> QED
      BY <1>1, <1>2, <1>3, <1>4, <2>1, SortedByKey, Zenon
  <2> QED
    BY <2>2
<1>6. ASSUME NEW c \in S \ ed.banned
      PROVE  t[1] \notin ed.banned /\ Net(ed, games, c) <= Net(ed, games, t[1])
  <2>1. N # 0
    BY <1>1, FS_EmptySet
  <2>2. t[1] \in S
    <3> HIDE DEF t
    <3> QED
      BY <1>1, <1>5, <2>1
  <2>3. ~Precedes(key[c], key[t[1]])
    <3> HIDE DEF t, key
    <3> QED
      BY <1>5, <2>2
  <2>4. /\ key[c] \in Keys(7) /\ key[t[1]] \in Keys(7)
        /\ key[c][1] = 0
        /\ key[t[1]][1] = IF t[1] \in ed.banned THEN 1 ELSE 0
        /\ key[c][2] = -Net(ed, games, c) /\ Net(ed, games, c) \in Int
        /\ key[t[1]][2] = -Net(ed, games, t[1]) /\ Net(ed, games, t[1]) \in Int
    <3> HIDE DEF t
    <3> QED
      BY <2>2, RankProperties
  <2>5. ASSUME t[1] \in ed.banned
        PROVE  FALSE
    <3> HIDE DEF t, key
    <3>1. 1 \in 1 .. 7 /\ key[c][1] < key[t[1]][1] /\ \A j \in 1 .. 1 - 1 : key[c][j] = key[t[1]][j]
      BY <2>4, <2>5
    <3>2. Precedes(key[c], key[t[1]])
      BY <2>4, <3>1 DEF Precedes, Keys
    <3> QED
      BY <2>3, <3>2
  <2>6. ASSUME t[1] \notin ed.banned, Net(ed, games, t[1]) < Net(ed, games, c)
        PROVE  FALSE
    <3> HIDE DEF t, key
    <3>1. 2 \in 1 .. 7 /\ key[c][2] < key[t[1]][2] /\ \A j \in 1 .. 2 - 1 : key[c][j] = key[t[1]][j]
      BY <2>4, <2>6
    <3>2. Precedes(key[c], key[t[1]])
      BY <2>4, <3>1 DEF Precedes, Keys
    <3> QED
      BY <2>3, <3>2
  <2> HIDE DEF t, key
  <2> QED
    BY <2>4, <2>5, <2>6
<1>7. Table(ed, games, S) = t
  BY DEF Table
<1> QED
  BY <1>1, <1>5, <1>6, <1>7

-----------------------------------------------------------------------------
(* New fixtures *)

Stage == {"league", "knockout", "groups", "winners", "losers", "grand_final"}

(* Matches still to be played, all between clubs of S.                     *)
ToPlay(drawn, S) ==
  /\ drawn \in Seq(MatchType)
  /\ Len(drawn) > 0
  /\ \A k \in 1 .. Len(drawn) : /\ ~drawn[k].decided /\ drawn[k].winner = NoClub
                                /\ {drawn[k].home, drawn[k].away} \subseteq S

(* A match of these clubs that is to be played.                            *)
Due(m, stage, round, home, away) ==
  /\ m \in MatchType /\ ~m.decided /\ m.winner = NoClub
  /\ m.stage = stage /\ m.round = round /\ m.home = home /\ m.away = away

(* A fixture is one.                                                       *)
LEMMA FixtureType ==
  ASSUME NEW stage \in Stage, NEW round \in Nat, NEW group \in 0 .. 4,
         NEW home \in Club, NEW away \in Club
  PROVE  Due(Fixture(stage, round, group, home, away), stage, round, home, away)
BY DEF Due, Fixture, MatchType, Stage

(* d is the n ties between the clubs of s, two by two.                     *)
TwoByTwo(d, n, ties, s, S) ==
  /\ ToPlay(d, S) /\ Len(d) = n
  /\ \A k \in 1 .. n : /\ d[k].stage = ties[k].stage /\ d[k].round = ties[k].round
                       /\ d[k].home = s[2 * k - 1] /\ d[k].away = s[2 * k]

(* Ties between the clubs of s, all of S.                                  *)
LEMMA PairedProperties ==
  ASSUME NEW S \in SUBSET Club, NEW n \in Nat \ {0}, NEW ties \in [1 .. n -> [stage : Stage, round : Nat]],
         NEW m \in Nat, 2 * n <= m, NEW s \in [1 .. m -> S]
  PROVE  TwoByTwo(Paired(ties, s), n, ties, s, S)
<1> DEFINE d == Paired(ties, s)
<1>1. d = [k \in 1 .. n |-> Fixture(ties[k].stage, ties[k].round, 0, s[2 * k - 1], s[2 * k])]
  BY DEF Paired
<1> HIDE DEF d
<1>2. ASSUME NEW k \in 1 .. n
      PROVE  /\ d[k] \in MatchType /\ ~d[k].decided /\ d[k].winner = NoClub
             /\ d[k].stage = ties[k].stage /\ d[k].round = ties[k].round
             /\ d[k].home = s[2 * k - 1] /\ d[k].away = s[2 * k]
             /\ {d[k].home, d[k].away} \subseteq S
  <2>1. ties[k].stage \in Stage /\ ties[k].round \in Nat
    OBVIOUS
  <2>2. s[2 * k - 1] \in S /\ s[2 * k] \in S
    OBVIOUS
  <2>3. d[k] = Fixture(ties[k].stage, ties[k].round, 0, s[2 * k - 1], s[2 * k])
    BY <1>1
  <2> DEFINE stage == ties[k].stage
             round == ties[k].round
             home == s[2 * k - 1]
             away == s[2 * k]
  <2>4. stage \in Stage /\ round \in Nat /\ home \in Club /\ away \in Club /\ 0 \in 0 .. 4
    BY <2>1, <2>2
  <2> HIDE DEF stage, round, home, away
  <2>5. Due(Fixture(stage, round, 0, home, away), stage, round, home, away)
    BY <2>4, FixtureType
  <2> QED
    BY <2>2, <2>3, <2>5 DEF stage, round, home, away, Due
<1>3. d \in Seq(MatchType) /\ Len(d) = n
  <2>1. \A k \in 1 .. n : d[k] \in MatchType
    BY <1>2
  <2> QED
    BY <1>1, <2>1
<1> QED
  BY <1>2, <1>3 DEF ToPlay, TwoByTwo, d

(* Matches that share no club, and matches of one round.                   *)
Apart(a, b) == {a.home, a.away} \cap {b.home, b.away} = {}

SameRound(a, b) == a.stage = b.stage /\ a.stage # "groups" /\ a.round = b.round

Spread(d) == \A j, k \in 1 .. Len(d) : j # k => Apart(d[j], d[k])

(* d is one more round of the knockout, with two clubs of its own in each  *)
(* match.                                                                  *)
NewRound(ms, d) ==
  /\ Spread(d)
  /\ \E r \in Nat : /\ \A k \in 1 .. Len(d) : d[k].stage = "knockout" /\ d[k].round = r
                    /\ \A i \in 1 .. Len(ms) : ms[i].stage = "knockout" => ms[i].round < r

(* Nobody plays twice in a round.                                          *)
Tidy(ms) == \A j \in 1 .. Len(ms) : \A i \in 1 .. j - 1 : SameRound(ms[i], ms[j]) => Apart(ms[i], ms[j])

WonBySides(ms) == \A i \in 1 .. Len(ms) : ms[i].winner \in {ms[i].home, ms[i].away, NoClub}

(* The matches of a cascade, in their order.                               *)
CascadeStage == <<"winners", "winners", "winners", "losers", "losers", "grand_final">>
CascadeRound == <<1, 1, 2, 1, 2, 1>>

InCascade(ms) ==
  /\ Len(ms) <= 6
  /\ \A i \in 1 .. Len(ms) : ms[i].stage = CascadeStage[i] /\ ms[i].round = CascadeRound[i]

(* The rounds of an edition: the last one of the knockout is the greatest. *)
Rounds(ms) ==
  /\ Tidy(ms) /\ WonBySides(ms)
  /\ \A i \in 1 .. Len(ms) :
       ms[i].stage = "knockout" => Last(ms).stage = "knockout" /\ ms[i].round <= Last(ms).round
  /\ rules.format = "cascade" /\ Len(ms) > 0 /\ Last(ms).stage # "knockout" => InCascade(ms)

(* Two by two, clubs that are all different meet once.                     *)
LEMMA PairedSpread ==
  ASSUME NEW S, NEW n \in Nat, NEW m \in Nat, 2 * n <= m, NEW s \in [1 .. m -> S], IsInjective(s),
         NEW ties, NEW d, TwoByTwo(d, n, ties, s, S)
  PROVE  Spread(d)
<1> SUFFICES ASSUME NEW j \in 1 .. n, NEW k \in 1 .. n, j # k PROVE Apart(d[j], d[k])
  BY DEF Spread, TwoByTwo
<1>1. /\ 2 * j - 1 \in 1 .. m /\ 2 * j \in 1 .. m /\ 2 * k - 1 \in 1 .. m /\ 2 * k \in 1 .. m
      /\ 2 * j - 1 # 2 * k - 1 /\ 2 * j - 1 # 2 * k /\ 2 * j # 2 * k - 1 /\ 2 * j # 2 * k
  OBVIOUS
<1>2. /\ s[2 * j - 1] # s[2 * k - 1] /\ s[2 * j - 1] # s[2 * k]
      /\ s[2 * j] # s[2 * k - 1] /\ s[2 * j] # s[2 * k]
  BY <1>1 DEF IsInjective
<1> QED
  BY <1>2 DEF Apart, TwoByTwo

(* The matches on record are finitely many.                                *)
LEMMA Records ==
  ASSUME NEW ed, Written(ed)
  PROVE  Range(ed.matches) \in SUBSET MatchType /\ IsFiniteSet(Range(ed.matches))
<1>1. /\ ed.matches \in [1 .. Len(ed.matches) -> MatchType] /\ Len(ed.matches) \in Nat
  BY LenProperties DEF Written
<1>2. IsFiniteSet(Range(ed.matches))
  BY <1>1, UpTo, FiniteRange
<1> QED
  BY <1>1, <1>2 DEF Range

(* Those still in are finitely many clubs.                                 *)
LEMMA ThoseStillIn ==
  ASSUME Enrolled, NEW ed
  PROVE  /\ StillIn(ed) \in SUBSET Entered /\ StillIn(ed) \in SUBSET Club
         /\ IsFiniteSet(StillIn(ed)) /\ Cardinality(StillIn(ed)) \in Nat
         /\ Cardinality(StillIn(ed)) <= Len(entries)
BY Seeds, FS_Subset, FS_CardinalityType DEF StillIn

(* Of N numbers at most, between one and N do not exceed a given one.      *)
LEMMA TurnInRange ==
  ASSUME NEW V, IsFiniteSet(V), NEW N \in Nat, Cardinality(V) <= N, V \in SUBSET Int, NEW k \in V
  PROVE  Cardinality({j \in V : j <= k}) \in 1 .. N
<1> DEFINE T == {j \in V : j <= k}
<1>1. T \in SUBSET V /\ k \in T
  OBVIOUS
<1>2. IsFiniteSet(T) /\ Cardinality(T) <= Cardinality(V) /\ Cardinality(T) \in Nat
  BY <1>1, FS_Subset, FS_CardinalityType
<1>3. Cardinality(T) # 0
  BY <1>1, <1>2, FS_EmptySet
<1>4. Cardinality(V) \in Nat
  BY FS_CardinalityType
<1> QED
  BY <1>2, <1>3, <1>4

(* Where there are enough reserves, every place is taken by a club that is *)
(* still in.                                                               *)
LEMMA FilledProperties ==
  ASSUME Enrolled, NEW ed, Written(ed), NEW n \in Nat, NEW s \in [1 .. n -> Club \cup {NoClub}],
         Enough(ed, s)
  PROVE  Filled(ed, s) \in [1 .. n -> StillIn(ed)]
<1> DEFINE others == StillIn(ed) \ Range(s)
           next   == Reserves(ed, s)
           vacant == Vacant(ed, s)
           Turn(k) == Cardinality({j \in vacant : j <= k})
<1>1. others \in SUBSET Entered /\ Cardinality(others) \in Nat
  BY Seeds, FS_Subset, FS_CardinalityType DEF StillIn
<1>2. next \in [1 .. Cardinality(others) -> others]
  BY <1>1, Records, TableProperties DEF Reserves, GeneralTable
<1>3. IsFiniteSet(vacant) /\ vacant \in SUBSET (1 .. n)
  BY UpTo, FS_Subset DEF Vacant
<1>4. Cardinality(vacant) <= Cardinality(others)
  BY DEF Enough
<1>5. ASSUME NEW k \in vacant
      PROVE  Turn(k) \in 1 .. Cardinality(others)
  BY <1>1, <1>3, <1>4, TurnInRange
<1>6. Filled(ed, s) = [k \in 1 .. n |-> IF k \in vacant THEN next[Turn(k)] ELSE s[k]]
  BY DEF Filled
<1>7. ASSUME NEW k \in 1 .. n
      PROVE  (IF k \in vacant THEN next[Turn(k)] ELSE s[k]) \in StillIn(ed)
  <2>1. CASE k \in vacant
    <3>1. next[Turn(k)] \in others
      <4> HIDE DEF next, others, vacant
      <4> QED
        BY <1>2, <1>5, <2>1
    <3> QED
      BY <2>1, <3>1
  <2>2. CASE k \notin vacant
    BY <2>2 DEF Vacant
  <2> QED
    BY <2>1, <2>2
<1> HIDE DEF vacant, next
<1> QED
  BY <1>6, <1>7

(* Who has a place in s has no other.                                      *)
OnePlaceEach(s, n) == \A j, k \in 1 .. n : s[j] = s[k] /\ s[j] # NoClub => j = k

(* Of finitely many numbers, the greater one has more that do not exceed it. *)
LEMMA TurnsGrow ==
  ASSUME NEW V \in SUBSET Int, IsFiniteSet(V), NEW j \in V, NEW k \in V, j < k
  PROVE  Cardinality({i \in V : i <= j}) < Cardinality({i \in V : i <= k})
<1> DEFINE A == {i \in V : i <= j}
           B == {i \in V : i <= k}
<1>1. A \in SUBSET B /\ B \in SUBSET V /\ k \in B /\ k \notin A
  <2>1. k \in Int /\ j \in Int
    OBVIOUS
  <2>2. \A i \in V : i <= j => i <= k
    BY <2>1
  <2>3. k <= k /\ ~(k <= j)
    BY <2>1
  <2> QED
    BY <2>2, <2>3
<1> HIDE DEF A, B
<1>2. IsFiniteSet(B) /\ A \in SUBSET (B \ {k})
  BY <1>1, FS_Subset
<1>3. /\ IsFiniteSet(B \ {k}) /\ Cardinality(B \ {k}) = Cardinality(B) - 1
      /\ Cardinality(B) \in Nat
  BY <1>1, <1>2, FS_RemoveElement, FS_CardinalityType
<1>4. Cardinality(A) <= Cardinality(B \ {k}) /\ Cardinality(A) \in Nat
  BY <1>2, <1>3, FS_Subset, FS_CardinalityType
<1> QED
  BY <1>3, <1>4 DEF A, B

(* Filling vacancies gives nobody a second place.                          *)
LEMMA FilledOnePlace ==
  ASSUME Enrolled, NEW ed, Written(ed), NEW n \in Nat, NEW s \in [1 .. n -> Club \cup {NoClub}],
         Enough(ed, s), OnePlaceEach(s, n)
  PROVE  IsInjective(Filled(ed, s))
<1> DEFINE others == StillIn(ed) \ Range(s)
           next   == Reserves(ed, s)
           vacant == Vacant(ed, s)
           Turn(k) == Cardinality({j \in vacant : j <= k})
           clubs == Filled(ed, s)
<1>1. others \in SUBSET Entered /\ Cardinality(others) \in Nat
  BY Seeds, FS_Subset, FS_CardinalityType DEF StillIn
<1>2. next \in [1 .. Cardinality(others) -> others] /\ IsInjective(next)
  BY <1>1, Records, TableProperties DEF Reserves, GeneralTable
<1>3. IsFiniteSet(vacant) /\ vacant \in SUBSET (1 .. n)
  BY UpTo, FS_Subset DEF Vacant
<1>4. ASSUME NEW k \in vacant
      PROVE  Turn(k) \in 1 .. Cardinality(others)
  BY <1>1, <1>3, TurnInRange DEF Enough
<1>5. clubs = [k \in 1 .. n |-> IF k \in vacant THEN next[Turn(k)] ELSE s[k]]
  BY DEF Filled
<1>6. \A k \in 1 .. n \ vacant : s[k] \in StillIn(ed) /\ s[k] # NoClub /\ s[k] \in Range(s)
  <2>1. StillIn(ed) \in SUBSET Club
    BY ThoseStillIn
  <2> QED
    BY <2>1, ClubAssumption DEF Vacant, Range
<1>7. ASSUME NEW j \in vacant, NEW k \in vacant, j < k
      PROVE  Turn(j) # Turn(k)
  <2>1. Turn(j) < Turn(k)
    <3>1. vacant \in SUBSET Int
      BY <1>3
    <3> HIDE DEF vacant
    <3> QED
      BY <1>3, <1>7, <3>1, TurnsGrow
  <2>2. Turn(j) \in Int /\ Turn(k) \in Int
    BY <1>1, <1>4
  <2> HIDE DEF vacant
  <2> QED
    BY <2>1, <2>2
<1> HIDE DEF vacant, next, others
<1>8. ASSUME NEW k \in vacant
      PROVE  clubs[k] = next[Turn(k)] /\ clubs[k] \notin Range(s)
  <2>1. clubs[k] = next[Turn(k)]
    BY <1>3, <1>5
  <2>2. next[Turn(k)] \in others
    <3> HIDE DEF Turn
    <3> QED
      BY <1>2, <1>4
  <2> QED
    BY <2>1, <2>2 DEF others
<1>9. \A k \in 1 .. n \ vacant : clubs[k] = s[k]
  BY <1>5
<1>10. DOMAIN clubs = 1 .. n
  BY <1>5
<1> HIDE DEF clubs
<1> SUFFICES ASSUME NEW j \in 1 .. n, NEW k \in 1 .. n, clubs[j] = clubs[k] PROVE j = k
  BY <1>10 DEF IsInjective, clubs
<1>11. CASE j \in vacant /\ k \in vacant
  <2>1. Turn(j) = Turn(k)
    <3> HIDE DEF Turn
    <3> QED
      BY <1>2, <1>4, <1>8, <1>11 DEF IsInjective
  <2>2. ~(j < k) /\ ~(k < j)
    BY <1>7, <1>11, <2>1
  <2> QED
    BY <2>2
<1>12. CASE j \in vacant /\ k \notin vacant
  BY <1>6, <1>8, <1>9, <1>12
<1>13. CASE j \notin vacant /\ k \in vacant
  BY <1>6, <1>8, <1>9, <1>13
<1>14. CASE j \notin vacant /\ k \notin vacant
  BY <1>6, <1>9, <1>14 DEF OnePlaceEach
<1> QED
  BY <1>11, <1>12, <1>13, <1>14

(* Where there are too few reserves there are fewer clubs than places.     *)
LEMMA TooFewLeft ==
  ASSUME Enrolled, NEW ed, NEW n \in Nat, NEW s \in [1 .. n -> Club \cup {NoClub}], ~Enough(ed, s)
  PROVE  Cardinality(StillIn(ed)) < n
<1> DEFINE left   == StillIn(ed)
           vacant == Vacant(ed, s)
           held   == (1 .. n) \ vacant
           seated == [k \in held |-> s[k]]
           others == left \ Range(s)
<1>1. vacant = {k \in 1 .. n : s[k] \notin left}
  BY DEF Vacant
<1>2. left \ others = Range(seated)
  BY <1>1 DEF Range
<1>3. /\ IsFiniteSet(left) /\ Cardinality(left) \in Nat
      /\ IsFiniteSet(1 .. n) /\ Cardinality(1 .. n) = n
  BY ThoseStillIn, UpTo
<1>4. ~(Cardinality(vacant) <= Cardinality(others))
  BY DEF Enough
<1>5. vacant \in SUBSET (1 .. n) /\ others \in SUBSET left
  BY <1>1
<1> HIDE DEF vacant, others, left
<1>6. /\ IsFiniteSet(vacant) /\ Cardinality(vacant) \in Nat
      /\ IsFiniteSet(others) /\ Cardinality(others) \in Nat
      /\ IsFiniteSet(held) /\ Cardinality(held) = n - Cardinality(vacant)
      /\ Cardinality(left \ others) = Cardinality(left) - Cardinality(others)
  <2>1. /\ IsFiniteSet(vacant) /\ IsFiniteSet(others)
        /\ (1 .. n) \cap vacant = vacant /\ left \cap others = others
    BY <1>3, <1>5, FS_Subset
  <2>2. /\ IsFiniteSet(held)
        /\ Cardinality(held) = Cardinality(1 .. n) - Cardinality((1 .. n) \cap vacant)
        /\ Cardinality(left \ others) = Cardinality(left) - Cardinality(left \cap others)
    BY <1>3, FS_Difference, Zenon
  <2>3. Cardinality(vacant) \in Nat /\ Cardinality(others) \in Nat
    BY <2>1, FS_CardinalityType
  <2> HIDE DEF held
  <2> QED
    BY <1>3, <2>1, <2>2, <2>3
<1>7. Cardinality(left \ others) <= Cardinality(held)
  <2>1. seated \in [held -> Range(seated)]
    BY DEF Range
  <2> HIDE DEF seated, held
  <2> QED
    BY <1>2, <1>6, <2>1, FiniteRange
<1> QED
  BY <1>3, <1>4, <1>6, <1>7 DEF left

(* The bracket left when there are too few clubs for the whole one.        *)
LEMMA ReducedProperties ==
  ASSUME Enrolled, NEW ed, Written(ed), Cardinality(StillIn(ed)) \in 2 .. 16
  PROVE  /\ ToPlay(Reduced(ed), StillIn(ed))
         /\ NewRound(ed.matches, Reduced(ed))
         /\ 2 * Len(Reduced(ed)) <= Cardinality(StillIn(ed))
<1> DEFINE N == Cardinality(StillIn(ed))
           n == PowerWithin(N)
           rounds == {0} \cup {m.round : m \in {d \in Range(ed.matches) : d.stage = "knockout"}}
           round == Max(rounds)
           ties == Ties("knockout", round + 1, n \div 2)
           table == GeneralTable(ed, StillIn(ed))
<1>0. N \in 2 .. 16
  OBVIOUS
<1>1. n \in {2, 4, 8, 16} /\ n <= N
  <2>1. \E p \in {1, 2, 4, 8, 16} : p <= N /\ N < 2 * p
    <3> HIDE DEF N
    <3> QED
      BY <1>0
  <2>2. n \in {1, 2, 4, 8, 16} /\ n <= N /\ N < 2 * n
    <3> HIDE DEF N
    <3> QED
      BY <1>0, <2>1 DEF PowerWithin
  <2> HIDE DEF n, N
  <2> QED
    BY <1>0, <2>2
<1>2. round \in Nat /\ \A d \in Range(ed.matches) : d.stage = "knockout" => d.round <= round
  <2> DEFINE played == {d \in Range(ed.matches) : d.stage = "knockout"}
             f == [m \in played |-> m.round]
  <2>1. played \in SUBSET MatchType /\ IsFiniteSet(played)
    BY Records, FS_Subset
  <2>2. f \in [played -> Nat]
    BY <2>1 DEF MatchType
  <2>3. IsFiniteSet(Range(f)) /\ Range(f) \in SUBSET Nat
    <3> HIDE DEF f, played
    <3>1. IsFiniteSet(Range(f))
      BY <2>1, <2>2, FiniteRange
    <3> QED
      BY <2>2, <3>1 DEF Range
  <2>4. rounds = {0} \cup Range(f)
    BY DEF Range
  <2>5. IsFiniteSet(rounds) /\ rounds \in SUBSET Nat /\ rounds # {}
    <3>1. IsFiniteSet({0} \cup Range(f))
      BY <2>3, FS_Singleton, FS_Union
    <3> HIDE DEF rounds, f
    <3> QED
      BY <2>3, <2>4, <3>1
  <2>6. \E x \in rounds : \A y \in rounds : x >= y
    <3> HIDE DEF rounds
    <3> QED
      BY <2>5, LeastAndGreatest
  <2>7. \A d \in Range(ed.matches) : d.stage = "knockout" => d.round \in rounds
    OBVIOUS
  <2> HIDE DEF rounds
  <2>8. round \in rounds /\ \A y \in rounds : round >= y
    BY <2>6 DEF Max
  <2> QED
    BY <2>5, <2>7, <2>8
<1>3. table \in [1 .. N -> StillIn(ed)] /\ IsInjective(table)
  BY Records, ThoseStillIn, TableProperties DEF GeneralTable
<1>4. /\ n \div 2 \in Nat \ {0} /\ 2 * (n \div 2) <= N
      /\ N \in Nat /\ StillIn(ed) \in SUBSET Club
  <2> HIDE DEF n
  <2> QED
    BY <1>1, ThoseStillIn
<1>5. ties \in [1 .. n \div 2 -> [stage : Stage, round : Nat]]
      /\ \A k \in 1 .. n \div 2 : ties[k].stage = "knockout" /\ ties[k].round = round + 1
  <2> HIDE DEF round, n
  <2> QED
    BY <1>2 DEF Ties, Stage
<1>6. Reduced(ed) = Paired(ties, table)
  BY DEF Reduced
<1> HIDE DEF ties, table, n, N, round
<1> DEFINE h == n \div 2
           d == Paired(ties, table)
<1> HIDE DEF h
<1>7. TwoByTwo(Paired(ties, table), h, ties, table, StillIn(ed))
  BY <1>3, <1>4, <1>5, PairedProperties DEF h
<1> HIDE DEF d
<1>8. Spread(d)
  BY <1>3, <1>4, <1>7, PairedSpread DEF h, d
<1>9. \A i \in 1 .. Len(ed.matches) : ed.matches[i].stage = "knockout" => ed.matches[i].round < round + 1
  <2> SUFFICES ASSUME NEW i \in 1 .. Len(ed.matches), ed.matches[i].stage = "knockout"
               PROVE  ed.matches[i].round < round + 1
    OBVIOUS
  <2>1. ed.matches[i] \in MatchType /\ ed.matches[i] \in Range(ed.matches)
    BY LenProperties DEF Written, Range
  <2>2. ed.matches[i].round \in Nat
    BY <2>1 DEF MatchType
  <2> QED
    BY <1>2, <2>1, <2>2
<1>10. NewRound(ed.matches, d)
  <2>1. round + 1 \in Nat
    BY <1>2
  <2>2. \A k \in 1 .. Len(d) : d[k].stage = "knockout" /\ d[k].round = round + 1
    BY <1>5, <1>7 DEF TwoByTwo, d, h
  <2> QED
    BY <1>8, <1>9, <2>1, <2>2 DEF NewRound
<1> QED
  BY <1>4, <1>6, <1>7, <1>10 DEF TwoByTwo, d, h, N

(* The ties between clubs still in, each in one of them if no two places   *)
(* of s are the same club's; or a new round of the knockout.               *)
TiesOrBracket(d, n, ties, s, m, ed) ==
  /\ ToPlay(d, StillIn(ed))
  /\ \/ /\ Len(d) = n /\ \A k \in 1 .. n : d[k].stage = ties[k].stage /\ d[k].round = ties[k].round
        /\ OnePlaceEach(s, m) => Spread(d)
     \/ NewRound(ed.matches, d)

(* What follows a stage: the ties of the next between clubs still in, or   *)
(* a smaller knockout of all these.                                        *)
LEMMA DrawnProperties ==
  ASSUME Enrolled, NEW ed, Written(ed), Cardinality(StillIn(ed)) \in 2 .. 16,
         NEW n \in Nat \ {0}, NEW ties \in [1 .. n -> [stage : Stage, round : Nat]],
         NEW m \in Nat, 2 * n <= m,
         NEW s \in [1 .. m -> Club \cup {NoClub}], NEW seat \in [1 .. m -> 1 .. m], IsInjective(seat)
  PROVE  TiesOrBracket(Drawn(ed, ties, s, seat), n, ties, s, m, ed)
<1> DEFINE clubs == Filled(ed, s)
           seated == [k \in DOMAIN seat |-> clubs[seat[k]]]
<1>1. CASE Enough(ed, s)
  <2>1. clubs \in [1 .. m -> StillIn(ed)]
    BY <1>1, FilledProperties
  <2>2. seated \in [1 .. m -> StillIn(ed)]
    <3> HIDE DEF clubs
    <3> QED
      BY <2>1
  <2>3. StillIn(ed) \in SUBSET Club
    BY ThoseStillIn
  <2>4. Drawn(ed, ties, s, seat) = Paired(ties, seated)
    BY <1>1 DEF Drawn
  <2> HIDE DEF seated
  <2>5. TwoByTwo(Paired(ties, seated), n, ties, seated, StillIn(ed))
    BY <2>2, <2>3, PairedProperties
  <2>6. ASSUME OnePlaceEach(s, m) PROVE Spread(Paired(ties, seated))
    <3>1. IsInjective(clubs)
      BY <1>1, <2>6, FilledOnePlace
    <3>2. IsInjective(seated)
      <4> HIDE DEF clubs
      <4> SUFFICES ASSUME NEW a \in 1 .. m, NEW b \in 1 .. m, seated[a] = seated[b] PROVE a = b
        BY <2>2 DEF IsInjective
      <4>1. clubs[seat[a]] = clubs[seat[b]] /\ seat[a] \in 1 .. m /\ seat[b] \in 1 .. m
        BY DEF seated
      <4>2. seat[a] = seat[b]
        BY <2>1, <3>1, <4>1 DEF IsInjective
      <4> QED
        BY <4>2 DEF IsInjective
    <3>3. m \in Nat /\ n \in Nat
      OBVIOUS
    <3> QED
      BY <2>2, <2>5, <3>2, <3>3, PairedSpread
  <2> QED
    BY <2>4, <2>5, <2>6 DEF TwoByTwo, TiesOrBracket
<1>2. CASE ~Enough(ed, s)
  <2>1. Drawn(ed, ties, s, seat) = Reduced(ed)
    BY <1>2 DEF Drawn
  <2> QED
    BY <2>1, ReducedProperties DEF TiesOrBracket
<1> QED
  BY <1>1, <1>2

(* A place is the first or the second of some pair.                        *)
LEMMA OddOrEven ==
  ASSUME NEW n \in Nat, NEW p \in 1 .. 2 * n
  PROVE  \E k \in 1 .. n : p = 2 * k - 1 \/ p = 2 * k
<1> DEFINE k == (p + 1) \div 2
<1>1. k \in Int /\ (p + 1 = 2 * k \/ p + 1 = 2 * k + 1)
  OBVIOUS
<1>2. p \in Int /\ 1 <= p /\ p <= 2 * n
  OBVIOUS
<1> HIDE DEF k
<1>3. 1 <= k /\ k <= n
  BY <1>1, <1>2
<1> QED
  BY <1>1, <1>3

(* In the ties, whoever is still in keeps the place s gave.                *)
LEMMA PlacesKept ==
  ASSUME Enrolled, NEW ed, Written(ed), Cardinality(StillIn(ed)) \in 2 .. 16,
         NEW n \in Nat \ {0}, NEW ties \in [1 .. n -> [stage : Stage, round : Nat]],
         NEW m \in Nat, m = 2 * n,
         NEW s \in [1 .. m -> Club \cup {NoClub}], NEW seat \in [1 .. m -> 1 .. m],
         Len(Drawn(ed, ties, s, seat)) = n, NEW p \in 1 .. m, s[seat[p]] \in StillIn(ed)
  PROVE  \E k \in 1 .. n : Plays(Drawn(ed, ties, s, seat)[k], s[seat[p]])
<1> DEFINE clubs  == Filled(ed, s)
           seated == [k \in DOMAIN seat |-> clubs[seat[k]]]
<1>1. Enough(ed, s)
  <2> SUFFICES ASSUME ~Enough(ed, s) PROVE FALSE
    OBVIOUS
  <2> DEFINE left == Cardinality(StillIn(ed))
  <2>1. 2 * n <= left
    BY ReducedProperties DEF Drawn
  <2>2. left < m
    BY TooFewLeft
  <2>3. left \in Nat
    BY ThoseStillIn
  <2> HIDE DEF left
  <2> QED
    BY <2>1, <2>2, <2>3
<1>2. clubs \in [1 .. m -> StillIn(ed)]
  BY <1>1, FilledProperties
<1>3. clubs[seat[p]] = s[seat[p]]
  BY DEF Filled, Vacant
<1> HIDE DEF clubs
<1>4. seated \in [1 .. m -> StillIn(ed)] /\ seated[p] = s[seat[p]]
  BY <1>2, <1>3
<1>5. Drawn(ed, ties, s, seat) = Paired(ties, seated)
  BY <1>1 DEF Drawn, clubs
<1> HIDE DEF seated
<1>6. TwoByTwo(Paired(ties, seated), n, ties, seated, StillIn(ed))
  <2>1. 2 * n <= m /\ StillIn(ed) \in SUBSET Club
    BY ThoseStillIn
  <2> QED
    BY <1>4, <2>1, PairedProperties
<1>7. PICK k \in 1 .. n : p = 2 * k - 1 \/ p = 2 * k
  BY OddOrEven
<1>8. Drawn(ed, ties, s, seat)[k].home = seated[2 * k - 1] /\ Drawn(ed, ties, s, seat)[k].away = seated[2 * k]
  BY <1>5, <1>6 DEF TwoByTwo
<1>9. Plays(Drawn(ed, ties, s, seat)[k], s[seat[p]])
  BY <1>4, <1>7, <1>8 DEF Plays
<1> QED
  BY <1>9

-----------------------------------------------------------------------------
(* From stage to stage *)

(* Places are taken in order.                                              *)
LEMMA InOrderType ==
  ASSUME NEW m \in Nat, NEW S, NEW s \in [1 .. m -> S]
  PROVE  InOrder(s) \in [1 .. m -> 1 .. m] /\ IsInjective(InOrder(s))
BY DEF InOrder, IsInjective

(* The winner of a match, if any, and the loser are clubs.                 *)
LEMMA ResultType ==
  ASSUME NEW m \in MatchType
  PROVE  m.winner \in Club \cup {NoClub} /\ Loser(m) \in Club \cup {NoClub} /\ m.round \in Nat
BY DEF MatchType, Loser

(* What comes after the first n matches of a cascade.                      *)
NextInCascade(n, d) ==
  \/ /\ n = 2 /\ Len(d) = 2
     /\ d[1].stage = "winners" /\ d[1].round = 2 /\ d[2].stage = "losers" /\ d[2].round = 1
  \/ n = 4 /\ Len(d) = 1 /\ d[1].stage = "losers" /\ d[1].round = 2
  \/ n = 5 /\ Len(d) = 1 /\ d[1].stage = "grand_final" /\ d[1].round = 1

(* The first two of these.                                                 *)
FirstTies == Ties("winners", 2, 1) \o Ties("losers", 1, 1)

LEMMA FirstTiesType ==
  /\ FirstTies \in [1 .. 2 -> [stage : Stage, round : Nat]]
  /\ FirstTies[1] = [stage |-> "winners", round |-> 2]
  /\ FirstTies[2] = [stage |-> "losers", round |-> 1]
<1> DEFINE t1 == [stage |-> "winners", round |-> 2]
           t2 == [stage |-> "losers", round |-> 1]
           R == [stage : Stage, round : Nat]
<1>1. FirstTies = <<t1>> \o <<t2>>
  BY DEF FirstTies, Ties
<1>2. /\ <<t1>> \in Seq(R) /\ Len(<<t1>>) = 1 /\ <<t1>>[1] = t1
      /\ <<t2>> \in Seq(R) /\ Len(<<t2>>) = 1 /\ <<t2>>[1] = t2
  BY DEF Stage
<1> HIDE DEF t1, t2, R
<1>3. /\ FirstTies \in Seq(R) /\ Len(FirstTies) = 2
      /\ FirstTies[1] = <<t1>>[1] /\ FirstTies[2] = <<t2>>[1]
  BY <1>1, <1>2, ConcatProperties
<1> QED
  BY <1>2, <1>3, LenProperties DEF t1, t2, R

(* cascade_next: the winners and the losers play on, then the grand final. *)
LEMMA CascadeGoesOn ==
  ASSUME Enrolled, NEW ed, Written(ed), Cardinality(StillIn(ed)) \in 2 .. 16,
         Len(ed.matches) \in {2, 4, 5}
  PROVE  LET d == CascadeNext(ed)
         IN /\ ToPlay(d, StillIn(ed))
            /\ NewRound(ed.matches, d) \/ NextInCascade(Len(ed.matches), d)
<1> DEFINE ms == ed.matches
           Who == Club \cup {NoClub}
           d == CascadeNext(ed)
<1>1. ms \in [1 .. Len(ms) -> MatchType] /\ Len(ms) \in Nat
  BY LenProperties DEF Written
<1>2. \A i \in 1 .. Len(ms) : ms[i].winner \in Who /\ Loser(ms[i]) \in Who
  <2> HIDE DEF ms
  <2> QED
    BY <1>1, ResultType
<1>3. CASE Len(ms) = 2
  <2> DEFINE ties == FirstTies
             s == <<ms[1].winner, ms[2].winner, Loser(ms[1]), Loser(ms[2])>>
  <2>1. ties \in [1 .. 2 -> [stage : Stage, round : Nat]]
        /\ ties[1] = [stage |-> "winners", round |-> 2] /\ ties[2] = [stage |-> "losers", round |-> 1]
    BY FirstTiesType
  <2>2. s \in [1 .. 4 -> Who]
    BY <1>2, <1>3
  <2>3. d = Drawn(ed, ties, s, InOrder(s))
    BY <1>3 DEF CascadeNext, FirstTies
  <2>4. InOrder(s) \in [1 .. 4 -> 1 .. 4] /\ IsInjective(InOrder(s))
    BY <2>2, InOrderType
  <2> HIDE DEF ties, s
  <2>5. TiesOrBracket(d, 2, ties, s, 4, ed)
    <3>1. 2 \in Nat \ {0} /\ 4 \in Nat /\ 2 * 2 <= 4
      OBVIOUS
    <3>2. TiesOrBracket(Drawn(ed, ties, s, InOrder(s)), 2, ties, s, 4, ed)
      BY <2>1, <2>2, <2>4, <3>1, DrawnProperties, Zenon
    <3> QED
      BY <2>3, <3>2
  <2> QED
    BY <1>3, <2>1, <2>5 DEF TiesOrBracket, NextInCascade
<1>4. CASE Len(ms) = 4
  <2> DEFINE ties == Ties("losers", 2, 1)
             s == <<Loser(ms[3]), ms[4].winner>>
  <2>1. ties \in [1 .. 1 -> [stage : Stage, round : Nat]] /\ ties[1] = [stage |-> "losers", round |-> 2]
    BY DEF Stage, Ties
  <2>2. s \in [1 .. 2 -> Who]
    BY <1>2, <1>4
  <2>3. d = Drawn(ed, ties, s, InOrder(s))
    BY <1>4 DEF CascadeNext
  <2>4. InOrder(s) \in [1 .. 2 -> 1 .. 2] /\ IsInjective(InOrder(s))
    BY <2>2, InOrderType
  <2> HIDE DEF ties, s
  <2>5. TiesOrBracket(d, 1, ties, s, 2, ed)
    <3>1. 1 \in Nat \ {0} /\ 2 \in Nat /\ 2 * 1 <= 2
      OBVIOUS
    <3>2. TiesOrBracket(Drawn(ed, ties, s, InOrder(s)), 1, ties, s, 2, ed)
      BY <2>1, <2>2, <2>4, <3>1, DrawnProperties, Zenon
    <3> QED
      BY <2>3, <3>2
  <2> QED
    BY <1>4, <2>1, <2>5 DEF TiesOrBracket, NextInCascade
<1>5. CASE Len(ms) = 5
  <2> DEFINE ties == Ties("grand_final", 1, 1)
             s == <<ms[3].winner, ms[5].winner>>
  <2>1. ties \in [1 .. 1 -> [stage : Stage, round : Nat]] /\ ties[1] = [stage |-> "grand_final", round |-> 1]
    BY DEF Stage, Ties
  <2>2. s \in [1 .. 2 -> Who]
    BY <1>2, <1>5
  <2>3. d = Drawn(ed, ties, s, InOrder(s))
    BY <1>5 DEF CascadeNext
  <2>4. InOrder(s) \in [1 .. 2 -> 1 .. 2] /\ IsInjective(InOrder(s))
    BY <2>2, InOrderType
  <2> HIDE DEF ties, s
  <2>5. TiesOrBracket(d, 1, ties, s, 2, ed)
    <3>1. 1 \in Nat \ {0} /\ 2 \in Nat /\ 2 * 1 <= 2
      OBVIOUS
    <3>2. TiesOrBracket(Drawn(ed, ties, s, InOrder(s)), 1, ties, s, 2, ed)
      BY <2>1, <2>2, <2>4, <3>1, DrawnProperties, Zenon
    <3> QED
      BY <2>3, <3>2
  <2> QED
    BY <1>5, <2>1, <2>5 DEF TiesOrBracket, NextInCascade
<1> QED
  BY <1>3, <1>4, <1>5

(* The matches of the last round of a knockout.                            *)
LastOnes(ms) == {i \in DOMAIN ms : ms[i].stage = "knockout" /\ ms[i].round = Last(ms).round}

(* The last round of a knockout has its winners, at least one match.       *)
LEMMA WinnersType ==
  ASSUME NEW ms \in Seq(MatchType), Len(ms) > 0, ms[Len(ms)].stage = "knockout"
  PROVE  \E n \in Nat \ {0} : /\ Winners(ms) \in [1 .. n -> Club \cup {NoClub}]
                              /\ Len(Winners(ms)) = n /\ n = Cardinality(LastOnes(ms))
                              /\ \A i \in LastOnes(ms) : \E k \in 1 .. n : Winners(ms)[k] = ms[i].winner
                              /\ Tidy(ms) /\ WonBySides(ms) => OnePlaceEach(Winners(ms), n)
<1> DEFINE I == {i \in DOMAIN ms : ms[i].stage = "knockout" /\ ms[i].round = Last(ms).round}
           round == LastRound(ms)
           n == Cardinality(I)
<1>1. ms \in [1 .. Len(ms) -> MatchType] /\ Len(ms) \in Nat
  BY LenProperties
<1>2. I \in SUBSET (1 .. Len(ms)) /\ Len(ms) \in I
  BY <1>1 DEF Last
<1>3. IsFiniteSet(I) /\ n \in Nat /\ n # 0
  <2> HIDE DEF I
  <2>1. IsFiniteSet(I)
    BY <1>1, <1>2, UpTo, FS_Subset
  <2> QED
    BY <1>2, <2>1, FS_CardinalityType, FS_EmptySet
<1>4. /\ DOMAIN round = 1 .. n
      /\ \A k \in 1 .. n : \E i \in I : round[k] = ms[i]
      /\ \A i \in I : \E k \in 1 .. n : round[k] = ms[i]
      /\ \A j, k \in 1 .. n : j # k => \E h, i \in I : h # i /\ round[j] = ms[h] /\ round[k] = ms[i]
  <2>1. round = Picked(ms, I)
    BY DEF LastRound
  <2> HIDE DEF I
  <2>2. Picks(Picked(ms, I), ms, I)
    <3>1. I \in SUBSET Int
      BY <1>1, <1>2
    <3> QED
      BY <1>3, <3>1, PickedProperties
  <2> QED
    BY <2>1, <2>2 DEF Picks
<1>5. \A k \in 1 .. n : round[k].winner \in Club \cup {NoClub}
  <2> HIDE DEF I, round
  <2> QED
    BY <1>1, <1>2, <1>4, ResultType
<1>6. Winners(ms) = [k \in 1 .. n |-> round[k].winner]
  BY <1>4 DEF Winners
<1>7. n = Cardinality(LastOnes(ms)) /\ LastOnes(ms) = I
  BY DEF LastOnes
<1>8. \A i \in LastOnes(ms) : \E k \in 1 .. n : Winners(ms)[k] = ms[i].winner
  <2> HIDE DEF I, n, round
  <2> SUFFICES ASSUME NEW i \in I PROVE \E k \in 1 .. n : Winners(ms)[k] = ms[i].winner
    BY <1>7
  <2>1. PICK k \in 1 .. n : round[k] = ms[i]
    BY <1>4
  <2>2. Winners(ms)[k] = ms[i].winner
    BY <1>6, <2>1
  <2> QED
    BY <2>2
<1> HIDE DEF n, round
<1>9. Winners(ms) \in [1 .. n -> Club \cup {NoClub}] /\ Len(Winners(ms)) = n
  BY <1>3, <1>5, <1>6
<1>10. ASSUME Tidy(ms), WonBySides(ms)
      PROVE  OnePlaceEach(Winners(ms), n)
  <2> SUFFICES ASSUME NEW j \in 1 .. n, NEW k \in 1 .. n, j # k, round[j].winner # NoClub
               PROVE  round[j].winner # round[k].winner
    BY <1>6 DEF OnePlaceEach
  <2>1. PICK h \in I, i \in I : h # i /\ round[j] = ms[h] /\ round[k] = ms[i]
    BY <1>4
  <2>2. SameRound(ms[h], ms[i]) /\ SameRound(ms[i], ms[h]) /\ h \in 1 .. Len(ms) /\ i \in 1 .. Len(ms)
    BY <1>1 DEF SameRound
  <2>3. Apart(ms[h], ms[i]) \/ Apart(ms[i], ms[h])
    <3>1. h \in 1 .. i - 1 \/ i \in 1 .. h - 1
      BY <1>1, <2>1, <2>2
    <3> HIDE DEF I
    <3> QED
      BY <1>10, <2>2, <3>1 DEF Tidy
  <2>4. ms[h].winner \in {ms[h].home, ms[h].away, NoClub} /\ ms[i].winner \in {ms[i].home, ms[i].away, NoClub}
    BY <1>10, <2>2 DEF WonBySides
  <2> HIDE DEF I
  <2> QED
    BY <2>1, <2>3, <2>4 DEF Apart
<1> QED
  BY <1>3, <1>7, <1>8, <1>9, <1>10

(* In d, half as many matches as the last round has, its winners play on   *)
(* if they are in S.                                                       *)
WinnersGoOn(ms, d, S) ==
  2 * Len(d) = Cardinality(LastOnes(ms)) =>
    \A i \in LastOnes(ms) : ms[i].winner \in S => \E k \in 1 .. Len(d) : Plays(d[k], ms[i].winner)

(* After a round of the knockout comes another, unless it was the final.   *)
LEMMA KnockoutGoesOn ==
  ASSUME Enrolled, NEW ed, Written(ed), Cardinality(StillIn(ed)) \in 2 .. 16,
         Len(ed.matches) > 0, Last(ed.matches).stage = "knockout", Len(Winners(ed.matches)) # 1,
         Rounds(ed.matches)
  PROVE  /\ ToPlay(FromKnockout(ed), StillIn(ed)) /\ NewRound(ed.matches, FromKnockout(ed))
         /\ WinnersGoOn(ed.matches, FromKnockout(ed), StillIn(ed))
<1> DEFINE s == Winners(ed.matches)
           d == FromKnockout(ed)
<1>1. ed.matches \in Seq(MatchType) /\ Last(ed.matches).round \in Nat
  <2>1. ed.matches[Len(ed.matches)] \in MatchType
    BY LenProperties DEF Written
  <2> QED
    BY <2>1, ResultType DEF Written, Last
<1>2. PICK m \in Nat \ {0} :
        /\ s \in [1 .. m -> Club \cup {NoClub}] /\ Len(s) = m /\ OnePlaceEach(s, m)
        /\ m = Cardinality(LastOnes(ed.matches))
        /\ \A i \in LastOnes(ed.matches) : \E k \in 1 .. m : s[k] = ed.matches[i].winner
  BY <1>1, WinnersType DEF Last, Rounds
<1> DEFINE n == m \div 2
           ties == Ties("knockout", Last(ed.matches).round + 1, n)
<1>3. n \in Nat \ {0} /\ 2 * n <= m /\ \A l \in Nat : 2 * l = m => l = n
  BY <1>2
<1>4. ties \in [1 .. n -> [stage : Stage, round : Nat]]
      /\ \A k \in 1 .. n : ties[k].stage = "knockout" /\ ties[k].round = Last(ed.matches).round + 1
  <2> HIDE DEF n
  <2> DEFINE r == Last(ed.matches).round + 1
  <2>1. "knockout" \in Stage /\ r \in Nat
    BY <1>1 DEF Stage
  <2> HIDE DEF r
  <2>2. /\ Ties("knockout", r, n) \in [1 .. n -> [stage : Stage, round : Nat]]
        /\ \A k \in 1 .. n : /\ Ties("knockout", r, n)[k].stage = "knockout"
                             /\ Ties("knockout", r, n)[k].round = r
    <3>1. n \in Nat
      BY <1>3
    <3> QED
      BY <2>1, <3>1 DEF Ties
  <2> QED
    BY <2>2 DEF r
<1>5. d = Drawn(ed, ties, s, InOrder(s))
  BY <1>2 DEF FromKnockout
<1>6. InOrder(s) \in [1 .. m -> 1 .. m] /\ IsInjective(InOrder(s)) /\ \A k \in 1 .. m : InOrder(s)[k] = k
  BY <1>2, InOrderType DEF InOrder
<1> HIDE DEF ties, s, n
<1>7. TiesOrBracket(d, n, ties, s, m, ed)
  <2>1. m \in Nat
    OBVIOUS
  <2>2. TiesOrBracket(Drawn(ed, ties, s, InOrder(s)), n, ties, s, m, ed)
    BY <1>2, <1>3, <1>4, <1>6, <2>1, DrawnProperties, Zenon
  <2> QED
    BY <1>5, <2>2
<1>8. /\ Last(ed.matches).round + 1 \in Nat
      /\ \A i \in 1 .. Len(ed.matches) :
           ed.matches[i].stage = "knockout" => ed.matches[i].round < Last(ed.matches).round + 1
  <2>1. \A i \in 1 .. Len(ed.matches) : ed.matches[i].round \in Nat
    BY <1>1, LenProperties, ResultType
  <2> QED
    BY <1>1, <2>1 DEF Rounds
<1>9. ASSUME 2 * Len(d) = m, NEW i \in LastOnes(ed.matches), ed.matches[i].winner \in StillIn(ed)
      PROVE  \E k \in 1 .. Len(d) : Plays(d[k], ed.matches[i].winner)
  <2>1. PICK p \in 1 .. m : s[p] = ed.matches[i].winner
    BY <1>2
  <2>2. Len(d) \in Nat
    BY <1>7, LenProperties DEF TiesOrBracket, ToPlay
  <2>3. Len(d) = n /\ m = 2 * n /\ m \in Nat
    BY <1>3, <1>9, <2>2
  <2>4. InOrder(s)[p] = p /\ s[InOrder(s)[p]] \in StillIn(ed)
    BY <1>6, <1>9, <2>1
  <2>5. \E k \in 1 .. n : Plays(Drawn(ed, ties, s, InOrder(s))[k], s[InOrder(s)[p]])
    <3>1. Len(Drawn(ed, ties, s, InOrder(s))) = n
      BY <1>5, <2>3
    <3> QED
      BY <1>2, <1>3, <1>4, <1>6, <2>3, <2>4, <3>1, PlacesKept, Zenon
  <2> QED
    BY <1>5, <2>1, <2>3, <2>4, <2>5
<1>10. WinnersGoOn(ed.matches, d, StillIn(ed))
  BY <1>2, <1>9 DEF WinnersGoOn
<1> QED
  BY <1>2, <1>4, <1>7, <1>8, <1>10 DEF TiesOrBracket, NewRound

(* The winner of the final, or the best of those still in.                 *)
LEMMA KnockoutHasAChampion ==
  ASSUME Enrolled, NEW ed, Written(ed), Cardinality(StillIn(ed)) # 0
  PROVE  KnockoutChampion(ed) \in StillIn(ed)
<1> DEFINE table == GeneralTable(ed, StillIn(ed))
<1>1. table \in [1 .. Cardinality(StillIn(ed)) -> StillIn(ed)] /\ Cardinality(StillIn(ed)) \in Nat
  BY Records, ThoseStillIn, TableProperties DEF GeneralTable
<1>2. table[1] \in StillIn(ed)
  <2> HIDE DEF table
  <2> QED
    BY <1>1
<1> QED
  BY <1>2 DEF KnockoutChampion

(* The first of the table of a league is not disqualified.                 *)
LEMMA LeagueHasAChampion ==
  ASSUME Enrolled, NEW ed, Written(ed), Cardinality(StillIn(ed)) # 0
  PROVE  /\ GeneralTable(ed, Entered)[1] \in StillIn(ed)
         /\ \A c \in StillIn(ed) :
              Net(ed, Range(ed.matches), c) <= Net(ed, Range(ed.matches), GeneralTable(ed, Entered)[1])
<1> DEFINE table == GeneralTable(ed, Entered)
<1>1. PICK c \in Entered : c \notin ed.banned
  BY FS_EmptySet DEF StillIn
<1>2. /\ table \in [1 .. Cardinality(Entered) -> Entered]
      /\ table[1] \notin ed.banned
      /\ \A d \in Entered \ ed.banned : Net(ed, Range(ed.matches), d) <= Net(ed, Range(ed.matches), table[1])
      /\ Cardinality(Entered) \in Nat
  BY <1>1, Records, TableProperties DEF GeneralTable
<1>3. Cardinality(Entered) # 0
  BY <1>1, Seeds, FS_EmptySet
<1>4. table[1] \in Entered
  <2> HIDE DEF table
  <2> QED
    BY <1>2, <1>3
<1> QED
  BY <1>2, <1>4 DEF StillIn

-----------------------------------------------------------------------------
(* From the groups *)

(* The groups there are.                                                   *)
Groups == {PoolOf(pool, c) : c \in Entered}

(* Each group has its place among the groups.                              *)
LEMMA GroupOrderType ==
  ASSUME Enrolled, NEW K \in Nat, Groups = 1 .. K
  PROVE  /\ GroupOrder \in [1 .. K -> 1 .. K] /\ IsInjective(GroupOrder)
         /\ \A g \in 1 .. K : \E i \in 1 .. K : GroupOrder[i] = g
<1> DEFINE Of(g) == {d \in Entered : PoolOf(pool, d) = g}
           First(g) == Min({Seed(c) : c \in Of(g)})
           key == [g \in 1 .. K |-> <<First(g)>>]
           pairs == {<<g, <<First(g)>> >> : g \in 1 .. K}
<1>1. ASSUME NEW g \in 1 .. K
      PROVE  \E c \in Entered : PoolOf(pool, c) = g /\ First(g) = Seed(c) /\ First(g) \in Int
  <2> DEFINE seeds == {Seed(c) : c \in Of(g)}
             f == [c \in Of(g) |-> Seed(c)]
  <2>1. seeds # {} /\ seeds \in SUBSET Int
    <3>1. \E c \in Entered : PoolOf(pool, c) = g
      BY DEF Groups
    <3> QED
      BY <3>1, Seeds
  <2>2. IsFiniteSet(seeds)
    <3>1. IsFiniteSet(Of(g))
      BY Seeds, FS_Subset
    <3>2. f \in [Of(g) -> seeds] /\ Range(f) = seeds
      BY DEF Range
    <3> HIDE DEF f, seeds
    <3> QED
      BY <3>1, <3>2, FiniteRange
  <2>3. \E x \in seeds : \A y \in seeds : x <= y
    <3> HIDE DEF seeds
    <3> QED
      BY <2>1, <2>2, LeastAndGreatest
  <2>4. Min(seeds) \in seeds
    <3> HIDE DEF seeds
    <3> QED
      BY <2>3 DEF Min
  <2> QED
    BY <2>1, <2>4
<1>2. \A g \in 1 .. K : <<First(g)>> \in Keys(1)
  <2> HIDE DEF First
  <2> QED
    BY <1>1 DEF Keys
<1>3. key \in [1 .. K -> Keys(1)]
  BY <1>2
<1>4. IsInjective(key)
  <2> SUFFICES ASSUME NEW g \in 1 .. K, NEW h \in 1 .. K, key[g] = key[h] PROVE g = h
    BY DEF IsInjective
  <2>1. First(g) = First(h)
    <3> HIDE DEF First
    <3> QED
      OBVIOUS
  <2>2. PICK c \in Entered : PoolOf(pool, c) = g /\ First(g) = Seed(c)
    BY <1>1
  <2>3. PICK d \in Entered : PoolOf(pool, d) = h /\ First(h) = Seed(d)
    BY <1>1
  <2>4. c = d
    BY <2>1, <2>2, <2>3, Seeds
  <2> QED
    BY <2>2, <2>3, <2>4
<1>5. Keyed(pairs, 1 .. K, key)
  <2> HIDE DEF First
  <2> QED
    BY DEF Keyed
<1>6. GroupOrder = Sorted(pairs)
  BY DEF GroupOrder, Groups
<1>7. Cardinality(1 .. K) = K /\ IsFiniteSet(1 .. K) /\ 1 \in Nat
  BY UpTo
<1>8. LET s == Sorted(pairs)
      IN /\ s \in [1 .. Cardinality(1 .. K) -> 1 .. K]
         /\ IsInjective(s)
         /\ \A c \in 1 .. K : \E k \in 1 .. Cardinality(1 .. K) : s[k] = c
         /\ \A c, d \in 1 .. K : s[1] = c => ~Precedes(key[d], key[c])
  <2> HIDE DEF key, pairs
  <2> QED
    BY <1>3, <1>4, <1>5, <1>7, SortedByKey, Zenon
<1> HIDE DEF pairs
<1> QED
  BY <1>6, <1>7, <1>8

(* Those of a group who are still in.                                      *)
Standing(ed, g) == {c \in StillIn(ed) : PoolOf(pool, c) = g}

(* A group sends as many as it has places, vacant ones included: as many   *)
(* of those still in as there are places for.                              *)
LEMMA QualifiedType ==
  ASSUME Enrolled, NEW ed, Written(ed), NEW g
  PROVE  /\ Qualified(ed, g) \in [1 .. PerPool -> Club \cup {NoClub}]
         /\ OnePlaceEach(Qualified(ed, g), PerPool)
         /\ \A k \in 1 .. PerPool : Qualified(ed, g)[k] # NoClub => PoolOf(pool, Qualified(ed, g)[k]) = g
         /\ \A k \in 1 .. PerPool :
              k <= Cardinality(Standing(ed, g)) => Qualified(ed, g)[k] \in Standing(ed, g)
<1> DEFINE members == {c \in StillIn(ed) : PoolOf(pool, c) = g}
           games == {m \in Range(ed.matches) : m.stage = "groups"}
           best == Table(ed, games, members)
           N == Cardinality(members)
           Who == Club \cup {NoClub}
<1>1. PerPool \in {1, 2}
  BY DEF PerPool
<1>2. games \in SUBSET MatchType /\ IsFiniteSet(games)
  BY Records, FS_Subset
<1>3. members \in SUBSET Entered /\ members \in SUBSET Club
  BY ThoseStillIn
<1>4. best \in [1 .. N -> members] /\ IsInjective(best) /\ N \in Nat
  <2> HIDE DEF members, games
  <2> QED
    BY <1>2, <1>3, TableProperties
<1>5. best \in Seq(Who) /\ Len(best) = N
  <2> HIDE DEF members, best, N
  <2> QED
    BY <1>3, <1>4
<1> DEFINE Q == Qualified(ed, g)
<1> HIDE DEF Q
<1>6. Standing(ed, g) = members /\ \A c \in members : PoolOf(pool, c) = g
  BY DEF Standing
<1>7. CASE Len(best) >= PerPool
  <2>1. Q = SubSeq(best, 1, PerPool)
    BY <1>7 DEF Qualified, Q
  <2>2. \A i \in 1 .. PerPool : best[i] \in Who
    <3> HIDE DEF best, N, Who
    <3> QED
      BY <1>1, <1>4, <1>5, <1>7, LenProperties
  <2>3. /\ SubSeq(best, 1, PerPool) \in Seq(Who) /\ Len(SubSeq(best, 1, PerPool)) = PerPool
        /\ \A k \in 1 .. PerPool : SubSeq(best, 1, PerPool)[k] = best[k]
    <3> HIDE DEF best, Who
    <3> QED
      BY <1>1, <2>2, SubSeqProperties
  <2>4. PerPool <= N
    <3> HIDE DEF best, N
    <3> QED
      BY <1>5, <1>7
  <2> HIDE DEF best, Who, N, members
  <2>5. Q \in [1 .. PerPool -> Who]
    BY <2>1, <2>3, LenProperties
  <2>6. \A k \in 1 .. PerPool : Q[k] = best[k] /\ k \in 1 .. N /\ Q[k] \in members
    BY <1>1, <1>4, <2>1, <2>3, <2>4
  <2> QED
    BY <1>4, <2>5, <2>6, <1>6 DEF Who, OnePlaceEach, IsInjective, Q, N
<1>8. CASE ~(Len(best) >= PerPool)
  <2> DEFINE rest == [k \in 1 .. PerPool - Len(best) |-> NoClub]
  <2>1. Q = best \o rest
    BY <1>8 DEF Qualified, Q
  <2>2. rest \in Seq(Who) /\ Len(rest) = PerPool - Len(best)
    <3>1. PerPool - Len(best) \in Nat
      <4> HIDE DEF best, N
      <4> QED
        BY <1>1, <1>4, <1>5, <1>8
    <3> HIDE DEF best
    <3> QED
      BY <3>1
  <2>3. best \o rest \in Seq(Who) /\ Len(best \o rest) = PerPool
    <3> HIDE DEF best, rest, Who, N
    <3> QED
      BY <1>1, <1>4, <1>5, <2>2, ConcatProperties
  <2>4. \A k \in 1 .. PerPool : (best \o rest)[k] = IF k <= N THEN best[k] ELSE rest[k - N]
    <3> HIDE DEF best, rest, Who, N
    <3> QED
      BY <1>1, <1>4, <1>5, <2>2, ConcatProperties
  <2>5. \A k \in 1 .. PerPool : ~(k <= N) => rest[k - N] = NoClub
    <3> HIDE DEF best, N
    <3> QED
      BY <1>1, <1>4, <1>5
  <2> HIDE DEF best, rest, Who, N, members
  <2>6. Q \in [1 .. PerPool -> Who]
    BY <2>1, <2>3, LenProperties
  <2>7. ASSUME NEW k \in 1 .. PerPool, Q[k] # NoClub
        PROVE  Q[k] = best[k] /\ k \in 1 .. N /\ Q[k] \in members
    <3>1. k \in Nat /\ k >= 1
      BY <1>1
    <3>2. k <= N /\ Q[k] = best[k]
      BY <2>1, <2>4, <2>5, <2>7
    <3> QED
      BY <1>4, <3>1, <3>2
  <2>8. ASSUME NEW k \in 1 .. PerPool, k <= N
        PROVE  Q[k] \in members
    <3>1. k \in 1 .. N
      BY <1>1, <1>4, <2>8
    <3> QED
      BY <1>4, <2>1, <2>4, <2>8, <3>1
  <2> QED
    BY <1>4, <2>6, <2>7, <2>8, <1>6 DEF Who, OnePlaceEach, IsInjective, Q, N
<1> QED
  BY <1>7, <1>8 DEF Q

(* The places of K groups with p each, one after the other.                *)
LEMMA PlacesOfGroups ==
  ASSUME NEW p \in {1, 2}, NEW K \in {1, 2, 4}, NEW k \in 1 .. p * K
  PROVE  /\ 1 + (k - 1) \div p \in 1 .. K /\ 1 + ((k - 1) % p) \in 1 .. p
         /\ k = 1 + p * ((k - 1) \div p) + ((k - 1) % p)
         /\ (k - 1) \div p \in Int /\ (k - 1) % p \in Int
<1>1. CASE p = 1
  BY <1>1
<1>2. CASE p = 2
  BY <1>2
<1> QED
  BY <1>1, <1>2

(* ... so that the q-th of the group at place i has a place of its own.    *)
LEMMA PlaceInGroup ==
  ASSUME NEW K \in {1, 2, 4}, NEW i \in 1 .. K
  PROVE  /\ \E k \in 1 .. 1 * K : 1 + (k - 1) \div 1 = i /\ 1 + ((k - 1) % 1) = 1
         /\ \E k \in 1 .. 2 * K : 1 + (k - 1) \div 2 = i /\ 1 + ((k - 1) % 2) = 1
         /\ \E k \in 1 .. 2 * K : 1 + (k - 1) \div 2 = i /\ 1 + ((k - 1) % 2) = 2
<1>1. i \in 1 .. 1 * K /\ 1 + (i - 1) \div 1 = i /\ 1 + ((i - 1) % 1) = 1
  OBVIOUS
<1>2. 2 * i - 1 \in 1 .. 2 * K /\ 1 + (2 * i - 1 - 1) \div 2 = i /\ 1 + ((2 * i - 1 - 1) % 2) = 1
  OBVIOUS
<1>3. 2 * i \in 1 .. 2 * K /\ 1 + (2 * i - 1) \div 2 = i /\ 1 + ((2 * i - 1) % 2) = 2
  OBVIOUS
<1> QED
  BY <1>1, <1>2, <1>3

(* The second of a group meets the first of the next one.                  *)
LEMMA CrossedSeats ==
  ASSUME NEW m \in {4, 8}
  PROVE  LET Crossed(k) == CASE k % 4 = 2 -> k + 2 [] k % 4 = 0 -> k - 2 [] OTHER -> k
         IN /\ \A k \in 1 .. m : Crossed(k) \in 1 .. m
            /\ \A k, l \in 1 .. m : Crossed(k) = Crossed(l) => k = l
            /\ \A l \in 1 .. m : \E k \in 1 .. m : Crossed(k) = l
<1> DEFINE Crossed(k) == CASE k % 4 = 2 -> k + 2 [] k % 4 = 0 -> k - 2 [] OTHER -> k
<1>1. \A k \in 1 .. m : /\ Crossed(k) \in 1 .. m
                        /\ k % 4 = 2 => Crossed(k) = k + 2 /\ Crossed(k) % 4 = 0
                        /\ k % 4 = 0 => Crossed(k) = k - 2 /\ Crossed(k) % 4 = 2
                        /\ k % 4 \in {1, 3} => Crossed(k) = k
                        /\ k % 4 \in 0 .. 3
  OBVIOUS
<1> HIDE DEF Crossed
<1>2. ASSUME NEW k \in 1 .. m, NEW l \in 1 .. m, Crossed(k) = Crossed(l)
      PROVE  k = l
  BY <1>1, <1>2
<1>3. ASSUME NEW l \in 1 .. m
      PROVE  \E k \in 1 .. m : Crossed(k) = l
  <2>1. Crossed(Crossed(l)) = l /\ Crossed(l) \in 1 .. m
    BY <1>1
  <2> QED
    BY <2>1
<1> QED
  BY <1>1, <1>2, <1>3 DEF Crossed

(* In d, with a place for each of K groups, the qualified play if they are *)
(* still in.                                                               *)
GroupsGoThrough(ed, d, K) ==
  2 * Len(d) = PerPool * K =>
    \A g \in 1 .. K, q \in 1 .. PerPool : Qualified(ed, g)[q] \in StillIn(ed) =>
      \E k \in 1 .. Len(d) : Plays(d[k], Qualified(ed, g)[q])

(* The groups send their clubs to the first round of the knockout.         *)
LEMMA GroupsGoOn ==
  ASSUME Enrolled, NEW ed, Written(ed), Cardinality(StillIn(ed)) \in 2 .. 16,
         NEW K \in {1, 2, 4}, Groups = 1 .. K, Len(entries) = 12 => K = 4,
         \A i \in 1 .. Len(ed.matches) : ed.matches[i].stage # "knockout"
  PROVE  /\ ToPlay(FromGroups(ed), StillIn(ed)) /\ NewRound(ed.matches, FromGroups(ed))
         /\ GroupsGoThrough(ed, FromGroups(ed), K)
<1> DEFINE order == GroupOrder
           best  == {<<i, Qualified(ed, order[i])>> : i \in DOMAIN order}
           Sent(k) == (CHOOSE b \in best : b[1] = 1 + (k - 1) \div PerPool)[2][1 + ((k - 1) % PerPool)]
           s     == [k \in 1 .. PerPool * Len(order) |-> Sent(k)]
           Crossed(k) == CASE k % 4 = 2 -> k + 2 [] k % 4 = 0 -> k - 2 [] OTHER -> k
           seat  == [k \in DOMAIN s |-> IF PerPool = 1 \/ Len(s) = 2 THEN k ELSE Crossed(k)]
           Who == Club \cup {NoClub}
           ties == Ties("knockout", 1, Len(s) \div 2)
           m == PerPool * K
<1>1. /\ order \in [1 .. K -> 1 .. K] /\ IsInjective(order) /\ DOMAIN order = 1 .. K /\ Len(order) = K
      /\ \A g \in 1 .. K : \E i \in 1 .. K : order[i] = g
  <2>1. /\ order \in [1 .. K -> 1 .. K] /\ IsInjective(order)
        /\ \A g \in 1 .. K : \E i \in 1 .. K : order[i] = g
    BY GroupOrderType
  <2> HIDE DEF order
  <2> QED
    BY <2>1
<1>2. (PerPool = 1 /\ K = 4) \/ PerPool = 2
  BY DEF PerPool
<1>3. ASSUME NEW i \in 1 .. K
      PROVE  (CHOOSE b \in best : b[1] = i) = <<i, Qualified(ed, order[i])>>
  <2>1. <<i, Qualified(ed, order[i])>> \in best
    BY <1>1
  <2>2. \A b \in best : b[1] = i => b = <<i, Qualified(ed, order[i])>>
    OBVIOUS
  <2> HIDE DEF best
  <2> QED
    BY <2>1, <2>2
<1>4. ASSUME NEW k \in 1 .. m
      PROVE  /\ Sent(k) \in Who
             /\ Sent(k) = Qualified(ed, order[1 + (k - 1) \div PerPool])[1 + ((k - 1) % PerPool)]
             /\ 1 + (k - 1) \div PerPool \in 1 .. K /\ 1 + ((k - 1) % PerPool) \in 1 .. PerPool
  <2> DEFINE i == 1 + (k - 1) \div PerPool
             j == 1 + ((k - 1) % PerPool)
  <2>1. i \in 1 .. K /\ j \in 1 .. PerPool
    BY <1>2, PlacesOfGroups
  <2>2. (CHOOSE b \in best : b[1] = i) = <<i, Qualified(ed, order[i])>>
    <3> HIDE DEF i, best
    <3> QED
      BY <1>3, <2>1
  <2>3. Qualified(ed, order[i]) \in [1 .. PerPool -> Who]
    BY QualifiedType
  <2>4. Sent(k) = Qualified(ed, order[i])[j]
    <3> DEFINE chosen == CHOOSE b \in best : b[1] = i
    <3>1. Sent(k) = chosen[2][j]
      OBVIOUS
    <3>2. chosen = <<i, Qualified(ed, order[i])>>
      BY <2>2
    <3> HIDE DEF best, i, j, chosen, Sent, order
    <3> QED
      BY <3>1, <3>2
  <2>5. Qualified(ed, order[i])[j] \in Who
    <3> HIDE DEF i, j, best, order
    <3> QED
      BY <2>1, <2>3
  <2> HIDE DEF best, order, Sent
  <2> QED
    BY <2>1, <2>4, <2>5
<1>5. s \in [1 .. m -> Who] /\ Len(s) = m /\ DOMAIN s = 1 .. m /\ \A k \in 1 .. m : s[k] = Sent(k)
  <2>1. s = [k \in 1 .. m |-> Sent(k)]
    BY <1>1
  <2>2. m \in Nat
    BY <1>2
  <2> HIDE DEF s, best, m, Sent
  <2> QED
    BY <1>4, <2>1, <2>2
<1> HIDE DEF best
<1>6. OnePlaceEach(s, m)
  <2> SUFFICES ASSUME NEW k \in 1 .. m, NEW l \in 1 .. m, s[k] = s[l], s[k] # NoClub PROVE k = l
    BY DEF OnePlaceEach
  <2> DEFINE i == 1 + (k - 1) \div PerPool
             j == 1 + ((k - 1) % PerPool)
             h == 1 + (l - 1) \div PerPool
             g == 1 + ((l - 1) % PerPool)
  <2>1. /\ i \in 1 .. K /\ j \in 1 .. PerPool /\ s[k] = Qualified(ed, order[i])[j]
        /\ h \in 1 .. K /\ g \in 1 .. PerPool /\ s[l] = Qualified(ed, order[h])[g]
    <3> HIDE DEF s, Sent, order, m
    <3> QED
      BY <1>4, <1>5
  <2>2. i = h /\ j = g => k = l
    <3> HIDE DEF s, order, Sent
    <3> DEFINE a == (k - 1) \div PerPool
               b == (l - 1) \div PerPool
               c == (k - 1) % PerPool
               e == (l - 1) % PerPool
    <3>1. /\ k = 1 + PerPool * a + c /\ a \in Int /\ c \in Int
          /\ l = 1 + PerPool * b + e /\ b \in Int /\ e \in Int
      BY <1>2, PlacesOfGroups
    <3>2. i = 1 + a /\ j = 1 + c /\ h = 1 + b /\ g = 1 + e
      OBVIOUS
    <3> HIDE DEF a, b, c, e, i, j, h, g
    <3>3. i = h /\ j = g => a = b /\ c = e
      BY <3>1, <3>2
    <3> QED
      BY <3>1, <3>3
  <2> HIDE DEF s, order, i, j, h, g, Sent, m
  <2> DEFINE Sends(x) == Qualified(ed, order[x])
  <2>3. \A x : /\ OnePlaceEach(Sends(x), PerPool)
               /\ \A y \in 1 .. PerPool : Sends(x)[y] # NoClub => PoolOf(pool, Sends(x)[y]) = order[x]
    BY QualifiedType
  <2>4. s[k] = Sends(i)[j] /\ s[l] = Sends(h)[g]
    BY <2>1
  <2> HIDE DEF Sends
  <2>5. order[i] = order[h]
    BY <2>1, <2>3, <2>4
  <2>6. i = h
    BY <1>1, <2>1, <2>5 DEF IsInjective
  <2>7. OnePlaceEach(Sends(h), PerPool) /\ Sends(h)[j] = Sends(h)[g] /\ Sends(h)[j] # NoClub
    BY <2>3, <2>4, <2>6
  <2>8. j = g
    BY <2>1, <2>7 DEF OnePlaceEach
  <2> QED
    BY <2>2, <2>6, <2>8
<1> HIDE DEF s, order, Sent
<1>7. m \in {2, 4, 8}
  BY <1>2
<1>8. seat \in [1 .. m -> 1 .. m] /\ IsInjective(seat) /\ \A l \in 1 .. m : \E k \in 1 .. m : seat[k] = l
  <2>1. seat = [k \in 1 .. m |-> IF PerPool = 1 \/ m = 2 THEN k ELSE Crossed(k)]
    BY <1>5
  <2>2. CASE PerPool = 1 \/ m = 2
    <3>1. seat = [k \in 1 .. m |-> k]
      BY <2>1, <2>2
    <3> HIDE DEF seat, m
    <3> QED
      BY <3>1 DEF IsInjective
  <2>3. CASE m \in {4, 8} /\ PerPool # 1
    <3>1. seat = [k \in 1 .. m |-> Crossed(k)]
      <4>1. m # 2 /\ PerPool # 1
        BY <2>3
      <4> HIDE DEF seat, m, Crossed
      <4> QED
        BY <2>1, <4>1
    <3>2. /\ \A k \in 1 .. m : Crossed(k) \in 1 .. m
          /\ \A k, l \in 1 .. m : Crossed(k) = Crossed(l) => k = l
          /\ \A l \in 1 .. m : \E k \in 1 .. m : Crossed(k) = l
      <4> HIDE DEF m
      <4> QED
        BY <2>3, CrossedSeats
    <3> HIDE DEF seat, m, Crossed
    <3> QED
      BY <3>1, <3>2 DEF IsInjective
  <2> QED
    BY <1>7, <2>2, <2>3
<1>9. FromGroups(ed) = Drawn(ed, ties, s, seat)
  BY DEF FromGroups, s, best, order, Sent
<1> DEFINE n == m \div 2
<1>10. n \in Nat \ {0} /\ 2 * n <= m /\ m \in Nat
  <2> HIDE DEF m
  <2> QED
    BY <1>7
<1>11. ties \in [1 .. n -> [stage : Stage, round : Nat]]
       /\ \A k \in 1 .. n : ties[k].stage = "knockout" /\ ties[k].round = 1
  <2>1. ties = Ties("knockout", 1, n)
    BY <1>5
  <2> HIDE DEF n, ties
  <2> QED
    BY <1>10, <2>1 DEF Ties, Stage
<1> HIDE DEF ties, seat, n, m
<1>12. TiesOrBracket(Drawn(ed, ties, s, seat), n, ties, s, m, ed)
  BY <1>5, <1>8, <1>10, <1>11, DrawnProperties, Zenon
<1> DEFINE d == Drawn(ed, ties, s, seat)
<1>13. NewRound(ed.matches, d)
  <2> HIDE DEF d
  <2>1. CASE /\ Len(d) = n /\ Spread(d)
             /\ \A k \in 1 .. n : d[k].stage = ties[k].stage /\ d[k].round = ties[k].round
    <3>1. /\ \A k \in 1 .. Len(d) : d[k].stage = "knockout" /\ d[k].round = 1
          /\ \A i \in 1 .. Len(ed.matches) : ed.matches[i].stage = "knockout" => ed.matches[i].round < 1
      BY <1>11, <2>1
    <3> QED
      BY <2>1, <3>1 DEF NewRound
  <2> QED
    BY <1>6, <1>12, <2>1 DEF TiesOrBracket, d
<1>14. ASSUME 2 * Len(d) = m, NEW g \in 1 .. K, NEW q \in 1 .. PerPool,
              Qualified(ed, g)[q] \in StillIn(ed)
       PROVE  \E k \in 1 .. Len(d) : Plays(d[k], Qualified(ed, g)[q])
  <2>1. PICK i \in 1 .. K : order[i] = g
    BY <1>1
  <2>2. PICK k \in 1 .. PerPool * K : 1 + (k - 1) \div PerPool = i /\ 1 + ((k - 1) % PerPool) = q
    <3>1. \/ PerPool = 1 /\ q = 1
          \/ PerPool = 2 /\ q = 1
          \/ PerPool = 2 /\ q = 2
      BY <1>2
    <3>2. /\ \E k \in 1 .. 1 * K : 1 + (k - 1) \div 1 = i /\ 1 + ((k - 1) % 1) = 1
          /\ \E k \in 1 .. 2 * K : 1 + (k - 1) \div 2 = i /\ 1 + ((k - 1) % 2) = 1
          /\ \E k \in 1 .. 2 * K : 1 + (k - 1) \div 2 = i /\ 1 + ((k - 1) % 2) = 2
      BY PlaceInGroup
    <3> QED
      BY <3>1, <3>2
  <2>3. k \in 1 .. m /\ s[k] = Qualified(ed, g)[q]
    <3>1. s[k] = Qualified(ed, order[1 + (k - 1) \div PerPool])[1 + ((k - 1) % PerPool)] /\ k \in 1 .. m
      BY <1>4, <1>5 DEF m
    <3> QED
      BY <2>1, <2>2, <3>1
  <2>4. PICK p \in 1 .. m : seat[p] = k
    BY <1>8, <2>3
  <2>5. Len(d) = n /\ m = 2 * n
    <3> DEFINE l == Len(d)
    <3>1. l \in Nat /\ 2 * l = m
      BY <1>12, <1>14, LenProperties DEF TiesOrBracket, ToPlay
    <3> HIDE DEF d, l
    <3>2. \A x \in Nat : 2 * x \in {2, 4, 8} => (2 * x) \div 2 = x
      OBVIOUS
    <3>3. n = l
      BY <1>7, <3>1, <3>2 DEF n
    <3> QED
      BY <3>1, <3>3 DEF l
  <2>6. \E l \in 1 .. n : Plays(Drawn(ed, ties, s, seat)[l], s[seat[p]])
    <3>1. s[seat[p]] \in StillIn(ed) /\ Len(Drawn(ed, ties, s, seat)) = n
      BY <1>14, <2>3, <2>4, <2>5
    <3> QED
      BY <1>5, <1>8, <1>10, <1>11, <2>5, <3>1, PlacesKept, Zenon
  <2> QED
    BY <2>3, <2>4, <2>5, <2>6
<1>15. GroupsGoThrough(ed, d, K)
  BY <1>14 DEF GroupsGoThrough, m
<1> QED
  BY <1>9, <1>12, <1>13, <1>15 DEF TiesOrBracket

-----------------------------------------------------------------------------
(* What is on record stays *)

(* What was decided is as it was, and every match is the one it was.       *)
Kept(old, new) ==
  /\ Len(old) <= Len(new)
  /\ \A i \in 1 .. Len(old) : /\ new[i].home = old[i].home /\ new[i].away = old[i].away
                              /\ new[i].stage = old[i].stage /\ new[i].round = old[i].round
                              /\ old[i].decided => new[i] = old[i]

(* The last of a sequence with something added is the last of what was.    *)
LEMMA Added ==
  ASSUME NEW old \in Seq(MatchType), NEW d \in Seq(MatchType), Len(d) > 0
  PROVE  LET new == old \o d
         IN /\ new \in Seq(MatchType) /\ Len(new) = Len(old) + Len(d)
            /\ Last(new) = d[Len(d)] /\ Kept(old, new)
            /\ \A i \in 1 .. Len(old) : new[i] = old[i]
            /\ \A k \in 1 .. Len(d) : new[Len(old) + k] = d[k]
            /\ \A i \in 1 .. Len(new) : i > Len(old) => i - Len(old) \in 1 .. Len(d)
<1> DEFINE new == old \o d
<1>1. Len(old) \in Nat /\ Len(d) \in Nat
  BY LenProperties
<1>2. /\ new \in Seq(MatchType) /\ Len(new) = Len(old) + Len(d)
      /\ \A i \in 1 .. Len(old) + Len(d) :
           new[i] = IF i <= Len(old) THEN old[i] ELSE d[i - Len(old)]
  BY ConcatProperties
<1> HIDE DEF new
<1>3. \A i \in 1 .. Len(old) : new[i] = old[i]
  BY <1>1, <1>2
<1>4. \A k \in 1 .. Len(d) : new[Len(old) + k] = d[k]
  <2> SUFFICES ASSUME NEW k \in 1 .. Len(d) PROVE new[Len(old) + k] = d[k]
    OBVIOUS
  <2>1. /\ Len(old) + k \in 1 .. Len(old) + Len(d) /\ ~(Len(old) + k <= Len(old))
        /\ Len(old) + k - Len(old) = k
    BY <1>1
  <2> QED
    BY <1>2, <2>1
<1>5. Last(new) = d[Len(d)]
  BY <1>1, <1>2, <1>4 DEF Last
<1> QED
  BY <1>1, <1>2, <1>3, <1>4, <1>5 DEF Kept, new

(* More matches make no round untidy when it is another round.             *)
LEMMA TidyOn ==
  ASSUME NEW old \in Seq(MatchType), NEW d \in Seq(MatchType), Len(d) > 0,
         Tidy(old), Tidy(d), \A i \in 1 .. Len(old), k \in 1 .. Len(d) : ~SameRound(old[i], d[k])
  PROVE  Tidy(old \o d)
<1> DEFINE new == old \o d
<1>1. Len(old) \in Nat /\ Len(d) \in Nat
  BY LenProperties
<1>2. /\ Len(new) = Len(old) + Len(d)
      /\ \A i \in 1 .. Len(old) : new[i] = old[i]
      /\ \A k \in 1 .. Len(d) : new[Len(old) + k] = d[k]
  BY Added
<1> HIDE DEF new
<1> SUFFICES ASSUME NEW j \in 1 .. Len(new), NEW i \in 1 .. j - 1, SameRound(new[i], new[j])
             PROVE  Apart(new[i], new[j])
  BY DEF Tidy, new
<1>3. CASE j <= Len(old)
  <2>1. j \in 1 .. Len(old) /\ i \in 1 .. Len(old)
    BY <1>1, <1>2, <1>3
  <2> QED
    BY <1>2, <2>1 DEF Tidy
<1>4. CASE i > Len(old)
  <2> DEFINE h == i - Len(old)
             k == j - Len(old)
  <2>1. k \in 1 .. Len(d) /\ h \in 1 .. k - 1 /\ h \in 1 .. Len(d) /\ Len(old) + h = i /\ Len(old) + k = j
    BY <1>1, <1>2, <1>4
  <2>2. new[i] = d[h] /\ new[j] = d[k]
    BY <1>2, <2>1
  <2> HIDE DEF h, k
  <2> QED
    BY <2>1, <2>2 DEF Tidy
<1>5. CASE i <= Len(old) /\ j > Len(old)
  <2>1. j - Len(old) \in 1 .. Len(d) /\ i \in 1 .. Len(old) /\ Len(old) + (j - Len(old)) = j
    BY <1>1, <1>2, <1>5
  <2> QED
    BY <1>2, <2>1
<1> QED
  BY <1>1, <1>3, <1>4, <1>5

-----------------------------------------------------------------------------
(* The first fixtures *)

(* The first matches of an edition: two clubs of it each.                  *)
Opening(d, stage) ==
  /\ ToPlay(d, Entered)
  /\ \A k \in 1 .. Len(d) : d[k].home # d[k].away /\ d[k].stage = stage

(* Numbers less than q apart leave different remainders.                   *)
LEMMA Remainders ==
  ASSUME NEW q \in Nat \ {0}, NEW a \in Int, NEW b \in Int, 0 < b - a, b - a < q
  PROVE  a % q # b % q
<1>1. /\ a = q * (a \div q) + (a % q) /\ a \div q \in Int
      /\ b = q * (b \div q) + (b % q) /\ b \div q \in Int
  OBVIOUS
<1>2. SUFFICES ASSUME a % q = b % q PROVE FALSE
  OBVIOUS
<1> DEFINE t == (b \div q) - (a \div q)
<1>3. b - a = q * t /\ t \in Int
  BY <1>1, <1>2
<1> HIDE DEF t
<1>4. CASE t <= 0
  <2>1. q * t <= 0
    BY <1>3, <1>4
  <2> QED
    BY <1>3, <2>1
<1>5. CASE t >= 1
  <2>1. q * t >= q
    BY <1>3, <1>5
  <2> QED
    BY <1>3, <2>1
<1> QED
  BY <1>3, <1>4, <1>5

(* Who is in a place of a round: the first club stays in the first place,  *)
(* the others go round.                                                    *)
Slot(i, r, odd) == IF i = 0 THEN 1 ELSE 2 + ((i - r) % odd)

(* Going round once.                                                       *)
LEMMA OnceRound ==
  ASSUME NEW q \in Nat \ {0}, NEW a \in Int, -q < a, a < q
  PROVE  a % q = IF a >= 0 THEN a ELSE a + q
<1> DEFINE t == a \div q
           m == a % q
<1>1. a = q * t + m /\ t \in Int /\ m \in 0 .. q - 1
  OBVIOUS
<1> HIDE DEF t, m
<1>2. CASE t <= -2
  <2>1. q * t <= -2 * q
    BY <1>1, <1>2
  <2> QED
    BY <1>1, <2>1
<1>3. CASE t = -1
  <2>1. q * t = -q
    BY <1>3
  <2> QED
    BY <1>1, <2>1 DEF m
<1>4. CASE t = 0
  <2>1. q * t = 0
    BY <1>4
  <2> QED
    BY <1>1, <2>1 DEF m
<1>5. CASE t >= 1
  <2>1. q * t >= q
    BY <1>1, <1>5
  <2> QED
    BY <1>1, <2>1
<1> QED
  BY <1>1, <1>2, <1>3, <1>4, <1>5

(* A place of the rotation, without remainders.                            *)
LEMMA SlotValue ==
  ASSUME NEW odd \in Nat \ {0}, NEW i \in 1 .. odd, NEW r \in 1 .. odd
  PROVE  Slot(i, r, odd) = IF i >= r THEN 2 + i - r ELSE 2 + i - r + odd
<1>1. i - r \in Int /\ -odd < i - r /\ i - r < odd /\ (i - r >= 0 <=> i >= r)
  OBVIOUS
<1>2. (i - r) % odd = IF i >= r THEN i - r ELSE i - r + odd
  BY <1>1, OnceRound
<1> DEFINE x == (i - r) % odd
<1>3. Slot(i, r, odd) = 2 + x
  BY DEF Slot
<1> HIDE DEF x
<1> QED
  BY <1>2, <1>3 DEF x

(* A rotation of twice `half' places, one of which stays, has `odd' rounds. *)
Rotation(half, odd) == half \in Nat \ {0} /\ odd = 2 * half - 1

(* The numbers a and b meet in a round.                                    *)
MeetIn(half, odd, a, b) ==
  \E i \in 0 .. half - 1, r \in 1 .. odd : {Slot(i, r, odd), Slot(odd - i, r, odd)} = {a, b}

(* In the rounds of a rotation two meet once at most ...                   *)
LEMMA MeetOnce ==
  ASSUME NEW half, NEW odd, Rotation(half, odd)
  PROVE  \A i, j \in 0 .. half - 1, r, t \in 1 .. odd :
           {Slot(i, r, odd), Slot(odd - i, r, odd)} = {Slot(j, t, odd), Slot(odd - j, t, odd)}
           => i = j /\ r = t
<1> SUFFICES ASSUME
      NEW i \in 0 .. half - 1, NEW j \in 0 .. half - 1, NEW r \in 1 .. odd, NEW t \in 1 .. odd,
      {Slot(i, r, odd), Slot(odd - i, r, odd)} = {Slot(j, t, odd), Slot(odd - j, t, odd)}
    PROVE  i = j /\ r = t
  OBVIOUS
<1> half \in Nat \ {0} /\ odd = 2 * half - 1
  BY DEF Rotation
<1> DEFINE T(k, s) == IF k >= s THEN 2 + k - s ELSE 2 + k - s + odd
           a == Slot(i, r, odd)
           b == Slot(odd - i, r, odd)
           c == Slot(j, t, odd)
           d == Slot(odd - j, t, odd)
<1>1. /\ odd \in Nat \ {0} /\ odd - i \in 1 .. odd /\ odd - j \in 1 .. odd
      /\ i # 0 => i \in 1 .. odd
      /\ j # 0 => j \in 1 .. odd
  OBVIOUS
<1>2. /\ a = IF i = 0 THEN 1 ELSE T(i, r)
      /\ b = T(odd - i, r)
      /\ c = IF j = 0 THEN 1 ELSE T(j, t)
      /\ d = T(odd - j, t)
  <2>1. \A k \in 1 .. odd, s \in 1 .. odd : Slot(k, s, odd) = T(k, s)
    BY <1>1, SlotValue
  <2>2. \A s : Slot(0, s, odd) = 1
    BY DEF Slot
  <2> HIDE DEF T
  <2> QED
    BY <1>1, <2>1, <2>2
<1>3. (a = c /\ b = d) \/ (a = d /\ b = c)
  OBVIOUS
<1> HIDE DEF a, b, c, d
<1>4. /\ \/ i = 0 /\ a = 1
         \/ i >= r /\ i > 0 /\ a = 2 + i - r
         \/ i < r /\ i > 0 /\ a = 2 + i - r + odd
      /\ \/ odd - i >= r /\ b = 2 + odd - i - r
         \/ odd - i < r /\ b = 2 + odd - i - r + odd
      /\ \/ j = 0 /\ c = 1
         \/ j >= t /\ j > 0 /\ c = 2 + j - t
         \/ j < t /\ j > 0 /\ c = 2 + j - t + odd
      /\ \/ odd - j >= t /\ d = 2 + odd - j - t
         \/ odd - j < t /\ d = 2 + odd - j - t + odd
  BY <1>1, <1>2
<1>5. CASE a = c /\ b = d
  BY <1>1, <1>4, <1>5
<1>6. CASE a = d /\ b = c
  BY <1>1, <1>4, <1>6
<1> QED
  BY <1>3, <1>5, <1>6

(* ... and at least once.                                                  *)
LEMMA MeetInARound ==
  ASSUME NEW half, NEW odd, Rotation(half, odd)
  PROVE  \A a, b \in 1 .. 2 * half : a # b => MeetIn(half, odd, a, b)
<1> SUFFICES ASSUME NEW a \in 1 .. 2 * half, NEW b \in 1 .. 2 * half, a # b
             PROVE  \E i \in 0 .. half - 1, r \in 1 .. odd :
                      {Slot(i, r, odd), Slot(odd - i, r, odd)} = {a, b}
  BY DEF MeetIn
<1> half \in Nat \ {0} /\ odd = 2 * half - 1
  BY DEF Rotation
<1>1. odd \in Nat \ {0}
  OBVIOUS
<1>2. ASSUME NEW e \in 2 .. 2 * half
      PROVE  \E i \in 0 .. half - 1, r \in 1 .. odd : Slot(i, r, odd) = 1 /\ Slot(odd - i, r, odd) = e
  <2> DEFINE r == odd + 2 - e
  <2>1. r \in 1 .. odd /\ odd - 0 \in 1 .. odd /\ 0 \in 0 .. half - 1 /\ odd - 0 = odd
    OBVIOUS
  <2>2. Slot(odd, r, odd) = 2 + odd - r
    BY <1>1, <2>1, SlotValue
  <2>3. Slot(0, r, odd) = 1 /\ Slot(odd - 0, r, odd) = e
    BY <2>1, <2>2 DEF Slot
  <2> QED
    BY <2>1, <2>3
<1>3. CASE a = 1
  BY <1>2, <1>3
<1>4. CASE b = 1
  BY <1>2, <1>4
<1>5. CASE a # 1 /\ b # 1
  <2> DEFINE x == a - 2
             y == b - 2
  <2>1. x \in 0 .. odd - 1 /\ y \in 0 .. odd - 1 /\ x # y /\ a = x + 2 /\ b = y + 2
    BY <1>5
  <2> HIDE DEF x, y
  <2>2. PICK r \in 1 .. odd : 2 * r + x + y \in {odd, 2 * odd, 3 * odd}
    <3>1. PICK u \in Int : x + y = 2 * u \/ x + y = 2 * u + 1
      <4> DEFINE u == (x + y) \div 2
      <4>1. u \in Int /\ (x + y = 2 * u \/ x + y = 2 * u + 1)
        BY <2>1
      <4> HIDE DEF u
      <4> QED
        BY <4>1
    <3>2. CASE x + y = 2 * u
      <4>1. odd - u \in 1 .. odd /\ 2 * (odd - u) + x + y = 2 * odd
        BY <1>1, <2>1, <3>2
      <4> QED
        BY <4>1
    <3>3. CASE x + y = 2 * u + 1 /\ u < half - 1
      <4>1. half - 1 - u \in 1 .. odd /\ 2 * (half - 1 - u) + x + y = odd
        BY <1>1, <2>1, <3>3
      <4> QED
        BY <4>1
    <3>4. CASE x + y = 2 * u + 1 /\ u >= half - 1
      <4>1. half - 1 - u + odd \in 1 .. odd /\ 2 * (half - 1 - u + odd) + x + y = 3 * odd
        BY <1>1, <2>1, <3>4
      <4> QED
        BY <4>1
    <3> QED
      BY <3>1, <3>2, <3>3, <3>4
  <2>3. PICK p \in 1 .. odd - 1 : /\ p >= r => p - r = x
                                  /\ p < r => p - r + odd = x
    <3>1. CASE x + r < odd
      <4> DEFINE p == x + r
      <4>1. p \in 1 .. odd - 1 /\ p >= r /\ p - r = x /\ ~(p < r)
        BY <1>1, <2>1, <3>1
      <4> HIDE DEF p
      <4> QED
        BY <4>1
    <3>2. x + r # odd
      <4> SUFFICES ASSUME x + r = odd PROVE FALSE
        OBVIOUS
      <4>1. 2 * r + x + y = 2 * odd + (y - x)
        BY <1>1, <2>1
      <4> QED
        BY <1>1, <2>1, <2>2, <4>1
    <3>3. CASE x + r > odd
      <4> DEFINE p == x + r - odd
      <4>1. p \in 1 .. odd - 1 /\ p < r /\ p - r + odd = x /\ ~(p >= r)
        BY <1>1, <2>1, <3>3
      <4> HIDE DEF p
      <4> QED
        BY <4>1
    <3> QED
      BY <1>1, <2>1, <3>1, <3>2, <3>3
  <2>4. Slot(p, r, odd) = a
    <3>1. Slot(p, r, odd) = IF p >= r THEN 2 + p - r ELSE 2 + p - r + odd
      BY <1>1, SlotValue
    <3> QED
      BY <1>1, <2>1, <2>3, <3>1
  <2>5. Slot(odd - p, r, odd) = b
    <3> DEFINE p2 == odd - p
    <3>1. p2 \in 1 .. odd
      BY <1>1
    <3>2. Slot(p2, r, odd) = IF p2 >= r THEN 2 + p2 - r ELSE 2 + p2 - r + odd
      BY <1>1, <3>1, SlotValue
    <3>3. (p2 >= r => p2 - r = y) /\ (p2 < r => p2 - r + odd = y)
      BY <1>1, <2>1, <2>2, <2>3, <3>1
    <3> HIDE DEF p2
    <3>4. Slot(p2, r, odd) = b
      BY <1>1, <2>1, <3>1, <3>2, <3>3
    <3> QED
      BY <3>4 DEF p2
  <2>6. CASE p < half
    <3>1. p \in 0 .. half - 1
      BY <2>6
    <3> QED
      BY <2>4, <2>5, <3>1
  <2>7. CASE ~(p < half)
    <3>1. odd - p \in 0 .. half - 1 /\ odd - (odd - p) = p
      BY <2>7
    <3> QED
      BY <2>4, <2>5, <3>1
  <2> QED
    BY <2>6, <2>7
<1> QED
  BY <1>3, <1>4, <1>5

(* Dividing what is left of h equal parts gives a part and a place in it.  *)
LEMMA PartAndPlace ==
  ASSUME NEW h \in Nat \ {0}, NEW k \in Nat
  PROVE  k \div h \in Nat /\ k % h \in 0 .. h - 1 /\ k = h * (k \div h) + (k % h)
OBVIOUS

(* The start of the part after n whole ones.                               *)
LEMMA WholeParts ==
  ASSUME NEW h \in Nat \ {0}, NEW n \in Nat
  PROVE  n * h \in Nat /\ (n * h) \div h = n /\ (n * h) % h = 0
OBVIOUS

(* In the part n the place i.                                              *)
LEMMA PlaceInPart ==
  ASSUME NEW h \in Nat \ {0}, NEW n \in Nat, NEW i \in 0 .. h - 1
  PROVE  (h * n + i) \div h = n /\ (h * n + i) % h = i
<1> DEFINE k == h * n + i
           q == k \div h
           m == k % h
<1>1. k \in Nat /\ h * n \in Nat
  OBVIOUS
<1> HIDE DEF k
<1>2. q \in Nat /\ m \in 0 .. h - 1 /\ k = h * q + m
  BY <1>1, PartAndPlace
<1> HIDE DEF q, m
<1>3. ~(q < n)
  <2> SUFFICES ASSUME q < n PROVE FALSE
    OBVIOUS
  <2>1. h * (q + 1) <= h * n /\ h * (q + 1) = h * q + h
    BY <1>2
  <2> QED
    BY <1>1, <1>2, <2>1 DEF k
<1>4. ~(q > n)
  <2> SUFFICES ASSUME q > n PROVE FALSE
    OBVIOUS
  <2>1. h * (n + 1) <= h * q /\ h * (n + 1) = h * n + h
    BY <1>2
  <2> QED
    BY <1>1, <1>2, <2>1 DEF k
<1>5. q = n
  BY <1>2, <1>3, <1>4
<1>6. m = i
  BY <1>1, <1>2, <1>5 DEF k
<1> QED
  BY <1>5, <1>6 DEF q, m, k

(* All meet all, and nobody twice.                                         *)
PairsOnce(d) ==
  /\ \A a, b \in Entered : a # b => \E k \in 1 .. Len(d) : {d[k].home, d[k].away} = {a, b}
  /\ \A j, k \in 1 .. Len(d) : {d[j].home, d[j].away} = {d[k].home, d[k].away} => j = k

(* Everybody who meets in a round is entered, and meets another club once. *)
LEMMA LeagueRoundsOpen ==
  ASSUME Enrolled, Len(entries) >= 2
  PROVE  LET d == LeagueRounds(Len(entries) + (Len(entries) % 2))
         IN /\ Opening(d, "league") /\ Tidy(d) /\ PairsOnce(d)
            /\ \A k \in 1 .. Len(d) : d[k].round \in 1 .. Len(entries) + (Len(entries) % 2) - 1
<1> DEFINE slots == Len(entries) + (Len(entries) % 2)
           half == slots \div 2
           odd == slots - 1
           Holder(i, r) == IF i = 0 THEN 1 ELSE 2 + ((i - r) % odd)
           Held(i, r) == IF Holder(i, r) \in DOMAIN entries THEN entries[Holder(i, r)] ELSE NoClub
           R(k) == 1 + (k - 1) \div half
           P(k) == (k - 1) % half
           all == [k \in 1 .. half * odd |->
                     Fixture("league", R(k), 0, Held(P(k), R(k)), Held(odd - P(k), R(k)))]
           I == {k \in DOMAIN all : NoClub \notin {all[k].home, all[k].away}}
           d == Picked(all, I)
<1>1. /\ Len(entries) \in Nat /\ DOMAIN entries = 1 .. Len(entries)
      /\ entries \in [1 .. Len(entries) -> Club]
      /\ \A i \in 1 .. Len(entries) : entries[i] \in Entered
      /\ Entered \in SUBSET Club
  BY Seeds, LenProperties DEF Enrolled
<1>2. /\ half \in Nat \ {0} /\ odd \in Nat \ {0} /\ odd = 2 * half - 1
      /\ slots \in Nat /\ slots >= 2
  BY <1>1
<1>3. LeagueRounds(slots) = d
  <2>1. \A i, r : slots - 1 - i = odd - i
    OBVIOUS
  <2> QED
    BY DEF LeagueRounds
<1> HIDE DEF half, odd, slots
<1>4. half * odd \in Nat
  BY <1>2
<1>5. ASSUME NEW k \in 1 .. half * odd
      PROVE  /\ R(k) \in 1 .. odd /\ P(k) \in 0 .. half - 1
             /\ odd - P(k) \in Nat \ {0} /\ odd - P(k) > P(k)
             /\ k = 1 + half * (R(k) - 1) + P(k)
  <2> DEFINE q == (k - 1) \div half
             p == (k - 1) % half
  <2>1. k - 1 \in Nat
    BY <1>4
  <2>2. q \in Nat /\ p \in 0 .. half - 1 /\ k - 1 = half * q + p
    BY <1>2, <2>1, PartAndPlace
  <2>3. R(k) = 1 + q /\ P(k) = p
    OBVIOUS
  <2> HIDE DEF q, p, R, P
  <2>4. q < odd
    <3> SUFFICES ASSUME q >= odd PROVE FALSE
      BY <1>2, <2>2
    <3>1. half * q >= half * odd
      BY <1>2, <2>2
    <3> QED
      BY <1>2, <1>4, <2>2, <3>1
  <2> QED
    BY <1>2, <2>2, <2>3, <2>4
<1>6. ASSUME NEW i \in Nat, NEW j \in Nat, NEW r \in Nat, i < j, j - i <= odd, i > 0 => j - i < odd
      PROVE  Holder(i, r) # Holder(j, r)
  <2>1. (j - r) % odd \in 0 .. odd - 1
    BY <1>2
  <2>2. CASE i = 0
    BY <1>6, <2>1, <2>2
  <2>3. CASE i > 0
    <3>1. (i - r) % odd # (j - r) % odd
      <4>1. i - r \in Int /\ j - r \in Int /\ 0 < (j - r) - (i - r) /\ (j - r) - (i - r) < odd
        BY <1>2, <1>6, <2>3
      <4> QED
        BY <1>2, <4>1, Remainders
    <3>2. (i - r) % odd \in Int /\ (j - r) % odd \in Int
      BY <1>2
    <3> QED
      BY <1>6, <2>3, <3>1, <3>2
  <2> QED
    BY <2>2, <2>3
<1>7. \A i, r : Held(i, r) # NoClub =>
        Holder(i, r) \in 1 .. Len(entries) /\ Held(i, r) = entries[Holder(i, r)]
  <2> HIDE DEF Holder
  <2> QED
    BY <1>1
<1>8. \A i, r : Holder(i, r) = Slot(i, r, odd)
  BY DEF Slot
<1> HIDE DEF Holder, Held
<1>9. ASSUME NEW i \in 0 .. odd, NEW j \in 0 .. odd, i < j, NEW r \in Nat, Held(i, r) # NoClub,
              Held(j, r) # NoClub
       PROVE  Held(i, r) # Held(j, r)
  <2>1. i \in Nat /\ j \in Nat /\ j - i <= odd /\ (i > 0 => j - i < odd)
    BY <1>2
  <2>2. Holder(i, r) # Holder(j, r)
    BY <1>6, <1>9, <2>1
  <2> QED
    BY <1>1, <1>7, <1>9, <2>2 DEF Enrolled, IsInjective
<1>10. ASSUME NEW k \in I
      PROVE  /\ k \in 1 .. half * odd
             /\ Due(all[k], "league", R(k), Held(P(k), R(k)), Held(odd - P(k), R(k)))
             /\ Held(P(k), R(k)) \in Entered /\ Held(odd - P(k), R(k)) \in Entered
             /\ Held(P(k), R(k)) # Held(odd - P(k), R(k))
             /\ all[k].round = R(k)
  <2> DEFINE r == R(k)
             i == P(k)
             j == odd - P(k)
  <2>1. k \in 1 .. half * odd
    OBVIOUS
  <2>2. r \in Nat /\ i \in Nat /\ j \in Nat /\ i < j /\ i \in 0 .. odd /\ j \in 0 .. odd
    <3>1. R(k) \in 1 .. odd /\ P(k) \in 0 .. half - 1
      BY <1>5, <2>1
    <3> HIDE DEF R, P
    <3> QED
      BY <1>2, <3>1
  <2>3. all[k] = Fixture("league", r, 0, Held(i, r), Held(j, r))
    BY <2>1
  <2>4. Held(i, r) # NoClub /\ Held(j, r) # NoClub
    <3>1. all[k].home = Held(i, r) /\ all[k].away = Held(j, r)
      BY <2>3 DEF Fixture
    <3> QED
      BY <3>1
  <2> HIDE DEF r, i, j
  <2>5. /\ Held(i, r) \in Entered /\ Held(j, r) \in Entered
        /\ Held(i, r) # Held(j, r)
    BY <1>1, <1>7, <1>9, <2>2, <2>4
  <2>6. Due(Fixture("league", r, 0, Held(i, r), Held(j, r)), "league", r, Held(i, r), Held(j, r))
    <3>1. "league" \in Stage /\ r \in Nat /\ 0 \in 0 .. 4 /\ Held(i, r) \in Club /\ Held(j, r) \in Club
      BY <1>1, <2>2, <2>5 DEF Stage
    <3> QED
      BY <3>1, FixtureType, Zenon
  <2>7. all[k].round = r
    BY <2>3 DEF Fixture
  <2> QED
    BY <2>1, <2>3, <2>5, <2>6, <2>7 DEF r, i, j
<1>11. I # {}
  <2> DEFINE n == slots - 2
             k == 1 + n * half
  <2>1. n \in Nat /\ n * half \in Nat /\ (n * half) \div half = n /\ (n * half) % half = 0
    BY <1>2, WholeParts
  <2>2. R(k) = odd /\ P(k) = 0
    BY <1>2, <2>1 DEF odd
  <2>3. k \in 1 .. half * odd
    <3>1. half * odd = n * half + half
      BY <1>2 DEF odd
    <3> QED
      BY <1>2, <2>1, <3>1
  <2>4. Holder(0, odd) = 1 /\ Holder(odd, odd) = 2
    BY <1>2 DEF Holder
  <2>5. Held(0, odd) # NoClub /\ Held(odd, odd) # NoClub
    BY <1>1, <2>4, ClubAssumption DEF Held
  <2>6. all[k] = Fixture("league", odd, 0, Held(0, odd), Held(odd, odd))
    <3>1. odd - 0 = odd
      BY <1>2
    <3> HIDE DEF k, R, P
    <3> QED
      BY <2>2, <2>3, <3>1
  <2>7. all[k].home = Held(0, odd) /\ all[k].away = Held(odd, odd)
    BY <2>6 DEF Fixture
  <2> HIDE DEF k
  <2> QED
    BY <2>3, <2>5, <2>7
<1>12. I \in SUBSET Int /\ IsFiniteSet(I) /\ Cardinality(I) \in Nat \ {0}
  <2>1. I \in SUBSET (1 .. half * odd)
    OBVIOUS
  <2> HIDE DEF I
  <2>2. IsFiniteSet(I)
    BY <1>4, <2>1, UpTo, FS_Subset
  <2> QED
    BY <1>11, <2>1, <2>2, FS_CardinalityType, FS_EmptySet
<1>13. ASSUME NEW a \in Entered, NEW b \in Entered, a # b
       PROVE  \E k \in I : {all[k].home, all[k].away} = {a, b}
  <2>1. /\ Seed(a) \in 1 .. 2 * half /\ Seed(b) \in 1 .. 2 * half /\ Seed(a) # Seed(b)
        /\ entries[Seed(a)] = a /\ entries[Seed(b)] = b
        /\ Seed(a) \in 1 .. Len(entries) /\ Seed(b) \in 1 .. Len(entries)
    <3>1. Len(entries) <= 2 * half
      BY <1>1, <1>2 DEF slots, odd
    <3> QED
      BY <1>1, <1>2, <1>13, <3>1, Seeds
  <2>2. PICK i \in 0 .. half - 1, r \in 1 .. odd :
          {Slot(i, r, odd), Slot(odd - i, r, odd)} = {Seed(a), Seed(b)}
    <3>1. Rotation(half, odd)
      BY <1>2 DEF Rotation
    <3>2. MeetIn(half, odd, Seed(a), Seed(b))
      BY <2>1, <3>1, MeetInARound, Zenon
    <3> QED
      BY <3>2 DEF MeetIn
  <2> DEFINE k == 1 + half * (r - 1) + i
  <2>3. R(k) = r /\ P(k) = i
    <3>1. r - 1 \in Nat /\ k - 1 = half * (r - 1) + i
      BY <1>2
    <3>2. (k - 1) \div half = r - 1 /\ (k - 1) % half = i
      BY <1>2, <3>1, PlaceInPart
    <3> HIDE DEF k
    <3> QED
      BY <3>2
  <2>4. k \in 1 .. half * odd
    <3>1. half * (r - 1) \in Nat /\ half * (r - 1) + half = half * r /\ half * r <= half * odd
      BY <1>2
    <3> QED
      BY <1>2, <1>4, <3>1
  <2>5. {Held(i, r), Held(odd - i, r)} = {a, b}
    <3>1. \A p \in {i, odd - i} : Holder(p, r) \in {Seed(a), Seed(b)}
      BY <1>8, <2>2
    <3>2. \A p \in {i, odd - i} : Held(p, r) = entries[Holder(p, r)]
      BY <1>1, <2>1, <3>1 DEF Held
    <3>3. {Holder(i, r), Holder(odd - i, r)} = {Seed(a), Seed(b)}
      BY <1>8, <2>2
    <3> QED
      BY <2>1, <3>2, <3>3
  <2>6. all[k].home = Held(i, r) /\ all[k].away = Held(odd - i, r)
    <3> HIDE DEF k, R, P
    <3>1. all[k] = Fixture("league", r, 0, Held(i, r), Held(odd - i, r))
      BY <2>3, <2>4
    <3> QED
      BY <3>1 DEF Fixture
  <2>7. NoClub \notin {a, b}
    BY <1>1, ClubAssumption
  <2> HIDE DEF k, R, P
  <2>8. k \in I
    BY <2>4, <2>5, <2>6, <2>7
  <2> HIDE DEF all, I
  <2> QED
    BY <2>5, <2>6, <2>8
<1>14. ASSUME NEW h \in I, NEW k \in I, {all[h].home, all[h].away} = {all[k].home, all[k].away}
       PROVE  h = k
  <2> DEFINE i == P(h)
             r == R(h)
             j == P(k)
             s == R(k)
  <2>1. /\ h \in 1 .. half * odd /\ k \in 1 .. half * odd
        /\ all[h].home = Held(i, r) /\ all[h].away = Held(odd - i, r)
        /\ all[k].home = Held(j, s) /\ all[k].away = Held(odd - j, s)
        /\ Held(i, r) \in Entered /\ Held(odd - i, r) \in Entered
        /\ Held(j, s) \in Entered /\ Held(odd - j, s) \in Entered
    BY <1>10 DEF Due
  <2>2. /\ i \in 0 .. half - 1 /\ r \in 1 .. odd /\ h = 1 + half * (r - 1) + i
        /\ j \in 0 .. half - 1 /\ s \in 1 .. odd /\ k = 1 + half * (s - 1) + j
    BY <1>5, <2>1
  <2> HIDE DEF i, r, j, s, all, I
  <2>3. NoClub \notin Entered
    BY <1>1, ClubAssumption
  <2>4. /\ Seed(Held(i, r)) = Holder(i, r) /\ Seed(Held(odd - i, r)) = Holder(odd - i, r)
        /\ Seed(Held(j, s)) = Holder(j, s) /\ Seed(Held(odd - j, s)) = Holder(odd - j, s)
    BY <1>7, <2>1, <2>3, Seeds
  <2>5. {Holder(i, r), Holder(odd - i, r)} = {Holder(j, s), Holder(odd - j, s)}
    <3>1. {Held(i, r), Held(odd - i, r)} = {Held(j, s), Held(odd - j, s)}
      BY <1>14, <2>1
    <3> QED
      BY <2>4, <3>1
  <2>6. i = j /\ r = s
    <3>1. {Slot(i, r, odd), Slot(odd - i, r, odd)} = {Slot(j, s, odd), Slot(odd - j, s, odd)}
      BY <1>8, <2>5
    <3>2. Rotation(half, odd)
      BY <1>2 DEF Rotation
    <3>3. i \in 0 .. half - 1 /\ r \in 1 .. odd /\ j \in 0 .. half - 1 /\ s \in 1 .. odd
      BY <2>2
    <3>4. \A u, v \in 0 .. half - 1, x, y \in 1 .. odd :
            {Slot(u, x, odd), Slot(odd - u, x, odd)} = {Slot(v, y, odd), Slot(odd - v, y, odd)}
            => u = v /\ x = y
      BY <3>2, MeetOnce, Zenon
    <3> QED
      BY <3>1, <3>3, <3>4, Zenon
  <2> QED
    BY <2>2, <2>6
<1> HIDE DEF I, all
<1>15. /\ DOMAIN d = 1 .. Cardinality(I)
       /\ d = [k \in 1 .. Cardinality(I) |-> d[k]]
       /\ \A k \in 1 .. Cardinality(I) : \E i \in I : d[k] = all[i]
       /\ \A i \in I : \E k \in 1 .. Cardinality(I) : d[k] = all[i]
       /\ \A j, k \in 1 .. Cardinality(I) : j # k => \E h, i \in I : h # i /\ d[j] = all[h] /\ d[k] = all[i]
  <2>1. Picks(Picked(all, I), all, I)
    BY <1>12, PickedProperties
  <2> QED
    BY <2>1 DEF Picks
<1>16. ASSUME NEW k \in 1 .. Cardinality(I)
       PROVE  /\ d[k] \in MatchType /\ ~d[k].decided /\ d[k].winner = NoClub
             /\ {d[k].home, d[k].away} \subseteq Entered
              /\ d[k].home # d[k].away /\ d[k].stage = "league" /\ d[k].round \in 1 .. odd
  <2>1. PICK i \in I : d[k] = all[i]
    BY <1>15
  <2>2. R(i) \in 1 .. odd
    BY <1>5, <1>10
  <2> HIDE DEF R, P, d
  <2> QED
    BY <1>10, <2>1, <2>2 DEF Due
<1> HIDE DEF d
<1>17. d \in Seq(MatchType) /\ Len(d) = Cardinality(I)
  <2>1. DOMAIN d = 1 .. Cardinality(I) /\ d = [k \in 1 .. Cardinality(I) |-> d[k]]
    BY <1>15
  <2> QED
    BY <1>12, <1>16, <2>1
<1>18. Tidy(d)
  <2> SUFFICES ASSUME NEW k \in 1 .. Cardinality(I), NEW j \in 1 .. k - 1, SameRound(d[j], d[k])
               PROVE  Apart(d[j], d[k])
    BY <1>17 DEF Tidy
  <2>1. j \in 1 .. Cardinality(I) /\ j # k
    BY <1>12
  <2>2. PICK h \in I, i \in I : h # i /\ d[j] = all[h] /\ d[k] = all[i]
    BY <1>15, <2>1
  <2> DEFINE r == R(h)
             a == P(h)
             b == P(i)
  <2>3. /\ r \in Nat /\ R(i) = r
        /\ d[j].home = Held(a, r) /\ d[j].away = Held(odd - a, r)
        /\ d[k].home = Held(b, r) /\ d[k].away = Held(odd - b, r)
        /\ Held(a, r) # NoClub /\ Held(odd - a, r) # NoClub
        /\ Held(b, r) # NoClub /\ Held(odd - b, r) # NoClub
    <3>1. R(h) \in 1 .. odd
      BY <1>5, <1>10
    <3> HIDE DEF R, P, d
    <3>2. R(h) = R(i)
      BY <1>10, <2>2 DEF Due, SameRound
    <3>3. NoClub \notin Entered /\ R(h) \in Nat
      BY <1>1, <3>1, ClubAssumption
    <3> QED
      BY <1>10, <2>2, <3>2, <3>3 DEF Due
  <2>4. a \in 0 .. half - 1 /\ b \in 0 .. half - 1 /\ a # b
    <3>1. /\ a \in 0 .. half - 1 /\ h = 1 + half * (r - 1) + a
          /\ b \in 0 .. half - 1 /\ i = 1 + half * (R(i) - 1) + b
      BY <1>5, <1>10
    <3> HIDE DEF a, b, r, R
    <3> QED
      BY <2>2, <2>3, <3>1
  <2> HIDE DEF a, b, r, d
  <2>5. CASE a < b
    <3>1. /\ a < odd - b /\ b < odd - a /\ odd - b < odd - a
          /\ a \in 0 .. odd /\ b \in 0 .. odd /\ odd - a \in 0 .. odd /\ odd - b \in 0 .. odd
      BY <1>2, <2>4, <2>5
    <3>2. /\ Held(a, r) # Held(b, r) /\ Held(a, r) # Held(odd - b, r)
          /\ Held(odd - a, r) # Held(b, r) /\ Held(odd - a, r) # Held(odd - b, r)
      BY <1>9, <2>3, <2>5, <3>1
    <3> QED
      BY <2>3, <3>2 DEF Apart
  <2>6. CASE b < a
    <3>1. /\ a < odd - b /\ b < odd - a /\ odd - a < odd - b
          /\ a \in 0 .. odd /\ b \in 0 .. odd /\ odd - a \in 0 .. odd /\ odd - b \in 0 .. odd
      BY <1>2, <2>4, <2>6
    <3>2. /\ Held(a, r) # Held(b, r) /\ Held(a, r) # Held(odd - b, r)
          /\ Held(odd - a, r) # Held(b, r) /\ Held(odd - a, r) # Held(odd - b, r)
      BY <1>9, <2>3, <2>6, <3>1
    <3> QED
      BY <2>3, <3>2 DEF Apart
  <2> QED
    BY <2>4, <2>5, <2>6
<1>19. PairsOnce(d)
  <2>1. ASSUME NEW a \in Entered, NEW b \in Entered, a # b
        PROVE  \E k \in 1 .. Len(d) : {d[k].home, d[k].away} = {a, b}
    <3>1. PICK i \in I : {all[i].home, all[i].away} = {a, b}
      BY <1>13, <2>1
    <3>2. PICK k \in 1 .. Len(d) : d[k] = all[i]
      BY <1>15, <1>17
    <3> QED
      BY <3>1, <3>2
  <2>2. ASSUME NEW j \in 1 .. Len(d), NEW k \in 1 .. Len(d),
               {d[j].home, d[j].away} = {d[k].home, d[k].away}, j # k
        PROVE  FALSE
    <3>1. j \in 1 .. Cardinality(I) /\ k \in 1 .. Cardinality(I)
      BY <1>17
    <3>2. PICK h \in I, i \in I : h # i /\ d[j] = all[h] /\ d[k] = all[i]
      BY <1>15, <2>2, <3>1, Zenon
    <3> QED
      BY <1>14, <2>2, <3>2
  <2> QED
    BY <2>1, <2>2 DEF PairsOnce
<1> QED
  BY <1>3, <1>12, <1>16, <1>17, <1>18, <1>19 DEF Opening, ToPlay, slots, odd

(* Every match of legs and the same at the other home.                     *)
Doubled(ms, legs) ==
  /\ Len(ms) = Len(legs) + Len(legs)
  /\ \A k \in 1 .. Len(legs) :
       /\ ms[k] = legs[k]
       /\ ms[Len(legs) + k].home = legs[k].away /\ ms[Len(legs) + k].away = legs[k].home

(* The matches of the rounds, with the return ones if there are any.       *)
OnceOrTwice(ms) ==
  \E legs : /\ Opening(legs, "league") /\ PairsOnce(legs)
            /\ IF rules.homeAndAway THEN Doubled(ms, legs) ELSE ms = legs

(* The first matches of a league.                                          *)
LEMMA LeagueOpens ==
  ASSUME Enrolled, Len(entries) >= 2
  PROVE  Opening(LeagueFixtures, "league") /\ Tidy(LeagueFixtures) /\ OnceOrTwice(LeagueFixtures)
<1> DEFINE slots == Len(entries) + (Len(entries) % 2)
           Back(m) == Fixture("league", m.round + slots - 1, 0, m.away, m.home)
           legs == LeagueRounds(slots)
           back == [k \in DOMAIN legs |-> Back(legs[k])]
<1>1. /\ Opening(legs, "league") /\ Tidy(legs) /\ PairsOnce(legs)
      /\ \A k \in 1 .. Len(legs) : legs[k].round \in 1 .. slots - 1
  BY LeagueRoundsOpen
<1>2. slots - 1 \in Nat /\ slots \in Nat /\ Entered \in SUBSET Club
  BY Seeds
<1> HIDE DEF slots
<1>3. LeagueFixtures = IF rules.homeAndAway THEN legs \o back ELSE legs
  BY DEF LeagueFixtures, WithReturn, slots
<1> HIDE DEF legs
<1>4. /\ legs \in Seq(MatchType) /\ Len(legs) \in Nat \ {0} /\ DOMAIN legs = 1 .. Len(legs)
  BY <1>1, LenProperties DEF Opening, ToPlay
<1>5. ASSUME NEW k \in 1 .. Len(legs)
      PROVE  /\ back[k] \in MatchType /\ ~back[k].decided /\ back[k].winner = NoClub
             /\ {back[k].home, back[k].away} \subseteq Entered
             /\ back[k].home # back[k].away /\ back[k].stage = "league"
             /\ back[k].home = legs[k].away /\ back[k].away = legs[k].home
             /\ back[k].round = legs[k].round + slots - 1
  <2> DEFINE home == legs[k].away
             away == legs[k].home
             round == legs[k].round + slots - 1
  <2>1. home \in Entered /\ away \in Entered /\ home # away
    BY <1>1, <1>5 DEF Opening, ToPlay
  <2>2. "league" \in Stage /\ round \in Nat /\ 0 \in 0 .. 4 /\ home \in Club /\ away \in Club
    BY <1>1, <1>2, <2>1 DEF Stage
  <2>3. back[k] = Fixture("league", round, 0, home, away)
    BY <1>4
  <2> HIDE DEF home, away, round, back
  <2>4. Due(Fixture("league", round, 0, home, away), "league", round, home, away)
    BY <2>2, FixtureType, Zenon
  <2> QED
    BY <2>1, <2>3, <2>4 DEF Due, home, away, round
<1>6. back \in Seq(MatchType) /\ Len(back) = Len(legs)
  <2>1. back = [k \in 1 .. Len(legs) |-> back[k]]
    BY <1>4
  <2> HIDE DEF back
  <2> QED
    BY <1>4, <1>5, <2>1
<1> HIDE DEF back
<1>7. /\ legs \o back \in Seq(MatchType) /\ Len(legs \o back) = Len(legs) + Len(back)
      /\ \A i \in 1 .. Len(legs) + Len(back) :
           (legs \o back)[i] = IF i <= Len(legs) THEN legs[i] ELSE back[i - Len(legs)]
  BY <1>4, <1>6, ConcatProperties
<1>8. ASSUME NEW i \in 1 .. Len(legs) + Len(back)
      PROVE  /\ ~(legs \o back)[i].decided /\ (legs \o back)[i].winner = NoClub
             /\ {(legs \o back)[i].home, (legs \o back)[i].away} \subseteq Entered
             /\ (legs \o back)[i].home # (legs \o back)[i].away
             /\ (legs \o back)[i].stage = "league"
  <2>1. CASE i <= Len(legs)
    <3>1. i \in 1 .. Len(legs) /\ (legs \o back)[i] = legs[i]
      BY <1>4, <1>6, <1>7, <2>1
    <3> QED
      BY <1>1, <3>1 DEF Opening, ToPlay
  <2>2. CASE ~(i <= Len(legs))
    <3>1. i - Len(legs) \in 1 .. Len(legs) /\ (legs \o back)[i] = back[i - Len(legs)]
      BY <1>4, <1>6, <1>7, <2>2
    <3> QED
      BY <1>5, <3>1
  <2> QED
    BY <2>1, <2>2
<1>9. Opening(legs \o back, "league")
  BY <1>4, <1>6, <1>7, <1>8 DEF Opening, ToPlay
<1>10. Tidy(legs \o back)
  <2>1. Tidy(back)
    <3> SUFFICES ASSUME NEW k \in 1 .. Len(back), NEW j \in 1 .. k - 1, SameRound(back[j], back[k])
                 PROVE  Apart(back[j], back[k])
      BY DEF Tidy
    <3>1. j \in 1 .. Len(legs) /\ k \in 1 .. Len(legs) /\ legs[j].round \in Int /\ legs[k].round \in Int
      BY <1>1, <1>4, <1>6
    <3>2. SameRound(legs[j], legs[k])
      BY <1>1, <1>2, <1>5, <3>1 DEF SameRound, Opening
    <3>3. Apart(legs[j], legs[k])
      BY <1>1, <1>6, <3>2 DEF Tidy
    <3> QED
      BY <1>5, <3>1, <3>3 DEF Apart
  <2>2. \A i \in 1 .. Len(legs), k \in 1 .. Len(back) : ~SameRound(legs[i], back[k])
    <3> SUFFICES ASSUME NEW i \in 1 .. Len(legs), NEW k \in 1 .. Len(back) PROVE ~SameRound(legs[i], back[k])
      OBVIOUS
    <3>1. /\ legs[i].round \in 1 .. slots - 1 /\ legs[k].round \in 1 .. slots - 1
          /\ back[k].round = legs[k].round + slots - 1
      BY <1>1, <1>5, <1>6
    <3> DEFINE a == legs[i].round
               b == legs[k].round
    <3>2. a \in 1 .. slots - 1 /\ b \in 1 .. slots - 1 /\ slots \in Int
      BY <1>2, <3>1
    <3> HIDE DEF a, b
    <3>3. a # b + slots - 1
      BY <3>2
    <3> QED
      BY <3>1, <3>3 DEF SameRound, a, b
  <2> QED
    BY <1>1, <1>4, <1>6, <2>1, <2>2, TidyOn
<1>11. Doubled(legs \o back, legs)
  <2>1. Len(legs \o back) = Len(legs) + Len(legs)
    BY <1>6, <1>7
  <2>2. ASSUME NEW k \in 1 .. Len(legs)
        PROVE  (legs \o back)[k] = legs[k] /\ (legs \o back)[Len(legs) + k] = back[k]
    <3>1. /\ k \in 1 .. Len(legs) + Len(back) /\ k <= Len(legs)
          /\ Len(legs) + k \in 1 .. Len(legs) + Len(back) /\ ~(Len(legs) + k <= Len(legs))
          /\ Len(legs) + k - Len(legs) = k
      BY <1>4, <1>6
    <3> QED
      BY <1>7, <3>1
  <2> QED
    BY <1>5, <2>1, <2>2 DEF Doubled
<1>12. OnceOrTwice(LeagueFixtures)
  BY <1>1, <1>3, <1>11 DEF OnceOrTwice
<1> QED
  BY <1>1, <1>3, <1>9, <1>10, <1>12

(* The pools are given out completely or not at all.                       *)
Dealt(groups) ==
  \/ groups = [c \in Club |-> 0]
  \/ LET last == rules.capacity \div GroupSize
     IN /\ groups \in [Club -> 0 .. 4]
        /\ \A c \in Entered : groups[c] \in 1 .. last
        /\ \A g \in 1 .. last : Cardinality({c \in Entered : groups[c] = g}) = GroupSize

(* An edition with every place taken.                                      *)
Full == rules \in EditionType /\ rules.format # "league" /\ Len(entries) = rules.capacity

(* Sizes of a full edition: the groups it can have.                        *)
LEMMA FullSizes ==
  ASSUME Full
  PROVE  /\ rules.capacity \in {4, 8, 12, 16} /\ Len(entries) = rules.capacity
         /\ GroupSize = IF rules.capacity = 12 THEN 3 ELSE 4
         /\ rules.capacity \div GroupSize = IF rules.capacity = 4 THEN 1
                                            ELSE IF rules.capacity = 8 THEN 2 ELSE 4
BY DEF Full, EditionType, GroupSize

(* Every group has its clubs, and no club is alone in its group.           *)
LEMMA GroupsDealt ==
  ASSUME Enrolled, Full, NEW groups, Dealt(groups)
  PROVE  /\ {PoolOf(groups, c) : c \in Entered} = 1 .. rules.capacity \div GroupSize
         /\ \A c \in Entered : \E d \in Entered : d # c /\ PoolOf(groups, d) = PoolOf(groups, c)
<1> DEFINE last == rules.capacity \div GroupSize
<1>1. /\ rules.capacity \in {4, 8, 12, 16} /\ Len(entries) = rules.capacity
      /\ GroupSize = IF rules.capacity = 12 THEN 3 ELSE 4
      /\ last = IF rules.capacity = 4 THEN 1 ELSE IF rules.capacity = 8 THEN 2 ELSE 4
  BY FullSizes
<1>2. /\ \A c \in Entered : Seed(c) \in 1 .. Len(entries)
      /\ \A i \in 1 .. Len(entries) : entries[i] \in Entered /\ Seed(entries[i]) = i
      /\ Entered \in SUBSET Club /\ IsFiniteSet(Entered)
      /\ \A c, d \in Entered : Seed(c) = Seed(d) => c = d
  BY Seeds
<1> HIDE DEF last
<1>3. CASE groups = [c \in Club |-> 0]
  <2>1. \A c \in Entered : PoolOf(groups, c) = 1 + (Seed(c) - 1) \div GroupSize
    BY <1>2, <1>3 DEF PoolOf
  <2>2. \A i \in 1 .. rules.capacity : 1 + (i - 1) \div GroupSize \in 1 .. last
    BY <1>1
  <2>3. \A g \in 1 .. last : 1 + (g - 1) * GroupSize \in 1 .. rules.capacity
                             /\ 1 + (1 + (g - 1) * GroupSize - 1) \div GroupSize = g
    BY <1>1
  <2>4. \A c \in Entered : PoolOf(groups, c) \in 1 .. last
    BY <1>1, <1>2, <2>1, <2>2
  <2>5. \A g \in 1 .. last : \E c \in Entered : PoolOf(groups, c) = g
    <3> SUFFICES ASSUME NEW g \in 1 .. last PROVE \E c \in Entered : PoolOf(groups, c) = g
      OBVIOUS
    <3> DEFINE i == 1 + (g - 1) * GroupSize
    <3>1. i \in 1 .. Len(entries) /\ 1 + (i - 1) \div GroupSize = g
      BY <1>1, <2>3
    <3> HIDE DEF i
    <3> QED
      BY <1>2, <2>1, <3>1
  <2>6. ASSUME NEW c \in Entered
        PROVE  \E d \in Entered : d # c /\ PoolOf(groups, d) = PoolOf(groups, c)
    <3> DEFINE i == Seed(c)
    <3>1. i \in 1 .. rules.capacity
      BY <1>1, <1>2
    <3> HIDE DEF i
    <3>2. \E j \in 1 .. rules.capacity : j # i /\ (j - 1) \div GroupSize = (i - 1) \div GroupSize
      <4>1. CASE (i - 1) % GroupSize = 0
        <5>1. i + 1 \in 1 .. rules.capacity /\ (i + 1 - 1) \div GroupSize = (i - 1) \div GroupSize
          BY <1>1, <3>1, <4>1
        <5> QED
          BY <3>1, <5>1
      <4>2. CASE (i - 1) % GroupSize # 0
        <5>1. i - 1 \in 1 .. rules.capacity /\ (i - 1 - 1) \div GroupSize = (i - 1) \div GroupSize
          BY <1>1, <3>1, <4>2
        <5> QED
          BY <3>1, <5>1
      <4> QED
        BY <4>1, <4>2
    <3>3. PICK j \in 1 .. Len(entries) : j # i /\ (j - 1) \div GroupSize = (i - 1) \div GroupSize
      BY <1>1, <3>2
    <3>4. entries[j] \in Entered /\ Seed(entries[j]) = j
      BY <1>2
    <3> QED
      BY <2>1, <3>3, <3>4 DEF i
  <2> QED
    BY <2>4, <2>5, <2>6 DEF last
<1>4. CASE /\ groups \in [Club -> 0 .. 4]
           /\ \A c \in Entered : groups[c] \in 1 .. last
           /\ \A g \in 1 .. last : Cardinality({c \in Entered : groups[c] = g}) = GroupSize
  <2>1. \A c \in Entered : PoolOf(groups, c) = groups[c]
    BY <1>1, <1>4 DEF PoolOf
  <2>2. ASSUME NEW g \in 1 .. last
        PROVE  /\ \E c \in Entered : groups[c] = g
               /\ \A c \in Entered : groups[c] = g => \E d \in Entered : d # c /\ groups[d] = g
    <3> DEFINE S == {c \in Entered : groups[c] = g}
    <3>1. IsFiniteSet(S) /\ Cardinality(S) >= 3
      BY <1>1, <1>2, <1>4, FS_Subset
    <3>2. S # {}
      BY <3>1, FS_EmptySet
    <3> HIDE DEF S
    <3>3. \A c \in S : S # {c}
      <4> SUFFICES ASSUME NEW c \in S, S = {c} PROVE FALSE
        OBVIOUS
      <4>1. Cardinality({c}) = 1
        BY FS_Singleton
      <4> QED
        BY <3>1, <4>1
    <3> USE DEF S
    <3>4. \A c \in S : \E d \in S : d # c
      <4> HIDE DEF S
      <4> QED
        BY <3>3
    <3> QED
      BY <3>2, <3>4
  <2>3. \A c \in Entered : \E d \in Entered : d # c /\ PoolOf(groups, d) = PoolOf(groups, c)
    BY <1>4, <2>1, <2>2
  <2>4. \A c \in Entered : PoolOf(groups, c) \in 1 .. last
    BY <1>4, <2>1
  <2>5. \A g \in 1 .. last : \E c \in Entered : PoolOf(groups, c) = g
    BY <2>1, <2>2
  <2> QED
    BY <2>3, <2>4, <2>5 DEF last
<1> QED
  BY <1>3, <1>4 DEF Dealt, last

(* Every club has a match.                                                 *)
AllIn(ms) == \A c \in Entered : \E i \in 1 .. Len(ms) : c \in {ms[i].home, ms[i].away}

(* All of a group against all, once, whoever has the lower seed at home.   *)
BySeed(d, groups) ==
  /\ \A k \in 1 .. Len(d) : /\ Seed(d[k].home) < Seed(d[k].away)
                            /\ PoolOf(groups, d[k].home) = PoolOf(groups, d[k].away)
  /\ \A a, b \in Entered : Seed(a) < Seed(b) /\ PoolOf(groups, a) = PoolOf(groups, b) =>
       \E k \in 1 .. Len(d) : d[k].home = a /\ d[k].away = b
  /\ \A j, k \in 1 .. Len(d) : d[j].home = d[k].home /\ d[j].away = d[k].away => j = k

(* The first matches of the groups.                                        *)
LEMMA GroupsOpen ==
  ASSUME Enrolled, Full, NEW groups, Dealt(groups)
  PROVE  LET d == GroupFixtures(groups)
         IN Opening(d, "groups") /\ AllIn(d) /\ BySeed(d, groups)
<1> DEFINE pairs == {f \in Entered \X Entered :
                       Seed(f[1]) < Seed(f[2]) /\ PoolOf(groups, f[1]) = PoolOf(groups, f[2])}
           Key(f) == <<PoolOf(groups, f[1]), Seed(f[1]), Seed(f[2])>>
           key == [f \in pairs |-> Key(f)]
           keyed == {<<f, Key(f)>> : f \in pairs}
           order == Sorted(keyed)
           N == Cardinality(pairs)
           d == GroupFixtures(groups)
<1>1. /\ \A c \in Entered : PoolOf(groups, c) \in 0 .. 4 /\ PoolOf(groups, c) \in Int
      /\ \A c \in Entered : \E f \in pairs : c \in {f[1], f[2]}
      /\ pairs # {}
  <2>1. rules.capacity \div GroupSize \in 1 .. 4
    BY FullSizes
  <2>2. {PoolOf(groups, c) : c \in Entered} = 1 .. rules.capacity \div GroupSize
    BY GroupsDealt
  <2>3. ASSUME NEW c \in Entered
        PROVE  \E f \in pairs : c \in {f[1], f[2]}
    <3>1. PICK e \in Entered : e # c /\ PoolOf(groups, e) = PoolOf(groups, c)
      BY GroupsDealt
    <3>2. Seed(c) < Seed(e) \/ Seed(e) < Seed(c)
      <4>1. Seed(c) # Seed(e) /\ Seed(c) \in Int /\ Seed(e) \in Int
        BY <3>1, Seeds
      <4> QED
        BY <4>1
    <3>3. CASE Seed(c) < Seed(e)
      <4>1. <<c, e>> \in pairs /\ <<c, e>>[1] = c
        BY <3>1, <3>3
      <4> HIDE DEF pairs
      <4> QED
        BY <4>1
    <3>4. CASE Seed(e) < Seed(c)
      <4>1. <<e, c>> \in pairs /\ <<e, c>>[2] = c
        BY <3>1, <3>4
      <4> HIDE DEF pairs
      <4> QED
        BY <4>1
    <3> QED
      BY <3>2, <3>3, <3>4
  <2>4. pairs # {}
    <3>1. PICK c \in Entered : TRUE
      BY <2>1, <2>2
    <3> HIDE DEF pairs
    <3> QED
      BY <2>3, <3>1
  <2>5. \A a \in Entered : PoolOf(groups, a) \in 1 .. rules.capacity \div GroupSize
    BY <2>2
  <2> HIDE DEF pairs
  <2> QED
    BY <2>1, <2>3, <2>4, <2>5
<1>2. \A c \in Entered : Seed(c) \in Int /\ c \in Club
  BY Seeds
<1>3. IsFiniteSet(pairs) /\ N \in Nat \ {0}
  <2>1. IsFiniteSet(pairs)
    BY Seeds, FS_Product, FS_Subset
  <2> HIDE DEF pairs
  <2> QED
    BY <1>1, <2>1, FS_CardinalityType, FS_EmptySet
<1>4. key \in [pairs -> Keys(3)]
  <2>1. \A f \in pairs : Key(f) \in Keys(3)
    <3> SUFFICES ASSUME NEW f \in pairs PROVE Key(f) \in Keys(3)
      OBVIOUS
    <3>1. PoolOf(groups, f[1]) \in Int /\ Seed(f[1]) \in Int /\ Seed(f[2]) \in Int
      BY <1>1, <1>2
    <3> QED
      BY <3>1 DEF Keys
  <2> HIDE DEF Key, pairs
  <2> QED
    BY <2>1
<1>5. IsInjective(key)
  <2> SUFFICES ASSUME NEW f \in pairs, NEW g \in pairs, key[f] = key[g] PROVE f = g
    BY DEF IsInjective
  <2>1. Seed(f[1]) = Seed(g[1]) /\ Seed(f[2]) = Seed(g[2])
    OBVIOUS
  <2>2. f[1] = g[1] /\ f[2] = g[2]
    BY <2>1, Seeds
  <2> QED
    BY <2>2
<1>6. Keyed(keyed, pairs, key)
  <2> HIDE DEF Key, pairs
  <2> QED
    BY DEF Keyed
<1>7. /\ order \in [1 .. N -> pairs] /\ IsInjective(order)
      /\ \A f \in pairs : \E k \in 1 .. N : order[k] = f
  <2>1. 3 \in Nat
    OBVIOUS
  <2>2. LET s == Sorted(keyed)
        IN /\ s \in [1 .. Cardinality(pairs) -> pairs]
           /\ IsInjective(s)
           /\ \A c \in pairs : \E k \in 1 .. Cardinality(pairs) : s[k] = c
           /\ \A c, e \in pairs : s[1] = c => ~Precedes(key[e], key[c])
    <3> HIDE DEF key, keyed, pairs
    <3> QED
      BY <1>3, <1>4, <1>5, <1>6, <2>1, SortedByKey, Zenon
  <2> HIDE DEF keyed, pairs
  <2> QED
    BY <2>2
<1>8. d = [k \in 1 .. N |-> Fixture("groups", 1, PoolOf(groups, order[k][1]), order[k][1], order[k][2])]
  <2>1. d = [k \in DOMAIN order |->
               Fixture("groups", 1, PoolOf(groups, order[k][1]), order[k][1], order[k][2])]
    BY DEF GroupFixtures
  <2> HIDE DEF order, d, pairs
  <2> QED
    BY <1>7, <2>1
<1> HIDE DEF order, d, N
<1>9. ASSUME NEW k \in 1 .. N
      PROVE  /\ d[k] \in MatchType /\ ~d[k].decided /\ d[k].winner = NoClub
             /\ {d[k].home, d[k].away} \subseteq Entered
             /\ d[k].home # d[k].away /\ d[k].stage = "groups"
             /\ d[k].home = order[k][1] /\ d[k].away = order[k][2]
  <2> DEFINE home == order[k][1]
             away == order[k][2]
             group == PoolOf(groups, home)
  <2>1. order[k] \in pairs
    BY <1>7
  <2>2. home \in Entered /\ away \in Entered /\ Seed(home) < Seed(away)
    BY <2>1
  <2>3. "groups" \in Stage /\ 1 \in Nat /\ group \in 0 .. 4 /\ home \in Club /\ away \in Club
    BY <1>1, <1>2, <2>2 DEF Stage
  <2>4. d[k] = Fixture("groups", 1, group, home, away)
    BY <1>8
  <2> HIDE DEF home, away, group
  <2>5. Due(Fixture("groups", 1, group, home, away), "groups", 1, home, away)
    BY <2>3, FixtureType, Zenon
  <2>6. home # away
    BY <1>2, <2>2
  <2> QED
    BY <2>2, <2>4, <2>5, <2>6 DEF Due, home, away
<1>10. d \in Seq(MatchType) /\ Len(d) = N
  BY <1>3, <1>8, <1>9
<1>11. AllIn(d)
  <2> SUFFICES ASSUME NEW c \in Entered
               PROVE  \E k \in 1 .. Len(d) : c \in {d[k].home, d[k].away}
    BY DEF AllIn
  <2>1. PICK f \in pairs : c \in {f[1], f[2]}
    BY <1>1
  <2>2. PICK k \in 1 .. N : order[k] = f
    BY <1>7
  <2> QED
    BY <1>9, <1>10, <2>1, <2>2
<1>12. BySeed(d, groups)
  <2>1. ASSUME NEW k \in 1 .. N
        PROVE  /\ Seed(d[k].home) < Seed(d[k].away)
               /\ PoolOf(groups, d[k].home) = PoolOf(groups, d[k].away)
    <3>1. order[k] \in pairs
      BY <1>7
    <3> QED
      BY <1>9, <3>1
  <2>2. ASSUME NEW a \in Entered, NEW b \in Entered, Seed(a) < Seed(b),
               PoolOf(groups, a) = PoolOf(groups, b)
        PROVE  \E k \in 1 .. N : d[k].home = a /\ d[k].away = b
    <3>1. <<a, b>> \in pairs
      BY <2>2
    <3>2. PICK k \in 1 .. N : order[k] = <<a, b>>
      BY <1>7, <3>1
    <3> QED
      BY <1>9, <3>2
  <2>3. ASSUME NEW j \in 1 .. N, NEW k \in 1 .. N, d[j].home = d[k].home, d[j].away = d[k].away
        PROVE  j = k
    <3>1. order[j] \in pairs /\ order[k] \in pairs
      BY <1>7
    <3>2. order[j][1] = order[k][1] /\ order[j][2] = order[k][2]
      BY <1>9, <2>3
    <3>3. order[j] = order[k]
      BY <3>1, <3>2
    <3> QED
      BY <1>7, <3>3 DEF IsInjective
  <2> QED
    BY <1>10, <2>1, <2>2, <2>3 DEF BySeed
<1> QED
  BY <1>3, <1>9, <1>10, <1>11, <1>12 DEF Opening, ToPlay, d

(* The first matches of a bracket or of a cascade.                         *)
LEMMA PairsOpen ==
  ASSUME Enrolled, NEW stage \in Stage, NEW n \in Nat \ {0}, NEW m \in Nat, 2 * n <= m,
         NEW s \in [1 .. m -> Entered], IsInjective(s)
  PROVE  LET d == Paired(Ties(stage, 1, n), s)
         IN Opening(d, stage) /\ Len(d) = n /\ Tidy(d) /\ \A k \in 1 .. n : d[k].round = 1
<1> DEFINE ties == Ties(stage, 1, n)
           d == Paired(ties, s)
<1>1. /\ ties \in [1 .. n -> [stage : Stage, round : Nat]]
      /\ \A k \in 1 .. n : ties[k].stage = stage /\ ties[k].round = 1
  BY DEF Ties
<1>2. Entered \in SUBSET Club
  BY Seeds
<1> HIDE DEF ties
<1>3. TwoByTwo(Paired(ties, s), n, ties, s, Entered)
  BY <1>1, <1>2, PairedProperties
<1>4. \A k \in 1 .. n : s[2 * k - 1] # s[2 * k]
  <2> SUFFICES ASSUME NEW k \in 1 .. n PROVE s[2 * k - 1] # s[2 * k]
    OBVIOUS
  <2>1. 2 * k - 1 \in 1 .. m /\ 2 * k \in 1 .. m /\ 2 * k - 1 # 2 * k
    OBVIOUS
  <2> QED
    BY <2>1 DEF IsInjective
<1> HIDE DEF d
<1>5. Tidy(d)
  <2>1. Spread(d)
    <3>1. n \in Nat
      OBVIOUS
    <3> QED
      BY <1>3, <3>1, PairedSpread DEF d
  <2>2. Len(d) = n
    BY <1>3 DEF TwoByTwo, d
  <2> QED
    BY <2>1, <2>2 DEF Spread, Tidy
<1> QED
  BY <1>1, <1>3, <1>4, <1>5 DEF Opening, TwoByTwo, ties, d

(* The stage an edition begins with.                                       *)
FirstStage == IF rules.format = "league" THEN "league"
              ELSE IF rules.format = "cascade" THEN "winners"
              ELSE IF rules.format = "knockout" THEN "knockout" ELSE "groups"

(* The rounds a stage begins with.                                         *)
LEMMA OpeningRounds ==
  ASSUME NEW stage, NEW d, Opening(d, stage), Tidy(d),
         rules.format = "cascade" => InCascade(d),
         stage = "knockout" => \A k \in 1 .. Len(d) : d[k].round = 1
  PROVE  Rounds(d)
<1>1. /\ Len(d) \in Nat \ {0}
      /\ \A k \in 1 .. Len(d) : d[k].stage = stage /\ d[k].winner = NoClub
  BY LenProperties DEF Opening, ToPlay
<1>2. Last(d) = d[Len(d)] /\ Len(d) \in 1 .. Len(d)
  BY <1>1 DEF Last
<1> QED
  BY <1>1, <1>2 DEF Rounds, WonBySides

(* Whatever the format, there is something to play, between two clubs.     *)
LEMMA EditionOpens ==
  ASSUME Enrolled, rules \in EditionType,
         IF rules.format = "league" THEN Len(entries) >= 2 ELSE Len(entries) = rules.capacity,
         NEW groups, Dealt(groups)
  PROVE  /\ Opening(InitialFixtures(groups), FirstStage)
         /\ Rounds(InitialFixtures(groups))
         /\ rules.format = "cascade" => Len(InitialFixtures(groups)) = 2
         /\ rules.format = "groups_knockout" => AllIn(InitialFixtures(groups))
<1>1. CASE rules.format = "league"
  <2>1. InitialFixtures(groups) = LeagueFixtures /\ FirstStage = "league"
    BY <1>1 DEF InitialFixtures, FirstStage
  <2>2. Opening(InitialFixtures(groups), "league") /\ Tidy(InitialFixtures(groups))
    BY <1>1, <2>1, LeagueOpens
  <2>3. Rounds(InitialFixtures(groups))
    BY <1>1, <2>2, OpeningRounds
  <2> QED
    BY <1>1, <2>1, <2>2, <2>3
<1>2. CASE rules.format = "groups_knockout"
  <2>1. InitialFixtures(groups) = GroupFixtures(groups) /\ FirstStage = "groups"
    BY <1>2 DEF InitialFixtures, FirstStage
  <2>2. Full
    BY <1>2 DEF Full
  <2>3. Opening(InitialFixtures(groups), "groups") /\ AllIn(InitialFixtures(groups))
    BY <2>1, <2>2, GroupsOpen
  <2>4. Tidy(InitialFixtures(groups))
    <3> DEFINE d == InitialFixtures(groups)
    <3>1. Len(d) \in Nat /\ \A k \in 1 .. Len(d) : d[k].stage = "groups"
      BY <2>3, LenProperties DEF Opening, ToPlay
    <3> HIDE DEF d
    <3> QED
      BY <3>1 DEF Tidy, SameRound, d
  <2>5. Rounds(InitialFixtures(groups))
    BY <1>2, <2>3, <2>4, OpeningRounds
  <2> QED
    BY <1>2, <2>1, <2>3, <2>5
<1>3. /\ entries \in [1 .. Len(entries) -> Entered] /\ IsInjective(entries) /\ Len(entries) \in Nat
      /\ \A i \in 1 .. Len(entries) : entries[i] \in Entered
  BY Seeds, LenProperties DEF Enrolled
<1>4. CASE rules.format = "cascade"
  <2> DEFINE s == <<entries[1], entries[4], entries[2], entries[3]>>
  <2>1. InitialFixtures(groups) = Paired(Ties("winners", 1, 2), s) /\ FirstStage = "winners"
    BY <1>4 DEF InitialFixtures, FirstStage
  <2>2. Len(entries) = 4
    BY <1>4 DEF EditionType
  <2>3. s \in [1 .. 4 -> Entered]
    BY <1>3, <2>2
  <2>4. IsInjective(s)
    <3>1. /\ entries[1] # entries[2] /\ entries[1] # entries[3] /\ entries[1] # entries[4]
          /\ entries[2] # entries[3] /\ entries[2] # entries[4] /\ entries[3] # entries[4]
      BY <1>3, <2>2 DEF IsInjective
    <3> QED
      BY <3>1 DEF IsInjective
  <2> HIDE DEF s
  <2>5. "winners" \in Stage /\ 2 \in Nat \ {0} /\ 4 \in Nat /\ 2 * 2 <= 4
    BY DEF Stage
  <2> DEFINE d == Paired(Ties("winners", 1, 2), s)
  <2>6. Opening(d, "winners") /\ Len(d) = 2 /\ Tidy(d) /\ \A k \in 1 .. 2 : d[k].round = 1
    BY <2>3, <2>4, <2>5, PairsOpen, Zenon
  <2> HIDE DEF d
  <2>7. InCascade(d)
    BY <2>6 DEF InCascade, CascadeStage, CascadeRound, Opening
  <2>8. Rounds(d)
    BY <2>6, <2>7, OpeningRounds
  <2> QED
    BY <1>4, <2>1, <2>6, <2>8 DEF d
<1>5. CASE rules.format = "knockout"
  <2> DEFINE n == Len(entries) \div 2
             m == Len(entries)
  <2>1. InitialFixtures(groups) = Paired(Ties("knockout", 1, n), entries) /\ FirstStage = "knockout"
    BY <1>5 DEF InitialFixtures, FirstStage
  <2>2. "knockout" \in Stage /\ n \in Nat \ {0} /\ m \in Nat /\ 2 * n <= m
    BY <1>5 DEF EditionType, Stage
  <2> HIDE DEF n, m
  <2>3. entries \in [1 .. m -> Entered] /\ IsInjective(entries)
    BY <1>3 DEF m
  <2> DEFINE d == Paired(Ties("knockout", 1, n), entries)
  <2>4. Opening(d, "knockout") /\ Len(d) = n /\ Tidy(d) /\ \A k \in 1 .. n : d[k].round = 1
    BY <2>2, <2>3, PairsOpen, Zenon
  <2> HIDE DEF d
  <2>5. Rounds(d)
    BY <1>5, <2>4, OpeningRounds
  <2> QED
    BY <1>5, <2>1, <2>4, <2>5 DEF d
<1> QED
  BY <1>1, <1>2, <1>4, <1>5 DEF EditionType, Format

-----------------------------------------------------------------------------
(* The inductive invariant *)

(* What the matches of an edition in progress are: the stage of the last   *)
(* one tells how far it has come.                                          *)
Staged(ms) ==
  /\ Len(ms) > 0
  /\ rules.format = "league" => \A i \in 1 .. Len(ms) : ms[i].stage = "league"
  /\ Last(ms).stage = "groups" => rules.format = "groups_knockout"
  /\ Last(ms).stage \in {"winners", "losers"} => rules.format = "cascade" /\ Len(ms) \in {2, 4, 5}
  /\ Last(ms).stage = "grand_final" =>
       rules.format = "cascade" /\ \A i \in 1 .. Len(ms) - 1 : ms[i].decided
  /\ Last(ms).stage = "knockout" => rules.format = "knockout" \/ ms[1].decided

(* All that is still to be played is between two clubs of S.               *)
Playable(ms, S) ==
  \A i \in 1 .. Len(ms) : ~ms[i].decided =>
    ms[i].home # ms[i].away /\ {ms[i].home, ms[i].away} \subseteq S

Sizes ==
  /\ rules.format # "league" => Len(entries) <= rules.capacity
  /\ status # "registration" /\ rules.format # "league" => Len(entries) = rules.capacity
  /\ Dealt(pool)
  /\ pool # [c \in Club |-> 0] => rules.format = "groups_knockout" /\ Len(entries) = rules.capacity

Underway ==
  /\ status = "registration" => banned = {} /\ matches = <<>>
  /\ status = "in_progress" =>
       /\ Staged(matches) /\ Open(matches) # {} /\ Playable(matches, Eligible)
       /\ rules.format = "groups_knockout" => AllIn(matches)

EditionInv == TypeOK /\ Sizes /\ Underway /\ ChampionIsEligible /\ Rounds(matches)

-----------------------------------------------------------------------------
(* Walkovers *)

(* A match given to the side that is not disqualified, if either is not.   *)
LEMMA WalkoverType ==
  ASSUME NEW m \in MatchType, NEW out
  PROVE  LET w == ByWalkover(m, out)
         IN /\ w \in MatchType /\ w.decided
            /\ w.home = m.home /\ w.away = m.away /\ w.stage = m.stage /\ w.round = m.round
            /\ w.winner \in ({m.home, m.away} \ out) \cup {NoClub}
<1> DEFINE home == IF m.home \in out THEN 0 ELSE 3
           away == IF m.away \in out THEN 0 ELSE 3
           winner == IF home > away THEN m.home ELSE IF away > home THEN m.away ELSE NoClub
           w == ByWalkover(m, out)
<1>1. <<home, away>> \in Nat \X Nat
  OBVIOUS
<1>2. winner \in ({m.home, m.away} \ out) \cup {NoClub}
  OBVIOUS
<1>3. winner \in Club \cup {NoClub}
  BY <1>2 DEF MatchType
<1>4. w = [m EXCEPT !.decided = TRUE, !.score = <<home, away>>, !.winner = winner]
  BY DEF ByWalkover
<1> HIDE DEF home, away, winner, w
<1>5. w \in MatchType
  BY <1>1, <1>3, <1>4 DEF MatchType
<1>6. w.decided /\ w.home = m.home /\ w.away = m.away /\ w.stage = m.stage /\ w.round = m.round
      /\ w.winner = winner
  BY <1>4 DEF MatchType
<1> QED
  BY <1>2, <1>5, <1>6 DEF w

(* The walkovers leave alone what is decided, and nothing to play for the  *)
(* disqualified.                                                           *)
LEMMA WalkoversProperties ==
  ASSUME NEW ms \in Seq(MatchType), NEW out
  PROVE  LET w == WalkoversGiven(ms, out)
         IN /\ w \in Seq(MatchType) /\ Len(w) = Len(ms) /\ Kept(ms, w)
            /\ \A i \in 1 .. Len(ms) :
                 /\ w[i].stage = ms[i].stage
                 /\ out = {} => w[i] = ms[i]
                 /\ ~w[i].decided => w[i] = ms[i] /\ {ms[i].home, ms[i].away} \cap out = {}
                 /\ w[i].decided /\ ~ms[i].decided =>
                      w[i].winner \in ({ms[i].home, ms[i].away} \ out) \cup {NoClub}
<1> DEFINE w == WalkoversGiven(ms, out)
           Met(i) == ~ms[i].decided /\ {ms[i].home, ms[i].away} \cap out # {}
<1>1. /\ ms \in [1 .. Len(ms) -> MatchType] /\ Len(ms) \in Nat /\ DOMAIN ms = 1 .. Len(ms)
  BY LenProperties
<1>2. w = [i \in 1 .. Len(ms) |-> IF Met(i) THEN ByWalkover(ms[i], out) ELSE ms[i]]
  BY <1>1 DEF WalkoversGiven
<1> HIDE DEF w
<1>3. ASSUME NEW i \in 1 .. Len(ms)
      PROVE  /\ w[i] \in MatchType /\ w[i].stage = ms[i].stage
             /\ w[i].home = ms[i].home /\ w[i].away = ms[i].away /\ w[i].round = ms[i].round
             /\ ms[i].decided => w[i] = ms[i]
             /\ out = {} => w[i] = ms[i]
             /\ ~w[i].decided => w[i] = ms[i] /\ {ms[i].home, ms[i].away} \cap out = {}
             /\ w[i].decided /\ ~ms[i].decided =>
                  w[i].winner \in ({ms[i].home, ms[i].away} \ out) \cup {NoClub}
  <2>1. ms[i] \in MatchType
    BY <1>1
  <2>2. CASE Met(i)
    <3>1. w[i] = ByWalkover(ms[i], out)
      BY <1>2, <2>2
    <3> QED
      BY <2>1, <2>2, <3>1, WalkoverType
  <2>3. CASE ~Met(i)
    <3>1. w[i] = ms[i]
      BY <1>2, <2>3
    <3> QED
      BY <2>1, <2>3, <3>1
  <2> QED
    BY <2>2, <2>3
<1>4. w \in Seq(MatchType) /\ Len(w) = Len(ms)
  BY <1>1, <1>2, <1>3
<1> QED
  BY <1>1, <1>3, <1>4 DEF Kept, w

-----------------------------------------------------------------------------
(* Progress *)

(* What an edition that goes on looks like, written so far.                *)
Going(ed) ==
  /\ Written(ed)
  /\ Staged(ed.matches)
  /\ Rounds(ed.matches)
  /\ Playable(ed.matches, StillIn(ed))
  /\ Last(ed.matches).stage = "grand_final" /\ Last(ed.matches).decided =>
       Last(ed.matches).winner \in StillIn(ed) \cup {NoClub}

(* ... and what it has come to.                                            *)
GoneOn(ed) ==
  /\ matches' \in Seq(MatchType) /\ Kept(ed.matches, matches') /\ Rounds(matches')
  /\ \/ /\ status' = "in_progress" /\ champion' = champion
        /\ Staged(matches') /\ Open(matches') # {} /\ Playable(matches', StillIn(ed))
     \/ /\ status' = "finished"
        /\ champion' \in StillIn(ed) \/ (champion' = NoClub /\ rules.format = "cascade")

(* A new round of the knockout is the last one.                            *)
LEMMA NewRoundIsLast ==
  ASSUME NEW old \in Seq(MatchType), Rounds(old), NEW S, NEW d, ToPlay(d, S), NewRound(old, d)
  PROVE  Rounds(old \o d)
<1> DEFINE new == old \o d
<1>1. /\ d \in Seq(MatchType) /\ Len(d) \in Nat /\ Len(d) > 0 /\ Len(old) \in Nat
      /\ \A k \in 1 .. Len(d) : d[k].winner = NoClub
  BY LenProperties DEF ToPlay
<1>2. PICK r \in Nat : /\ \A k \in 1 .. Len(d) : d[k].stage = "knockout" /\ d[k].round = r
                       /\ \A i \in 1 .. Len(old) : old[i].stage = "knockout" => old[i].round < r
  BY DEF NewRound
<1>3. \A i \in 1 .. Len(old) : old[i].round \in Nat
  BY LenProperties, ResultType
<1>4. Tidy(new)
  <2>1. Tidy(d)
    BY <1>1 DEF NewRound, Spread, Tidy
  <2>2. \A i \in 1 .. Len(old), k \in 1 .. Len(d) : ~SameRound(old[i], d[k])
    BY <1>2, <1>3 DEF SameRound
  <2> QED
    BY <1>1, <2>1, <2>2, TidyOn DEF Rounds
<1>5. /\ Len(new) = Len(old) + Len(d) /\ Last(new) = d[Len(d)]
      /\ \A i \in 1 .. Len(old) : new[i] = old[i]
      /\ \A k \in 1 .. Len(d) : new[Len(old) + k] = d[k]
  BY <1>1, Added
<1> HIDE DEF new
<1>6. ASSUME NEW i \in 1 .. Len(new)
      PROVE  i \in 1 .. Len(old) \/ \E k \in 1 .. Len(d) : new[i] = d[k]
  <2>1. i \in 1 .. Len(old) \/ (i - Len(old) \in 1 .. Len(d) /\ Len(old) + (i - Len(old)) = i)
    BY <1>1, <1>5
  <2> QED
    BY <1>5, <2>1
<1>7. WonBySides(new)
  BY <1>1, <1>5, <1>6 DEF WonBySides, Rounds
<1>8. Last(new).stage = "knockout" /\ Last(new).round = r
  BY <1>1, <1>2, <1>5
<1>9. ASSUME NEW i \in 1 .. Len(new), new[i].stage = "knockout"
      PROVE  new[i].round <= r
  <2>1. CASE i \in 1 .. Len(old)
    <3>1. new[i] = old[i] /\ old[i].round \in Nat
      BY <1>3, <1>5, <2>1
    <3>2. old[i].round < r
      BY <1>2, <1>9, <2>1, <3>1
    <3> QED
      BY <3>1, <3>2
  <2>2. CASE \E k \in 1 .. Len(d) : new[i] = d[k]
    <3>1. new[i].round = r
      BY <1>2, <2>2
    <3> QED
      BY <3>1
  <2> QED
    BY <1>6, <2>1, <2>2
<1> QED
  BY <1>4, <1>7, <1>8, <1>9 DEF Rounds, new

(* What comes next has the places of the matches that come next.           *)
LEMMA CascadePlaces ==
  ASSUME NEW n \in Nat, NEW d, NextInCascade(n, d), NEW k \in 1 .. Len(d)
  PROVE  d[k].stage = CascadeStage[n + k] /\ d[k].round = CascadeRound[n + k]
<1>1. /\ CascadeStage[3] = "winners" /\ CascadeStage[4] = "losers"
      /\ CascadeStage[5] = "losers" /\ CascadeStage[6] = "grand_final"
      /\ CascadeRound[3] = 2 /\ CascadeRound[4] = 1 /\ CascadeRound[5] = 2 /\ CascadeRound[6] = 1
  BY DEF CascadeStage, CascadeRound
<1> DEFINE place == n + k
<1>2. CASE /\ n = 2 /\ Len(d) = 2 /\ d[1].stage = "winners" /\ d[1].round = 2
           /\ d[2].stage = "losers" /\ d[2].round = 1
  <2>1. (k = 1 /\ place = 3) \/ (k = 2 /\ place = 4)
    BY <1>2
  <2> HIDE DEF place
  <2>2. d[k].stage = CascadeStage[place] /\ d[k].round = CascadeRound[place]
    BY <1>1, <1>2, <2>1
  <2> QED
    BY <2>2 DEF place
<1>3. CASE n = 4 /\ Len(d) = 1 /\ d[1].stage = "losers" /\ d[1].round = 2
  <2>1. k = 1 /\ place = 5
    BY <1>3
  <2> HIDE DEF place
  <2>2. d[k].stage = CascadeStage[place] /\ d[k].round = CascadeRound[place]
    BY <1>1, <1>3, <2>1
  <2> QED
    BY <2>2 DEF place
<1>4. CASE n = 5 /\ Len(d) = 1 /\ d[1].stage = "grand_final" /\ d[1].round = 1
  <2>1. k = 1 /\ place = 6
    BY <1>4
  <2> HIDE DEF place
  <2>2. d[k].stage = CascadeStage[place] /\ d[k].round = CascadeRound[place]
    BY <1>1, <1>4, <2>1
  <2> QED
    BY <2>2 DEF place
<1> QED
  BY <1>2, <1>3, <1>4 DEF NextInCascade

(* A cascade goes on in its order.                                         *)
LEMMA CascadeRounds ==
  ASSUME NEW old \in Seq(MatchType), Rounds(old), rules.format = "cascade",
         Last(old).stage # "knockout", NEW S, NEW d, ToPlay(d, S), NextInCascade(Len(old), d)
  PROVE  Rounds(old \o d)
<1> DEFINE new == old \o d
           n == Len(old)
           l == Len(d)
<1>1. /\ d \in Seq(MatchType) /\ n \in Nat /\ l \in Nat /\ l > 0 /\ n > 0
      /\ (n = 2 /\ l = 2) \/ (n = 4 /\ l = 1) \/ (n = 5 /\ l = 1)
      /\ \A k \in 1 .. l : d[k].winner = NoClub
  <2>1. d \in Seq(MatchType) /\ \A k \in 1 .. l : d[k].winner = NoClub
    BY DEF ToPlay
  <2>2. n \in Nat /\ l \in Nat
    BY <2>1, LenProperties
  <2>3. (n = 2 /\ l = 2) \/ (n = 4 /\ l = 1) \/ (n = 5 /\ l = 1)
    BY DEF NextInCascade
  <2> HIDE DEF n, l
  <2> QED
    BY <2>1, <2>2, <2>3
<1>2. InCascade(old) /\ Tidy(old) /\ WonBySides(old)
  BY <1>1 DEF Rounds
<1>3. \A k \in 1 .. l : d[k].stage = CascadeStage[n + k] /\ d[k].round = CascadeRound[n + k]
  BY <1>1, CascadePlaces
<1>4. Tidy(new)
  <2>1. Tidy(d)
    BY DEF NextInCascade, Tidy, SameRound
  <2>2. ASSUME NEW i \in 1 .. n, NEW k \in 1 .. Len(d)
        PROVE  ~SameRound(old[i], d[k])
    <3>1. /\ old[i].stage = CascadeStage[i] /\ old[i].round = CascadeRound[i]
          /\ d[k].stage = CascadeStage[n + k] /\ d[k].round = CascadeRound[n + k]
      BY <1>2, <1>3 DEF InCascade
    <3>2. /\ CascadeStage[1] = "winners" /\ CascadeStage[2] = "winners" /\ CascadeStage[3] = "winners"
          /\ CascadeStage[4] = "losers" /\ CascadeStage[5] = "losers" /\ CascadeStage[6] = "grand_final"
          /\ CascadeRound[1] = 1 /\ CascadeRound[2] = 1 /\ CascadeRound[3] = 2
          /\ CascadeRound[4] = 1 /\ CascadeRound[5] = 2 /\ CascadeRound[6] = 1
      BY DEF CascadeStage, CascadeRound
    <3> DEFINE place == n + k
    <3>3. i \in 1 .. place - 1 /\ (place \in {3, 4} => i <= 2) /\ place \in {3, 4, 5, 6}
      <4>1. k \in 1 .. l /\ i \in 1 .. n
        OBVIOUS
      <4> HIDE DEF n, l
      <4> QED
        BY <1>1, <4>1
    <3> HIDE DEF place
    <3>4. CascadeStage[i] # CascadeStage[place] \/ CascadeRound[i] # CascadeRound[place]
      <4>1. CASE place \in {3, 4}
        <5>1. i = 1 \/ i = 2
          BY <3>3, <4>1
        <5> QED
          BY <3>2, <4>1, <5>1
      <4>2. CASE place \in {5, 6}
        <5>1. i = 1 \/ i = 2 \/ i = 3 \/ i = 4 \/ (i = 5 /\ place = 6)
          BY <3>3, <4>2
        <5> QED
          BY <3>2, <4>2, <5>1
      <4> QED
        BY <3>3, <4>1, <4>2
    <3> QED
      BY <3>1, <3>4 DEF SameRound, place
  <2> QED
    BY <1>1, <1>2, <2>1, <2>2, TidyOn
<1>5. /\ Len(new) = n + Len(d) /\ Last(new) = d[Len(d)]
      /\ \A i \in 1 .. n : new[i] = old[i]
      /\ \A k \in 1 .. Len(d) : new[n + k] = d[k]
  BY <1>1, Added
<1> HIDE DEF new
<1>6. ASSUME NEW i \in 1 .. Len(new)
      PROVE  \/ i \in 1 .. n /\ new[i] = old[i]
             \/ \E k \in 1 .. Len(d) : i = n + k /\ new[i] = d[k]
  <2>1. i \in 1 .. n \/ (i - n \in 1 .. Len(d) /\ n + (i - n) = i)
    BY <1>1, <1>5
  <2> HIDE DEF n
  <2> QED
    BY <1>5, <2>1
<1>7. WonBySides(new)
  <2> SUFFICES ASSUME NEW i \in 1 .. Len(new) PROVE new[i].winner \in {new[i].home, new[i].away, NoClub}
    BY DEF WonBySides
  <2> QED
    BY <1>1, <1>2, <1>6 DEF WonBySides
<1>8. InCascade(new)
  <2>1. Len(new) <= 6
    BY <1>1, <1>5
  <2>2. ASSUME NEW i \in 1 .. Len(new)
        PROVE  new[i].stage = CascadeStage[i] /\ new[i].round = CascadeRound[i]
    BY <1>2, <1>3, <1>6 DEF InCascade
  <2> QED
    BY <2>1, <2>2 DEF InCascade
<1>9. ASSUME NEW i \in 1 .. Len(new)
      PROVE  new[i].stage # "knockout"
  <2>1. \A h \in 1 .. 6 : CascadeStage[h] # "knockout"
    BY DEF CascadeStage
  <2>2. i \in 1 .. 6
    BY <1>1, <1>5
  <2> QED
    BY <1>8, <2>1, <2>2 DEF InCascade
<1> QED
  BY <1>4, <1>7, <1>8, <1>9 DEF Rounds, new

(* Results and walkovers leave the rounds as they are.                     *)
LEMMA RoundsStay ==
  ASSUME NEW old \in Seq(MatchType), NEW new \in Seq(MatchType), Rounds(old),
         Kept(old, new), Len(new) = Len(old), WonBySides(new)
  PROVE  Rounds(new)
<1>1. /\ Len(old) \in Nat
      /\ \A i \in 1 .. Len(old) : /\ new[i].home = old[i].home /\ new[i].away = old[i].away
                                  /\ new[i].stage = old[i].stage /\ new[i].round = old[i].round
  BY LenProperties DEF Kept
<1>2. Tidy(new)
  BY <1>1 DEF Tidy, SameRound, Apart, Rounds
<1>3. Len(old) > 0 => Last(new).stage = Last(old).stage /\ Last(new).round = Last(old).round
  BY <1>1 DEF Last
<1>4. InCascade(old) => InCascade(new)
  BY <1>1 DEF InCascade
<1> QED
  BY <1>1, <1>2, <1>3, <1>4 DEF Rounds

(* New matches between clubs still in keep the edition going.              *)
LEMMA AddGoesOn ==
  ASSUME NEW ed, Written(ed), Open(ed.matches) = {}, status = "in_progress",
         NEW d, ToPlay(d, StillIn(ed)), Add(ed.matches, d),
         Staged(ed.matches \o d), Rounds(ed.matches \o d)
  PROVE  GoneOn(ed)
<1> DEFINE ms == ed.matches
           new == ms \o d
<1>1. ms \in Seq(MatchType) /\ d \in Seq(MatchType) /\ Len(d) > 0 /\ Len(d) \in Nat /\ Len(ms) \in Nat
  BY LenProperties DEF Written, ToPlay
<1>2. /\ new \in Seq(MatchType) /\ Len(new) = Len(ms) + Len(d)
      /\ Last(new) = d[Len(d)] /\ Kept(ms, new)
      /\ \A i \in 1 .. Len(ms) : new[i] = ms[i]
      /\ \A k \in 1 .. Len(d) : new[Len(ms) + k] = d[k]
      /\ \A i \in 1 .. Len(new) : i > Len(ms) => i - Len(ms) \in 1 .. Len(d)
  BY <1>1, Added
<1>3. /\ matches' = new /\ status' = status /\ champion' = champion
      /\ \A k \in 1 .. Len(d) : d[k].home # d[k].away
  BY <1>1, LenProperties DEF Add
<1>4. \A i \in 1 .. Len(ms) : ms[i].decided
  BY <1>1, LenProperties DEF Open
<1> HIDE DEF new
<1>5. Playable(new, StillIn(ed))
  <2> SUFFICES ASSUME NEW i \in 1 .. Len(new), ~new[i].decided
               PROVE  new[i].home # new[i].away /\ {new[i].home, new[i].away} \subseteq StillIn(ed)
    BY DEF Playable
  <2>1. ~(i <= Len(ms))
    <3> SUFFICES ASSUME i <= Len(ms) PROVE FALSE
      OBVIOUS
    <3>1. i \in 1 .. Len(ms)
      BY <1>1
    <3> QED
      BY <1>2, <1>4, <3>1
  <2>2. i - Len(ms) \in 1 .. Len(d) /\ new[i] = d[i - Len(ms)]
    <3>1. i - Len(ms) \in 1 .. Len(d) /\ Len(ms) + (i - Len(ms)) = i
      BY <1>1, <1>2, <2>1
    <3> QED
      BY <1>2, <3>1
  <2> QED
    BY <1>3, <2>2 DEF ToPlay
<1>6. Open(new) # {}
  <2>1. Len(ms) + 1 \in 1 .. Len(new) /\ new[Len(ms) + 1] = d[1] /\ ~d[1].decided
    BY <1>1, <1>2 DEF ToPlay
  <2>2. DOMAIN new = 1 .. Len(new)
    BY <1>2, LenProperties
  <2> QED
    BY <2>1, <2>2 DEF Open
<1> QED
  BY <1>2, <1>3, <1>5, <1>6 DEF GoneOn, new

(* The groups of an edition under way: one, two or four.                   *)
LEMMA GroupsOfTheEdition ==
  ASSUME TypeOK, Sizes, status = "in_progress", rules.format = "groups_knockout"
  PROVE  \E K \in {1, 2, 4} : Groups = 1 .. K /\ (Len(entries) = 12 => K = 4)
<1>1. Enrolled /\ Full /\ Dealt(pool)
  BY DEF TypeOK, Enrolled, Sizes, Full
<1> DEFINE K == rules.capacity \div GroupSize
<1>2. Groups = 1 .. K
  BY <1>1, GroupsDealt DEF Groups
<1>3. K \in {1, 2, 4} /\ (Len(entries) = 12 => K = 4)
  <2>1. /\ rules.capacity \in {4, 8, 12, 16} /\ Len(entries) = rules.capacity
        /\ K = IF rules.capacity = 4 THEN 1 ELSE IF rules.capacity = 8 THEN 2 ELSE 4
    BY <1>1, FullSizes
  <2> HIDE DEF K
  <2> QED
    BY <2>1
<1> QED
  BY <1>2, <1>3

(* After the last match of a stage comes the next, or the champion.        *)
LEMMA AfterStageGoesOn ==
  ASSUME TypeOK, Sizes, status = "in_progress", NEW ed, Going(ed),
         Cardinality(StillIn(ed)) > 1, Open(ed.matches) = {},
         AfterStage(ed, Last(ed.matches))
  PROVE  GoneOn(ed)
<1> DEFINE ms == ed.matches
           last == Last(ms)
<1>1. /\ Enrolled /\ Written(ed) /\ ms \in Seq(MatchType) /\ Len(ms) \in Nat \ {0}
      /\ rules \in EditionType
  BY LenProperties DEF TypeOK, Enrolled, Going, Written, Staged
<1>2. \A i \in 1 .. Len(ms) : ms[i].decided
  BY <1>1, LenProperties DEF Open
<1>3. Kept(ms, ms)
  BY <1>1 DEF Kept
<1>4. Cardinality(StillIn(ed)) \in Nat /\ Cardinality(StillIn(ed)) # 0
  BY <1>1, ThoseStillIn
<1>5. rules.format # "league" => Cardinality(StillIn(ed)) \in 2 .. 16
  <2> SUFFICES ASSUME rules.format # "league" PROVE Cardinality(StillIn(ed)) \in 2 .. 16
    OBVIOUS
  <2>1. Len(entries) = rules.capacity /\ rules.capacity \in {4, 8, 12, 16}
    BY <1>1 DEF Sizes, EditionType
  <2>2. Cardinality(StillIn(ed)) <= Len(entries)
    BY <1>1, ThoseStillIn
  <2> QED
    BY <1>4, <2>1, <2>2
<1>6. ASSUME NEW c \in StillIn(ed), Finish(ms, c)
      PROVE  GoneOn(ed)
  BY <1>1, <1>3, <1>6 DEF GoneOn, Finish, Going
<1>7. ASSUME NEW d, rules.format # "league", ToPlay(d, StillIn(ed)), NewRound(ms, d), Add(ms, d)
      PROVE  GoneOn(ed)
  <2>1. d \in Seq(MatchType) /\ Len(d) > 0 /\ Len(d) \in Nat /\ d[Len(d)].stage = "knockout"
    BY <1>7, LenProperties DEF ToPlay, NewRound
  <2>2. Last(ms \o d) = d[Len(d)] /\ Len(ms \o d) = Len(ms) + Len(d)
    BY <1>1, <2>1, Added
  <2>3. Staged(ms \o d)
    <3>1. (ms \o d)[1].decided
      BY <1>1, <1>2, <2>1, Added
    <3> QED
      BY <1>1, <1>7, <2>1, <2>2, <3>1 DEF Staged
  <2>4. Rounds(ms \o d)
    BY <1>1, <1>7, NewRoundIsLast DEF Going
  <2> QED
    BY <1>1, <1>7, <2>3, <2>4, AddGoesOn
<1>8. CASE rules.format = "league" /\ Finish(ms, GeneralTable(ed, Entered)[1])
  <2>1. GeneralTable(ed, Entered)[1] \in StillIn(ed)
    BY <1>1, <1>4, LeagueHasAChampion
  <2> QED
    BY <1>6, <1>8, <2>1
<1>9. CASE last.stage = "grand_final" /\ Finish(ms, last.winner)
  <2>1. last.decided
    BY <1>1, <1>2 DEF Last
  <2>2. last.winner \in StillIn(ed) \cup {NoClub} /\ rules.format = "cascade"
    BY <1>9, <2>1 DEF Going, Staged
  <2> QED
    BY <1>1, <1>3, <1>9, <2>2 DEF GoneOn, Finish, Going
<1>10. CASE last.stage \in {"winners", "losers"} /\ Add(ms, CascadeNext(ed))
  <2> DEFINE d == CascadeNext(ed)
  <2>1. rules.format = "cascade" /\ Len(ms) \in {2, 4, 5}
    BY <1>10 DEF Going, Staged
  <2>2. ToPlay(d, StillIn(ed)) /\ (NewRound(ms, d) \/ NextInCascade(Len(ms), d))
    BY <1>1, <1>5, <2>1, CascadeGoesOn
  <2> HIDE DEF d
  <2>3. CASE NewRound(ms, d)
    BY <1>7, <1>10, <2>1, <2>2, <2>3 DEF d
  <2>4. CASE NextInCascade(Len(ms), d)
    <3>1. d \in Seq(MatchType) /\ Len(d) > 0
      BY <2>2 DEF ToPlay
    <3>2. /\ Last(ms \o d) = d[Len(d)] /\ Len(ms \o d) = Len(ms) + Len(d)
          /\ \A i \in 1 .. Len(ms) : (ms \o d)[i] = ms[i]
      BY <1>1, <3>1, Added
    <3>3. Staged(ms \o d)
      <4>1. CASE Len(ms) = 2 /\ Len(d) = 2 /\ d[2].stage = "losers"
        BY <2>1, <3>2, <4>1 DEF Staged
      <4>2. CASE Len(ms) = 4 /\ Len(d) = 1 /\ d[1].stage = "losers"
        BY <2>1, <3>2, <4>2 DEF Staged
      <4>3. CASE Len(ms) = 5 /\ Len(d) = 1 /\ d[1].stage = "grand_final"
        BY <1>2, <2>1, <3>2, <4>3 DEF Staged
      <4> QED
        BY <2>4, <4>1, <4>2, <4>3 DEF NextInCascade
    <3>4. Rounds(ms \o d)
      BY <1>1, <1>10, <2>1, <2>2, <2>4, CascadeRounds DEF Going
    <3> QED
      BY <1>1, <1>10, <2>2, <3>3, <3>4, AddGoesOn DEF d
  <2> QED
    BY <2>2, <2>3, <2>4
<1>11. CASE last.stage = "groups" /\ Add(ms, FromGroups(ed))
  <2>1. rules.format = "groups_knockout"
    BY <1>11 DEF Going, Staged
  <2>2. PICK K \in {1, 2, 4} : Groups = 1 .. K /\ (Len(entries) = 12 => K = 4)
    BY <1>1, <2>1, GroupsOfTheEdition
  <2>3. ToPlay(FromGroups(ed), StillIn(ed)) /\ NewRound(ms, FromGroups(ed))
    <3>1. \A i \in 1 .. Len(ms) : ms[i].stage # "knockout"
      BY <1>11 DEF Going, Rounds
    <3> QED
      BY <1>1, <1>5, <2>1, <2>2, <3>1, GroupsGoOn
  <2> QED
    BY <1>7, <1>11, <2>1, <2>3
<1>12. CASE /\ last.stage = "knockout" /\ Len(Winners(ms)) = 1
            /\ Finish(ms, KnockoutChampion(ed))
  <2>1. KnockoutChampion(ed) \in StillIn(ed)
    BY <1>1, <1>4, KnockoutHasAChampion
  <2> QED
    BY <1>6, <1>12, <2>1
<1>13. CASE /\ last.stage = "knockout" /\ Len(Winners(ms)) # 1
            /\ Add(ms, FromKnockout(ed))
  <2>1. rules.format # "league"
    BY <1>1, <1>13 DEF Going, Staged, Last
  <2>2. ToPlay(FromKnockout(ed), StillIn(ed)) /\ NewRound(ms, FromKnockout(ed))
    BY <1>1, <1>5, <1>13, <2>1, KnockoutGoesOn DEF Going
  <2> QED
    BY <1>7, <1>13, <2>1, <2>2
<1> QED
  BY <1>8, <1>9, <1>10, <1>11, <1>12, <1>13 DEF AfterStage

(* progress_championship keeps an edition going until it has a champion.   *)
LEMMA OnwardGoesOn ==
  ASSUME TypeOK, Sizes, status = "in_progress", NEW ed, Going(ed), Onward(ed)
  PROVE  GoneOn(ed)
<1> DEFINE ms == ed.matches
<1>1. ms \in Seq(MatchType) /\ Kept(ms, ms) /\ Rounds(ms)
  <2>1. ms \in Seq(MatchType) /\ Len(ms) \in Nat
    BY LenProperties DEF Going, Written
  <2> QED
    BY <2>1 DEF Kept, Going
<1>2. CASE \E c \in Club : StillIn(ed) = {c} /\ Finish(ms, c)
  BY <1>1, <1>2 DEF GoneOn, Finish
<1>3. CASE Open(ms) # {} /\ matches' = ms /\ UNCHANGED <<status, champion>>
  BY <1>1, <1>3 DEF GoneOn, Going
<1>4. CASE Cardinality(StillIn(ed)) > 1 /\ Open(ms) = {} /\ AfterStage(ed, Last(ms))
  BY <1>4, AfterStageGoesOn
<1> QED
  BY <1>2, <1>3, <1>4 DEF Onward

-----------------------------------------------------------------------------
(* Steps *)

(* Keeping is transitive.                                                  *)
LEMMA KeptOn ==
  ASSUME NEW a \in Seq(MatchType), NEW b \in Seq(MatchType), NEW c \in Seq(MatchType),
         Kept(a, b), Kept(b, c)
  PROVE  Kept(a, c)
<1>1. Len(a) \in Nat /\ Len(b) \in Nat /\ Len(c) \in Nat
  BY LenProperties
<1> QED
  BY <1>1 DEF Kept

(* A match has the winner it may have: none only in a table.               *)
Resulted(m) ==
  m.winner \in {m.home, m.away} \/ (m.winner = NoClub /\ m.stage \in {"groups", "league"})

(* What a handler may have written before it makes progress: results of    *)
(* some matches, or punishments.                                           *)
Recorded(ms, out) ==
  /\ ms \in Seq(MatchType) /\ Kept(matches, ms) /\ Len(ms) = Len(matches)
  /\ \A i \in 1 .. Len(ms) :
       /\ ms[i].stage = matches[i].stage
       /\ ~ms[i].decided => ms[i] = matches[i]
       /\ ms[i].decided /\ ~matches[i].decided => out = banned /\ Resulted(ms[i])
  /\ out \in SUBSET Entered

(* progress_championship goes on from ed, with the results, the walkovers  *)
(* and the punishments of this step.                                       *)
GoesOnFrom(ed) ==
  /\ status = "in_progress"
  /\ Going(ed) /\ Onward(ed)
  /\ Kept(matches, ed.matches) /\ Len(ed.matches) = Len(matches)
  /\ banned' = {} => \A i \in 1 .. Len(matches) :
       ed.matches[i].decided /\ ~matches[i].decided => Resulted(ed.matches[i])
  /\ ed.banned = banned' /\ ed.deducted = deducted' /\ StillIn(ed) = Entered \ banned'
  /\ banned' \in SUBSET Entered /\ deducted' \in [Club -> 0 .. MaxDeducted]
  /\ UNCHANGED <<rules, entries, pool>>

(* So it does from what the handlers write.                                *)
LEMMA HandlersGoOn ==
  ASSUME EditionInv, status = "in_progress", NEW ms, NEW out, Recorded(ms, out),
         NEW taken \in [Club -> 0 .. MaxDeducted], Progress(ms, out, taken),
         UNCHANGED <<rules, entries, pool>>, banned' = out, deducted' = taken
  PROVE  \E ed : GoesOnFrom(ed)
<1> DEFINE w == WalkoversGiven(ms, out)
           ed == [matches |-> w, banned |-> out, deducted |-> taken]
<1>1. /\ TypeOK /\ Sizes /\ Enrolled /\ ms \in Seq(MatchType) /\ Kept(matches, ms)
      /\ Staged(matches) /\ Open(matches) # {} /\ Playable(matches, Eligible)
      /\ matches \in Seq(MatchType) /\ Len(ms) = Len(matches) /\ Len(ms) \in Nat \ {0}
  BY LenProperties DEF EditionInv, Underway, TypeOK, Enrolled, Recorded, Staged
<1>2. /\ w \in Seq(MatchType) /\ Len(w) = Len(ms) /\ Kept(ms, w)
      /\ \A i \in 1 .. Len(ms) :
           /\ w[i].stage = ms[i].stage
           /\ out = {} => w[i] = ms[i]
           /\ ~w[i].decided => w[i] = ms[i] /\ {ms[i].home, ms[i].away} \cap out = {}
           /\ w[i].decided /\ ~ms[i].decided =>
                w[i].winner \in ({ms[i].home, ms[i].away} \ out) \cup {NoClub}
  BY <1>1, WalkoversProperties
<1> HIDE DEF w
<1>3. Onward(ed)
  BY DEF Progress, w
<1>4. ed.matches = w /\ ed.banned = out /\ ed.deducted = taken /\ StillIn(ed) = Entered \ out
  BY DEF StillIn
<1>5. Written(ed)
  <2>1. taken \in [Club -> Nat]
    BY NumbersAssumption
  <2> QED
    BY <1>2, <1>4, <2>1 DEF Written, Recorded
<1>6. Playable(w, StillIn(ed))
  <2> SUFFICES ASSUME NEW i \in 1 .. Len(w), ~w[i].decided
               PROVE  w[i].home # w[i].away /\ {w[i].home, w[i].away} \subseteq StillIn(ed)
    BY DEF Playable
  <2>1. i \in 1 .. Len(matches) /\ w[i] = ms[i] /\ {ms[i].home, ms[i].away} \cap out = {}
    BY <1>1, <1>2
  <2>2. ms[i] = matches[i] /\ ~matches[i].decided
    BY <1>1, <2>1 DEF Recorded
  <2>3. ms[i].home # ms[i].away /\ {ms[i].home, ms[i].away} \subseteq Entered
    BY <1>1, <2>1, <2>2 DEF Playable, Eligible
  <2> QED
    BY <1>4, <2>1, <2>3
<1>7. Last(w).stage = Last(matches).stage /\ Len(w) = Len(matches)
  BY <1>1, <1>2 DEF Last, Recorded
<1>8. Staged(w)
  <2>1. /\ \A i \in 1 .. Len(w) : matches[i].decided => w[i].decided
        /\ \A i \in 1 .. Len(w) : w[i].stage = matches[i].stage
        /\ 1 \in 1 .. Len(w) /\ \A i \in 1 .. Len(w) - 1 : i \in 1 .. Len(w)
    BY <1>1, <1>2 DEF Kept, Recorded
  <2> QED
    BY <1>1, <1>7, <2>1 DEF Staged
<1>9. ASSUME Last(w).stage = "grand_final", Last(w).decided
      PROVE  Last(w).winner \in StillIn(ed) \cup {NoClub}
  <2> DEFINE n == Len(matches)
  <2>1. n \in 1 .. n /\ Last(w) = w[n] /\ Last(w).stage = w[n].stage
    BY <1>1, <1>2 DEF Last
  <2>2. ~matches[n].decided
    <3>1. PICK i \in 1 .. n : ~matches[i].decided
      BY <1>1, LenProperties DEF Open
    <3>2. \A j \in 1 .. n - 1 : matches[j].decided
      BY <1>1, <1>7, <1>9 DEF Staged
    <3>3. i = n
      BY <1>1, <3>1, <3>2
    <3> QED
      BY <3>1, <3>3
  <2>3. {matches[n].home, matches[n].away} \subseteq Eligible
    BY <1>1, <2>1, <2>2 DEF Playable
  <2>4. ms[n].home = matches[n].home /\ ms[n].away = matches[n].away
    BY <1>1, <2>1 DEF Kept
  <2>5. CASE ms[n].decided
    <3>1. out = banned /\ ms[n].winner \in {ms[n].home, ms[n].away, NoClub} /\ w[n] = ms[n]
      BY <1>1, <1>2, <2>1, <2>2, <2>5 DEF Recorded, Resulted, Kept
    <3> QED
      BY <1>4, <2>1, <2>3, <2>4, <3>1 DEF Eligible
  <2>6. CASE ~ms[n].decided
    <3>1. w[n].winner \in ({ms[n].home, ms[n].away} \ out) \cup {NoClub}
      BY <1>1, <1>2, <1>9, <2>1, <2>6
    <3> QED
      BY <1>4, <2>1, <2>3, <2>4, <3>1 DEF Eligible
  <2> QED
    BY <2>5, <2>6
<1>10. Rounds(w)
  <2>1. WonBySides(w)
    <3> SUFFICES ASSUME NEW i \in 1 .. Len(w) PROVE w[i].winner \in {w[i].home, w[i].away, NoClub}
      BY DEF WonBySides
    <3>1. i \in 1 .. Len(matches) /\ i \in 1 .. Len(ms)
      BY <1>1, <1>2
    <3>2. matches[i].winner \in {matches[i].home, matches[i].away, NoClub}
      BY <3>1 DEF EditionInv, Rounds, WonBySides
    <3>3. ms[i].winner \in {ms[i].home, ms[i].away, NoClub}
      BY <1>1, <3>1, <3>2 DEF Recorded, Resulted, Kept
    <3>4. w[i].home = ms[i].home /\ w[i].away = ms[i].away /\ (ms[i].decided => w[i] = ms[i])
      BY <1>2, <3>1 DEF Kept
    <3> QED
      BY <1>2, <3>1, <3>3, <3>4
  <2>2. Kept(matches, w) /\ Len(w) = Len(matches)
    BY <1>1, <1>2, KeptOn
  <2> QED
    BY <1>1, <1>2, <2>1, <2>2, RoundsStay DEF EditionInv
<1>11. Going(ed)
  BY <1>4, <1>5, <1>6, <1>8, <1>9, <1>10 DEF Going
<1>12. Kept(matches, w) /\ Len(w) = Len(matches)
  BY <1>1, <1>2, KeptOn
<1>13. banned' = {} => \A i \in 1 .. Len(matches) : w[i].decided /\ ~matches[i].decided => Resulted(w[i])
  BY <1>1, <1>2 DEF Recorded
<1>14. GoesOnFrom(ed)
  BY <1>3, <1>4, <1>11, <1>12, <1>13 DEF GoesOnFrom, Recorded
<1> QED
  BY <1>14

(* What a result or a punishment leads to.                                 *)
LEMMA ProgressStep ==
  ASSUME EditionInv, NEW ed, GoesOnFrom(ed)
  PROVE  EditionInv' /\ Kept(matches, matches')
<1>1. /\ TypeOK /\ Sizes /\ Enrolled /\ matches \in Seq(MatchType) /\ ed.matches \in Seq(MatchType)
      /\ status = "in_progress" /\ Kept(matches, ed.matches)
      /\ banned' \in SUBSET Entered /\ deducted' \in [Club -> 0 .. MaxDeducted]
      /\ UNCHANGED <<rules, entries, pool>>
  BY DEF EditionInv, TypeOK, Enrolled, GoesOnFrom, Going, Written
<1>2. GoneOn(ed)
  BY <1>1, OnwardGoesOn DEF GoesOnFrom
<1>3. Kept(matches, matches')
  BY <1>1, <1>2, KeptOn DEF GoneOn
<1>4. Entered' = Entered /\ Eligible' = StillIn(ed)
  BY DEF GoesOnFrom, Entered, Eligible
<1>5. TypeOK'
  BY <1>1, <1>2, <1>4, ThoseStillIn DEF TypeOK, GoneOn
<1>6. Sizes'
  <2>1. GroupSize' = GroupSize /\ Dealt(pool)'
    BY <1>1, <1>4 DEF Sizes, Dealt, GroupSize
  <2> QED
    BY <1>1, <2>1 DEF Sizes
<1>7. rules'.format = "groups_knockout" => AllIn(matches)'
  <2>1. rules.format = "groups_knockout" => AllIn(matches)
    BY <1>1 DEF EditionInv, Underway
  <2>2. Len(matches) \in Nat /\ Len(matches') \in Nat /\ Len(matches) <= Len(matches')
    BY <1>1, <1>2, <1>3, LenProperties DEF GoneOn, Kept
  <2> QED
    BY <1>1, <1>3, <1>4, <2>1, <2>2 DEF AllIn, Kept
<1>8. Rounds(matches)'
  BY <1>1, <1>2 DEF GoneOn, Rounds
<1>9. Underway' /\ ChampionIsEligible'
  BY <1>1, <1>2, <1>4, <1>7 DEF GoneOn, Underway, ChampionIsEligible, Staged, Playable, Open, AllIn
<1> QED
  BY <1>3, <1>5, <1>6, <1>8, <1>9 DEF EditionInv

(* The rounds stay when neither the matches nor the rules change.          *)
LEMMA RoundsUnchanged ==
  ASSUME Rounds(matches), UNCHANGED <<rules, matches>>
  PROVE  Rounds(matches)'
BY DEF Rounds

(* One more club at the end of the entries.                                *)
LEMMA RegisterStep ==
  ASSUME EditionInv, NEW c \in Club, Register(c)
  PROVE  EditionInv'
<1>1. /\ TypeOK /\ Sizes /\ Rounds(matches)
      /\ entries \in Seq(Club) /\ Len(entries) \in Nat /\ c \notin Entered
      /\ \A i \in 1 .. Len(entries) : entries[i] \in Entered
      /\ banned = {} /\ matches = <<>> /\ status = "registration"
  BY Seeds DEF EditionInv, TypeOK, Enrolled, Register, Underway
<1>2. /\ entries' = Append(entries, c) /\ entries' \in Seq(Club) /\ Len(entries') = Len(entries) + 1
      /\ \A i \in 1 .. Len(entries) : entries'[i] = entries[i]
      /\ entries'[Len(entries) + 1] = c
  BY <1>1, AppendProperties DEF Register
<1>3. IsInjective(entries')
  <2>1. DOMAIN entries' = 1 .. Len(entries) + 1 /\ DOMAIN entries = 1 .. Len(entries)
    BY <1>1, <1>2, LenProperties
  <2> SUFFICES ASSUME NEW i \in 1 .. Len(entries) + 1, NEW j \in 1 .. Len(entries) + 1,
                      entries'[i] = entries'[j]
               PROVE  i = j
    BY <2>1 DEF IsInjective
  <2>2. \A k \in 1 .. Len(entries) + 1 : k \in 1 .. Len(entries) \/ k = Len(entries) + 1
    BY <1>1
  <2>3. \A k \in 1 .. Len(entries) : entries'[k] # c
    BY <1>1, <1>2
  <2>4. \A k, l \in 1 .. Len(entries) : entries[k] = entries[l] => k = l
    BY <1>1, <2>1 DEF TypeOK, IsInjective
  <2> QED
    BY <1>2, <2>2, <2>3, <2>4
<1>4. pool = [d \in Club |-> 0]
  BY <1>1 DEF Sizes, Register
<1>5. TypeOK'
  BY <1>1, <1>2, <1>3 DEF TypeOK, Register
<1>6. Sizes'
  BY <1>1, <1>2, <1>4 DEF Sizes, Register, Dealt, TypeOK, EditionType
<1>7. Underway' /\ ChampionIsEligible'
  BY <1>1 DEF Underway, ChampionIsEligible, Register
<1>8. Rounds(matches)'
  BY <1>1, RoundsUnchanged DEF Register
<1> QED
  BY <1>5, <1>6, <1>7, <1>8 DEF EditionInv

(* A sequence without one of its elements.                                 *)
LEMMA RemoveAtProperties ==
  ASSUME NEW S, NEW s \in Seq(S), NEW k \in 1 .. Len(s)
  PROVE  /\ RemoveAt(s, k) \in Seq(S) /\ Len(RemoveAt(s, k)) = Len(s) - 1
         /\ \A i \in 1 .. Len(s) - 1 : RemoveAt(s, k)[i] = s[IF i < k THEN i ELSE i + 1]
<1> DEFINE a == SubSeq(s, 1, k - 1)
           b == SubSeq(s, k + 1, Len(s))
<1>1. Len(s) \in Nat
  BY LenProperties
<1>2. a \in Seq(S) /\ Len(a) = k - 1 /\ \A i \in 1 .. k - 1 : a[i] = s[i]
  BY <1>1, SubSeqProperties
<1>3. b \in Seq(S) /\ Len(b) = Len(s) - k /\ \A i \in 1 .. Len(s) - k : b[i] = s[k + i]
  BY <1>1, SubSeqProperties
<1>4. RemoveAt(s, k) = a \o b
  BY DEF RemoveAt
<1> HIDE DEF a, b
<1>5. /\ a \o b \in Seq(S) /\ Len(a \o b) = Len(s) - 1
      /\ \A i \in 1 .. Len(s) - 1 : (a \o b)[i] = IF i <= k - 1 THEN a[i] ELSE b[i - (k - 1)]
  <2>1. /\ a \o b \in Seq(S) /\ Len(a \o b) = Len(a) + Len(b)
        /\ \A i \in 1 .. Len(a) + Len(b) :
             (a \o b)[i] = IF i <= Len(a) THEN a[i] ELSE b[i - Len(a)]
    BY <1>2, <1>3, ConcatProperties
  <2>2. Len(a) = k - 1 /\ Len(a) + Len(b) = Len(s) - 1
    BY <1>1, <1>2, <1>3
  <2> QED
    BY <2>1, <2>2
<1>6. ASSUME NEW i \in 1 .. Len(s) - 1
      PROVE  (a \o b)[i] = s[IF i < k THEN i ELSE i + 1]
  <2>1. CASE i < k
    BY <1>1, <1>2, <1>5, <2>1
  <2>2. CASE ~(i < k)
    <3>1. i - (k - 1) \in 1 .. Len(s) - k /\ k + (i - (k - 1)) = i + 1
      BY <1>1, <2>2
    <3> QED
      BY <1>1, <1>3, <1>5, <2>2, <3>1
  <2> QED
    BY <2>1, <2>2
<1> QED
  BY <1>4, <1>5, <1>6

(* A club leaves, and with it the groups.                                  *)
LEMMA WithdrawStep ==
  ASSUME EditionInv, NEW c \in Club, Withdraw(c)
  PROVE  EditionInv'
<1> DEFINE n == Len(entries)
           k == Seed(c)
<1>1. /\ TypeOK /\ Sizes /\ Rounds(matches) /\ entries \in Seq(Club) /\ n \in Nat /\ k \in 1 .. n
      /\ banned = {} /\ matches = <<>> /\ status = "registration"
  BY Seeds DEF EditionInv, TypeOK, Enrolled, Withdraw, Underway
<1>2. entries' = RemoveAt(entries, k) /\ pool' = [d \in Club |-> 0]
  BY DEF Withdraw
<1> HIDE DEF k
<1>3. /\ entries' \in Seq(Club) /\ Len(entries') = n - 1
      /\ \A i \in 1 .. n - 1 : entries'[i] = entries[IF i < k THEN i ELSE i + 1]
  BY <1>1, <1>2, RemoveAtProperties
<1>4. IsInjective(entries')
  <2>1. DOMAIN entries' = 1 .. n - 1 /\ DOMAIN entries = 1 .. n
    BY <1>1, <1>3, LenProperties
  <2>2. \A i, j \in 1 .. n : entries[i] = entries[j] => i = j
    BY <1>1, <2>1 DEF TypeOK, IsInjective
  <2> SUFFICES ASSUME NEW i \in 1 .. n - 1, NEW j \in 1 .. n - 1, entries'[i] = entries'[j]
               PROVE  i = j
    BY <2>1 DEF IsInjective
  <2>3. PICK a \in 1 .. n : a = (IF i < k THEN i ELSE i + 1)
    BY <1>1
  <2>4. PICK b \in 1 .. n : b = (IF j < k THEN j ELSE j + 1)
    BY <1>1
  <2>5. entries'[i] = entries[a] /\ entries'[j] = entries[b]
    BY <1>3, <2>3, <2>4
  <2>6. a = b
    BY <2>2, <2>5
  <2> QED
    BY <1>1, <2>3, <2>4, <2>6
<1>5. TypeOK'
  BY <1>1, <1>2, <1>3, <1>4 DEF TypeOK, Withdraw
<1>6. Sizes'
  BY <1>1, <1>2, <1>3 DEF Sizes, Withdraw, Dealt, TypeOK, EditionType
<1>7. Underway' /\ ChampionIsEligible'
  BY <1>1 DEF Underway, ChampionIsEligible, Withdraw
<1>8. Rounds(matches)'
  BY <1>1, RoundsUnchanged DEF Withdraw
<1> QED
  BY <1>5, <1>6, <1>7, <1>8 DEF EditionInv

(* The first fixtures are all to be played, between clubs of the edition.  *)
LEMMA OpeningIsStaged ==
  ASSUME TypeOK, NEW d, Opening(d, FirstStage),
         rules.format = "cascade" => Len(d) = 2
  PROVE  d \in Seq(MatchType) /\ Staged(d) /\ Open(d) # {} /\ Playable(d, Entered)
<1>1. /\ d \in Seq(MatchType) /\ Len(d) \in Nat \ {0} /\ DOMAIN d = 1 .. Len(d)
      /\ \A k \in 1 .. Len(d) : /\ ~d[k].decided /\ d[k].home # d[k].away /\ d[k].stage = FirstStage
                                /\ {d[k].home, d[k].away} \subseteq Entered
  BY LenProperties DEF Opening, ToPlay
<1>2. Open(d) # {}
  BY <1>1 DEF Open
<1>3. Last(d).stage = FirstStage
  BY <1>1 DEF Last
<1>4. Staged(d)
  BY <1>1, <1>3 DEF Staged, FirstStage, TypeOK, EditionType, Format
<1> QED
  BY <1>1, <1>2, <1>4 DEF Playable

(* Groups dealt out anew.                                                  *)
LEMMA AssignGroupsStep ==
  ASSUME EditionInv, AssignGroups
  PROVE  /\ EditionInv' /\ NothingOnRecord
         /\ status = "in_progress" => Opening(matches', FirstStage)
<1>1. /\ TypeOK /\ Sizes /\ Rounds(matches) /\ Enrolled /\ Full /\ rules.format = "groups_knockout"
      /\ NothingOnRecord /\ status # "finished" /\ Len(entries) = rules.capacity
      /\ UNCHANGED <<rules, status, entries, banned, deducted, champion>>
  BY DEF EditionInv, TypeOK, Enrolled, AssignGroups, Full
<1>2. PICK groups \in Groupings : pool' = Pools(groups) /\ matches' = Redrawn(groups)
  BY DEF AssignGroups
<1> DEFINE last == rules.capacity \div GroupSize
           p == Pools(groups)
<1>3. last \in 1 .. 4 /\ Entered \in SUBSET Club
  BY <1>1, FullSizes, Seeds
<1>4. /\ groups \in [Entered -> 1 .. last]
      /\ \A g \in 1 .. last : Cardinality({c \in Entered : groups[c] = g}) = GroupSize
  BY DEF Groupings
<1> HIDE DEF last
<1>5. p \in [Club -> 0 .. 4] /\ \A c \in Entered : p[c] = groups[c]
  BY <1>3, <1>4 DEF Pools
<1> HIDE DEF p
<1>6. Dealt(p)
  <2>1. \A c \in Entered : p[c] \in 1 .. last
    BY <1>4, <1>5
  <2>2. \A g \in 1 .. last : {c \in Entered : p[c] = g} = {c \in Entered : groups[c] = g}
    BY <1>5
  <2> QED
    BY <1>4, <1>5, <2>1, <2>2 DEF Dealt, last
<1>7. Entered' = Entered /\ Eligible' = Eligible /\ pool' = p /\ GroupSize' = GroupSize
  BY <1>1, <1>2 DEF Entered, Eligible, p, GroupSize
<1>8. Sizes'
  <2>1. Dealt(pool)'
    BY <1>1, <1>6, <1>7 DEF Dealt
  <2> QED
    BY <1>1, <2>1 DEF Sizes
<1>9. CASE status = "registration"
  <2>1. matches' = matches
    BY <1>2, <1>9 DEF Redrawn
  <2>2. Rounds(matches)'
    BY <1>1, <2>1, RoundsUnchanged
  <2> QED
    BY <1>1, <1>5, <1>7, <1>8, <1>9, <2>1, <2>2 DEF EditionInv, TypeOK, Underway, ChampionIsEligible
<1>10. CASE status = "in_progress"
  <2> DEFINE d == InitialFixtures(p)
  <2>1. matches' = d
    BY <1>2, <1>10 DEF Redrawn, p
  <2>2. /\ Opening(d, FirstStage) /\ AllIn(d) /\ Rounds(d)
        /\ rules.format = "cascade" => Len(d) = 2
    BY <1>1, <1>6, EditionOpens DEF Full
  <2> HIDE DEF d
  <2>3. d \in Seq(MatchType) /\ Staged(d) /\ Open(d) # {} /\ Playable(d, Entered)
    BY <1>1, <2>2, OpeningIsStaged
  <2>4. Eligible = Entered
    <3>1. AllIn(matches) /\ Playable(matches, Eligible) /\ DOMAIN matches = 1 .. Len(matches)
      BY <1>1, <1>10, LenProperties DEF EditionInv, Underway, TypeOK
    <3>2. \A c \in Entered : c \in Eligible
      BY <1>1, <3>1 DEF AllIn, Playable, NothingOnRecord
    <3> QED
      BY <3>2 DEF Eligible
  <2>5. TypeOK'
    BY <1>1, <1>5, <1>7, <2>1, <2>3 DEF TypeOK
  <2>6. Staged(matches)' /\ (Open(matches) # {})' /\ Playable(matches, Eligible)' /\ AllIn(matches)'
    BY <1>1, <1>7, <2>1, <2>2, <2>3, <2>4 DEF Staged, Open, Playable, AllIn
  <2>7. Underway' /\ ChampionIsEligible'
    BY <1>1, <1>10, <2>6 DEF Underway, ChampionIsEligible
  <2>8. Rounds(matches)'
    BY <1>1, <2>1, <2>2 DEF Rounds
  <2> QED
    BY <1>1, <1>8, <1>10, <2>1, <2>2, <2>5, <2>7, <2>8 DEF EditionInv
<1> QED
  BY <1>1, <1>9, <1>10 DEF TypeOK

(* The edition begins.                                                     *)
LEMMA StartStep ==
  ASSUME EditionInv, Start
  PROVE  EditionInv'
<1> DEFINE d == InitialFixtures(pool)
<1>1. /\ TypeOK /\ Sizes /\ Enrolled /\ Dealt(pool) /\ banned = {} /\ Len(entries) \in Nat
      /\ rules \in EditionType
  BY Seeds DEF EditionInv, TypeOK, Enrolled, Sizes, Underway, Start
<1>2. /\ IF rules.format = "league" THEN Len(entries) >= 2 ELSE Len(entries) = rules.capacity
      /\ rules' = [rules EXCEPT !.capacity = Len(entries)]
      /\ matches' = d /\ status' = "in_progress"
      /\ UNCHANGED <<entries, pool, banned, deducted, champion>>
  BY DEF Start
<1>3. /\ Opening(d, FirstStage) /\ Rounds(d)
      /\ rules.format = "cascade" => Len(d) = 2
      /\ rules.format = "groups_knockout" => AllIn(d)
  BY <1>1, <1>2, EditionOpens
<1> HIDE DEF d
<1>4. d \in Seq(MatchType) /\ Staged(d) /\ Open(d) # {} /\ Playable(d, Entered)
  BY <1>1, <1>3, OpeningIsStaged
<1>5. /\ rules' \in EditionType /\ rules'.format = rules.format
      /\ rules.format # "league" => rules' = rules
      /\ rules'.capacity = Len(entries)
  BY <1>1, <1>2 DEF EditionType
<1>6. Entered' = Entered /\ Eligible' = Entered
  BY <1>1, <1>2 DEF Entered, Eligible
<1>7. TypeOK'
  BY <1>1, <1>2, <1>4, <1>5, <1>6 DEF TypeOK
<1>8. Sizes'
  <2>1. CASE rules.format = "league"
    BY <1>1, <1>2, <1>5, <2>1 DEF Sizes, Dealt
  <2>2. CASE rules.format # "league"
    <3>1. rules' = rules
      BY <1>5, <2>2
    <3>2. GroupSize' = GroupSize
      BY <3>1 DEF GroupSize
    <3>3. Dealt(pool)'
      <4>1. pool' = pool /\ Entered' = Entered /\ Dealt(pool)
        BY <1>1, <1>2, <1>6
      <4> QED
        BY <3>1, <3>2, <4>1 DEF Dealt
    <3> QED
      BY <1>1, <1>2, <2>2, <3>1, <3>3 DEF Sizes
  <2> QED
    BY <2>1, <2>2
<1>9. Staged(matches)' /\ (Open(matches) # {})' /\ Playable(matches, Eligible)'
  BY <1>2, <1>4, <1>5, <1>6 DEF Staged, Open, Playable
<1>10. rules'.format = "groups_knockout" => AllIn(matches)'
  BY <1>2, <1>3, <1>5, <1>6 DEF AllIn
<1>11. Underway' /\ ChampionIsEligible'
  BY <1>2, <1>9, <1>10 DEF Underway, ChampionIsEligible
<1>12. Rounds(matches)'
  BY <1>2, <1>3, <1>5 DEF Rounds
<1> QED
  BY <1>7, <1>8, <1>11, <1>12 DEF EditionInv

(* A goalkeeper is named, or a match begins.                               *)
LEMMA MarkStep ==
  ASSUME EditionInv, NEW i \in DOMAIN matches, SetGoalkeepers(i) \/ KickoffMatch(i)
  PROVE  /\ EditionInv' /\ Kept(matches, matches') /\ Len(matches') = Len(matches)
         /\ \A j \in 1 .. Len(matches) : matches'[j].decided = matches[j].decided
         /\ UNCHANGED <<rules, status, entries, banned>>
<1> DEFINE n == Len(matches)
<1>1. /\ TypeOK /\ Sizes /\ Rounds(matches) /\ matches \in Seq(MatchType) /\ n \in Nat /\ i \in 1 .. n
      /\ matches \in [1 .. n -> MatchType]
      /\ status = "in_progress" /\ ~matches[i].decided
      /\ Staged(matches) /\ Open(matches) # {} /\ Playable(matches, Eligible)
      /\ rules.format = "groups_knockout" => AllIn(matches)
      /\ UNCHANGED <<rules, status, entries, pool, banned, deducted, champion>>
  BY LenProperties DEF EditionInv, TypeOK, Underway, SetGoalkeepers, KickoffMatch, Editable
<1>2. PICK mark \in {"goalkeeper", "begun"} : matches' = [matches EXCEPT ![i].mark = mark]
  BY DEF SetGoalkeepers, KickoffMatch
<1>3. \A j \in 1 .. n :
        /\ matches'[j] \in MatchType
        /\ matches'[j].home = matches[j].home /\ matches'[j].away = matches[j].away
        /\ matches'[j].stage = matches[j].stage /\ matches'[j].round = matches[j].round
        /\ matches'[j].decided = matches[j].decided /\ matches'[j].winner = matches[j].winner
        /\ matches[j].decided => matches'[j] = matches[j]
  <2> DEFINE m == [matches[i] EXCEPT !.mark = mark]
  <2>1. matches[i] \in MatchType
    BY <1>1
  <2>2. /\ m \in MatchType /\ m.home = matches[i].home /\ m.away = matches[i].away
        /\ m.stage = matches[i].stage /\ m.round = matches[i].round
        /\ m.decided = matches[i].decided /\ m.winner = matches[i].winner
    BY <2>1 DEF MatchType
  <2>3. matches' = [matches EXCEPT ![i] = m]
    BY <1>2
  <2> HIDE DEF m
  <2>4. \A j \in 1 .. n : matches'[j] = IF j = i THEN m ELSE matches[j]
    BY <1>1, <2>3
  <2> QED
    BY <1>1, <2>2, <2>4
<1>4. matches' \in Seq(MatchType) /\ Len(matches') = n /\ DOMAIN matches' = 1 .. n
  <2>1. DOMAIN matches' = 1 .. n
    BY <1>1, <1>2
  <2>2. matches' \in [1 .. n -> MatchType]
    BY <1>1, <1>2, <1>3
  <2> QED
    BY <1>1, <2>1, <2>2, LenProperties
<1>5. Entered' = Entered /\ Eligible' = Eligible
  BY <1>1 DEF Entered, Eligible
<1>6. TypeOK'
  BY <1>1, <1>4, <1>5 DEF TypeOK
<1>7. Sizes'
  <2>1. pool' = pool /\ rules' = rules /\ Entered' = Entered /\ GroupSize' = GroupSize /\ Dealt(pool)
    BY <1>1, <1>5 DEF Sizes, GroupSize
  <2>2. Dealt(pool)'
    BY <2>1 DEF Dealt
  <2> QED
    BY <1>1, <2>2 DEF Sizes
<1>8. Staged(matches)'
  <2>1. Last(matches').stage = Last(matches).stage
    BY <1>1, <1>3, <1>4 DEF Last, Staged
  <2>2. /\ \A j \in 1 .. n : matches[j].decided => matches'[j].decided
        /\ \A j \in 1 .. n : matches'[j].stage = matches[j].stage
        /\ 1 \in 1 .. n /\ \A j \in 1 .. n - 1 : j \in 1 .. n
    BY <1>1, <1>3 DEF Staged
  <2> QED
    BY <1>1, <1>4, <2>1, <2>2 DEF Staged
<1>9. (Open(matches) # {})' /\ Playable(matches, Eligible)'
  BY <1>1, <1>3, <1>4, <1>5 DEF Open, Playable
<1>10. rules'.format = "groups_knockout" => AllIn(matches)'
  BY <1>1, <1>3, <1>4, <1>5 DEF AllIn
<1>11. Underway' /\ ChampionIsEligible'
  BY <1>1, <1>8, <1>9, <1>10 DEF Underway, ChampionIsEligible
<1>12. Kept(matches, matches')
  BY <1>1, <1>3, <1>4 DEF Kept
<1>13. Rounds(matches)'
  <2>1. WonBySides(matches')
    BY <1>1, <1>3, <1>4 DEF WonBySides, Rounds
  <2>2. Rounds(matches')
    BY <1>1, <1>4, <1>12, <2>1, RoundsStay
  <2> QED
    BY <1>1, <2>2 DEF Rounds
<1> QED
  BY <1>1, <1>3, <1>4, <1>6, <1>7, <1>11, <1>12, <1>13 DEF EditionInv

(* One match with its result, the others as they were.                     *)
LEMMA ResultRecorded ==
  ASSUME EditionInv, NEW i \in DOMAIN matches, Editable(i), NEW m \in MatchType,
         m.decided, m.home = matches[i].home, m.away = matches[i].away, m.stage = matches[i].stage,
             m.round = matches[i].round,
         Resulted(m)
  PROVE  Recorded([matches EXCEPT ![i] = m], banned)
<1> DEFINE n == Len(matches)
           ms == [matches EXCEPT ![i] = m]
<1>1. /\ matches \in Seq(MatchType) /\ n \in Nat /\ i \in 1 .. n
      /\ matches \in [1 .. n -> MatchType] /\ ~matches[i].decided
      /\ banned \in SUBSET Entered
  BY LenProperties DEF EditionInv, TypeOK, Editable
<1>2. ms \in [1 .. n -> MatchType] /\ ms[i] = m /\ \A j \in 1 .. n : j # i => ms[j] = matches[j]
  BY <1>1
<1> HIDE DEF ms
<1>3. ms \in Seq(MatchType) /\ Len(ms) = n
  BY <1>1, <1>2, LenProperties
<1>4. \A j \in 1 .. n : \/ j = i /\ ms[j] = m
                        \/ j # i /\ ms[j] = matches[j]
  BY <1>2
<1>5. Kept(matches, ms)
  BY <1>1, <1>3, <1>4 DEF Kept
<1>6. \A j \in 1 .. Len(ms) :
        /\ ms[j].stage = matches[j].stage
        /\ ~ms[j].decided => ms[j] = matches[j]
        /\ ms[j].decided /\ ~matches[j].decided => Resulted(ms[j])
  BY <1>3, <1>4
<1> QED
  BY <1>1, <1>3, <1>5, <1>6 DEF Recorded, ms

(* A result, of the game or given, and what follows from it.               *)
LEMMA ResultGoesOn ==
  ASSUME EditionInv, NEW i \in DOMAIN matches, Result(i)
  PROVE  \E ed : GoesOnFrom(ed)
<1>1. /\ matches[i] \in MatchType /\ matches \in [1 .. Len(matches) -> MatchType]
      /\ i \in 1 .. Len(matches) /\ deducted \in [Club -> 0 .. MaxDeducted]
  BY LenProperties DEF EditionInv, TypeOK
<1>2. ASSUME NEW m \in MatchType, Editable(i), Progress([matches EXCEPT ![i] = m], banned, deducted),
             m.decided, m.home = matches[i].home, m.away = matches[i].away, m.stage = matches[i].stage,
             m.round = matches[i].round, Resulted(m),
             UNCHANGED <<rules, entries, pool, banned, deducted>>
      PROVE  \E ed : GoesOnFrom(ed)
  <2> DEFINE ms == [matches EXCEPT ![i] = m]
  <2>1. Recorded(ms, banned)
    BY <1>2, ResultRecorded
  <2>2. Progress(ms, banned, deducted)
    BY <1>2
  <2>3. status = "in_progress"
    BY <1>2 DEF Editable
  <2> HIDE DEF ms
  <2> QED
    BY <1>1, <1>2, <2>1, <2>2, <2>3, HandlersGoOn
<1>3. ASSUME NEW score \in Goals, NEW winner \in {matches[i].home, matches[i].away, NoClub},
             Score(i, score, winner)
      PROVE  \E ed : GoesOnFrom(ed)
  <2> DEFINE m == [matches[i] EXCEPT !.mark = "begun", !.decided = TRUE, !.score = score,
                                     !.winner = winner]
  <2>1. /\ m \in MatchType /\ m.decided /\ m.home = matches[i].home /\ m.away = matches[i].away
        /\ m.stage = matches[i].stage /\ m.round = matches[i].round /\ m.winner = winner
    BY <1>1, NumbersAssumption DEF MatchType
  <2>2. [matches EXCEPT ![i].mark = "begun", ![i].decided = TRUE,
                        ![i].score = score, ![i].winner = winner]
        = [matches EXCEPT ![i] = m]
    BY <1>1 DEF MatchType
  <2>3. /\ Editable(i) /\ Progress([matches EXCEPT ![i] = m], banned, deducted)
        /\ UNCHANGED <<rules, entries, pool, banned, deducted>>
    BY <1>3, <2>2, Zenon DEF Score
  <2>4. winner = NoClub => matches[i].stage \in {"groups", "league"}
    BY <1>3, Zenon DEF Score
  <2> HIDE DEF m
  <2>5. Resulted(m)
    BY <2>1, <2>4 DEF Resulted
  <2> QED
    BY <1>2, <2>1, <2>3, <2>5
<1>4. ASSUME NEW winner \in {matches[i].home, matches[i].away}, Walkover(i, winner)
      PROVE  \E ed : GoesOnFrom(ed)
  <2> DEFINE score == IF winner = matches[i].home THEN <<3, 0>> ELSE <<0, 3>>
             m == [matches[i] EXCEPT !.decided = TRUE, !.winner = winner, !.score = score]
  <2>1. /\ m \in MatchType /\ m.decided /\ m.home = matches[i].home /\ m.away = matches[i].away
        /\ m.stage = matches[i].stage /\ m.round = matches[i].round /\ m.winner = winner
    BY <1>1 DEF MatchType
  <2>2. [matches EXCEPT ![i].decided = TRUE, ![i].winner = winner, ![i].score = score]
        = [matches EXCEPT ![i] = m]
    BY <1>1 DEF MatchType
  <2>3. /\ Editable(i) /\ Progress([matches EXCEPT ![i] = m], banned, deducted)
        /\ UNCHANGED <<rules, entries, pool, banned, deducted>>
    BY <1>4, <2>2, Zenon DEF Walkover
  <2> HIDE DEF m
  <2>4. Resulted(m)
    BY <2>1 DEF Resulted
  <2> QED
    BY <1>2, <2>1, <2>3, <2>4
<1> QED
  BY <1>3, <1>4 DEF Result

(* Nothing is recorded of a match when somebody is punished.               *)
LEMMA PunishmentRecorded ==
  ASSUME EditionInv, NEW out \in SUBSET Entered
  PROVE  Recorded(matches, out)
<1>1. matches \in Seq(MatchType) /\ Len(matches) \in Nat
  BY LenProperties DEF EditionInv, TypeOK
<1> QED
  BY <1>1 DEF Recorded, Kept

(* A punishment and what follows from it.                                  *)
LEMMA PunishmentGoesOn ==
  ASSUME EditionInv, NEW S \in SUBSET Club,
         Disqualify(S) \/ \E points \in Penalty : TakePoints(S, points)
  PROVE  \E ed : GoesOnFrom(ed)
<1>1. /\ banned \in SUBSET Entered /\ deducted \in [Club -> 0 .. MaxDeducted]
      /\ status = "in_progress" /\ S \subseteq Eligible
  BY DEF EditionInv, TypeOK, Disqualify, TakePoints, Punishable
<1>2. CASE Disqualify(S)
  <2> DEFINE out == banned \cup S
  <2>1. /\ banned' = out /\ Progress(matches, out, deducted)
        /\ UNCHANGED <<rules, entries, pool>> /\ deducted' = deducted
    BY <1>2 DEF Disqualify
  <2>2. out \in SUBSET Entered
    BY <1>1 DEF Eligible
  <2> HIDE DEF out
  <2> QED
    BY <1>1, <2>1, <2>2, PunishmentRecorded, HandlersGoOn
<1>3. ASSUME NEW points \in Penalty, TakePoints(S, points)
      PROVE  \E ed : GoesOnFrom(ed)
  <2> DEFINE taken == Fined(S, points)
  <2>1. /\ deducted' = taken /\ Progress(matches, banned, taken)
        /\ UNCHANGED <<rules, entries, pool>> /\ banned' = banned
        /\ \A c \in S : deducted[c] + points <= MaxDeducted
    BY <1>3 DEF TakePoints
  <2>2. taken \in [Club -> 0 .. MaxDeducted]
    <3>1. points \in Nat /\ MaxDeducted \in Nat
      BY NumbersAssumption
    <3> QED
      BY <1>1, <2>1, <3>1 DEF Fined
  <2> HIDE DEF taken
  <2> QED
    BY <1>1, <2>1, <2>2, PunishmentRecorded, HandlersGoOn
<1> QED
  BY <1>2, <1>3

(* An edition just created.                                                *)
LEMMA EditionInit == Init => EditionInv
<1> SUFFICES ASSUME Init PROVE EditionInv
  OBVIOUS
<1>1. rules \in EditionType /\ entries = <<>> /\ Entered = {} /\ matches = <<>>
  BY EditionAssumption DEF Init, Entered, Range
<1>2. IsInjective(entries) /\ Len(entries) = 0
  BY <1>1 DEF IsInjective
<1>3. TypeOK
  BY <1>1, <1>2, NumbersAssumption DEF Init, TypeOK
<1>4. Sizes
  BY <1>1, <1>2 DEF Init, Sizes, Dealt, EditionType
<1>5. Rounds(matches)
  BY <1>1 DEF Rounds, Tidy, WonBySides
<1> QED
  BY <1>1, <1>3, <1>4, <1>5 DEF Init, EditionInv, Underway, ChampionIsEligible

(* Every step keeps the invariant, and what is on record, unless nothing is *)
(* and the fixtures are made anew.                                          *)
LEMMA EditionStep ==
  EditionInv /\ [Next]_vars => EditionInv' /\ (Kept(matches, matches') \/ NothingOnRecord)
<1> SUFFICES ASSUME EditionInv, [Next]_vars
             PROVE  EditionInv' /\ (Kept(matches, matches') \/ NothingOnRecord)
  OBVIOUS
<1>1. matches \in Seq(MatchType) /\ Len(matches) \in Nat
  BY LenProperties DEF EditionInv, TypeOK
<1>2. Kept(matches, matches)
  BY <1>1 DEF Kept
<1>3. CASE \E c \in Club : Register(c)
  BY <1>2, <1>3, RegisterStep DEF Register
<1>4. CASE \E c \in Club : Withdraw(c)
  BY <1>2, <1>4, WithdrawStep DEF Withdraw
<1>5. CASE AssignGroups
  BY <1>5, AssignGroupsStep
<1>6. CASE Start
  <2>1. NothingOnRecord
    BY <1>6 DEF Start, EditionInv, Underway, NothingOnRecord
  <2> QED
    BY <1>6, <2>1, StartStep
<1>7. CASE \E i \in DOMAIN matches : SetGoalkeepers(i) \/ KickoffMatch(i)
  BY <1>7, MarkStep
<1>8. CASE \E i \in DOMAIN matches : Result(i)
  BY <1>8, ResultGoesOn, ProgressStep
<1>9. CASE \E S \in SUBSET Club : Disqualify(S) \/ \E points \in Penalty : TakePoints(S, points)
  BY <1>9, PunishmentGoesOn, ProgressStep
<1>10. CASE UNCHANGED vars
  <2>1. EditionInv'
    BY <1>10 DEF vars, EditionInv, TypeOK, Sizes, Underway, ChampionIsEligible, Staged, Playable, Open,
                 AllIn, Entered, Eligible, Dealt, GroupSize, Rounds
  <2> QED
    BY <1>2, <1>10, <2>1 DEF vars
<1> QED
  BY <1>3, <1>4, <1>5, <1>6, <1>7, <1>8, <1>9, <1>10 DEF Next

-----------------------------------------------------------------------------
(* From round to round *)

(* The places after the n of old are those of d.                           *)
LEMMA NewPlaces ==
  ASSUME NEW old \in Seq(MatchType), NEW d \in Seq(MatchType), Len(d) > 0, Len(matches) = Len(old),
         matches' = old \o d
  PROVE  /\ Cardinality(NewOnes) = Len(d) /\ IsFiniteSet(NewOnes)
         /\ \A k \in 1 .. Len(d) : Len(old) + k \in NewOnes /\ matches'[Len(old) + k] = d[k]
         /\ \A i \in NewOnes : \E k \in 1 .. Len(d) : matches'[i] = d[k]
<1> DEFINE n == Len(old)
           l == Len(d)
<1>1. n \in Nat /\ l \in Nat /\ l > 0 /\ Len(matches') = n + l /\ DOMAIN matches' = 1 .. n + l
      /\ \A k \in 1 .. l : matches'[n + k] = d[k]
  BY Added, LenProperties
<1> HIDE DEF n, l
<1>2. NewOnes = n + 1 .. n + l
  BY <1>1 DEF NewOnes, n
<1>3. Cardinality(NewOnes) = l /\ IsFiniteSet(NewOnes)
  <2>1. n + 1 \in Int /\ n + l \in Int /\ ~(n + 1 > n + l) /\ (n + l) - (n + 1) + 1 = l
    BY <1>1
  <2> QED
    BY <1>2, <2>1, FS_Interval
<1>4. \A i \in NewOnes : i - n \in 1 .. l /\ n + (i - n) = i
  BY <1>1, <1>2
<1>5. \A k \in 1 .. l : n + k \in NewOnes
  BY <1>1, <1>2
<1> QED
  BY <1>1, <1>3, <1>4, <1>5 DEF n, l

(* New matches after groups or a knockout are those of the next round.     *)
LEMMA NextRound ==
  ASSUME EditionInv, NEW ed, GoesOnFrom(ed), Last(matches).stage \in {"groups", "knockout"},
         status' = "in_progress", NewOnes # {}
  PROVE  /\ Enrolled /\ Written(ed) /\ Len(ed.matches) > 0 /\ Rounds(ed.matches)
         /\ LastOnes(ed.matches) = LastOnes(matches) /\ Last(ed.matches).stage = Last(matches).stage
         /\ Cardinality(StillIn(ed)) \in 2 .. 16
         /\ \/ /\ Last(matches).stage = "groups" /\ rules.format = "groups_knockout"
               /\ matches' = ed.matches \o FromGroups(ed)
            \/ /\ Last(matches).stage = "knockout" /\ Len(Winners(ed.matches)) # 1
               /\ matches' = ed.matches \o FromKnockout(ed)
<1> DEFINE w == ed.matches
<1>1. /\ Enrolled /\ Written(ed) /\ matches \in Seq(MatchType) /\ w \in Seq(MatchType)
      /\ Len(w) = Len(matches) /\ Len(w) \in Nat \ {0} /\ Kept(matches, w)
      /\ DOMAIN matches = 1 .. Len(matches) /\ DOMAIN w = 1 .. Len(matches)
      /\ Staged(w) /\ Rounds(w) /\ Sizes /\ rules \in EditionType /\ status = "in_progress"
  BY LenProperties DEF EditionInv, TypeOK, Enrolled, GoesOnFrom, Going, Written, Staged
<1>2. /\ \A i \in 1 .. Len(matches) : w[i].stage = matches[i].stage /\ w[i].round = matches[i].round
      /\ Last(w).stage = Last(matches).stage /\ Last(w).round = Last(matches).round
  BY <1>1 DEF Kept, Last
<1>3. LastOnes(w) = LastOnes(matches)
  BY <1>1, <1>2 DEF LastOnes
<1>4. /\ Cardinality(StillIn(ed)) > 1
      /\ \/ Last(w).stage = "groups" /\ matches' = w \o FromGroups(ed)
         \/ Last(w).stage = "knockout" /\ Len(Winners(w)) # 1 /\ matches' = w \o FromKnockout(ed)
  <2>1. matches' # w
    BY <1>1 DEF NewOnes
  <2> QED
    BY <1>2, <2>1 DEF GoesOnFrom, Onward, AfterStage, Add, Finish
<1>5. rules.format # "league" /\ (Last(w).stage = "groups" => rules.format = "groups_knockout")
  BY <1>1, <1>2 DEF Staged, Last
<1>6. Cardinality(StillIn(ed)) \in 2 .. 16
  <2>1. Len(entries) = rules.capacity /\ rules.capacity \in {4, 8, 12, 16}
    BY <1>1, <1>5 DEF Sizes, EditionType
  <2> DEFINE left == Cardinality(StillIn(ed))
  <2>2. left <= Len(entries) /\ left \in Nat /\ left > 1
    BY <1>1, <1>4, ThoseStillIn
  <2> HIDE DEF left
  <2>3. left \in 2 .. 16
    BY <2>1, <2>2
  <2> QED
    BY <2>3 DEF left
<1> QED
  BY <1>1, <1>2, <1>3, <1>4, <1>5, <1>6

(* The winners of the last round of a knockout play the new one.           *)
WinnersPlayOn ==
  2 * Cardinality(NewOnes) = Cardinality(LastOnes(matches)) =>
    \A i \in LastOnes(matches) : matches'[i].winner \in Eligible' =>
      \E k \in NewOnes : Plays(matches'[k], matches'[i].winner)

LEMMA WinnersStep ==
  ASSUME EditionInv, NEW ed, GoesOnFrom(ed), Last(matches).stage = "knockout",
         status' = "in_progress", NewOnes # {}
  PROVE  WinnersPlayOn
<1> DEFINE w == ed.matches
           d == FromKnockout(ed)
<1>1. /\ LastOnes(w) = LastOnes(matches) /\ matches' = w \o d
      /\ d \in Seq(MatchType) /\ Len(d) > 0 /\ WinnersGoOn(w, d, StillIn(ed))
  BY NextRound, KnockoutGoesOn DEF ToPlay
<1>2. w \in Seq(MatchType) /\ Len(w) = Len(matches) /\ Eligible' = StillIn(ed)
  BY DEF GoesOnFrom, Going, Written, Entered, Eligible
<1> HIDE DEF w, d
<1>3. /\ Cardinality(NewOnes) = Len(d)
      /\ \A k \in 1 .. Len(d) : Len(w) + k \in NewOnes /\ matches'[Len(w) + k] = d[k]
  BY <1>1, <1>2, NewPlaces
<1>4. \A i \in LastOnes(matches) : matches'[i] = w[i]
  <2>1. DOMAIN w = 1 .. Len(w)
    BY <1>2, LenProperties
  <2> QED
    BY <1>1, <1>2, <2>1, Added DEF LastOnes
<1>5. ASSUME 2 * Len(d) = Cardinality(LastOnes(matches)), NEW i \in LastOnes(matches),
             w[i].winner \in StillIn(ed)
      PROVE  \E k \in NewOnes : Plays(matches'[k], w[i].winner)
  <2>1. PICK k \in 1 .. Len(d) : Plays(d[k], w[i].winner)
    BY <1>1, <1>5 DEF WinnersGoOn
  <2> QED
    BY <1>3, <2>1
<1> QED
  BY <1>2, <1>3, <1>4, <1>5 DEF WinnersPlayOn

(* The best of the groups, who are still in, play the first round.         *)
GroupsPlayOn ==
  LET Of(g) == {c \in Eligible' : PoolOf(pool, c) = g}
      sent == {matches'[k].home : k \in NewOnes} \cup {matches'[k].away : k \in NewOnes}
  IN 2 * Cardinality(NewOnes) = PerPool * Cardinality(Groups) =>
       \A g \in Groups : Cardinality(sent \cap Of(g)) >= Min({PerPool, Cardinality(Of(g))})

LEMMA GroupsStep ==
  ASSUME EditionInv, NEW ed, GoesOnFrom(ed), Last(matches).stage = "groups",
         status' = "in_progress", NewOnes # {}
  PROVE  GroupsPlayOn
<1> DEFINE w == ed.matches
           d == FromGroups(ed)
           Of(g) == {c \in Eligible' : PoolOf(pool, c) = g}
           sent == {matches'[k].home : k \in NewOnes} \cup {matches'[k].away : k \in NewOnes}
<1>1. /\ Enrolled /\ Written(ed) /\ Cardinality(StillIn(ed)) \in 2 .. 16 /\ matches' = w \o d
      /\ rules.format = "groups_knockout" /\ Last(w).stage = "groups" /\ Rounds(w)
  BY NextRound
<1>2. w \in Seq(MatchType) /\ Len(w) = Len(matches) /\ Eligible' = StillIn(ed)
  BY DEF GoesOnFrom, Going, Written, Entered, Eligible
<1>3. PICK K \in {1, 2, 4} : Groups = 1 .. K /\ (Len(entries) = 12 => K = 4)
  BY <1>1, GroupsOfTheEdition DEF EditionInv, GoesOnFrom
<1>4. d \in Seq(MatchType) /\ Len(d) > 0 /\ GroupsGoThrough(ed, d, K)
  <2>1. \A i \in 1 .. Len(w) : w[i].stage # "knockout"
    BY <1>1 DEF Rounds
  <2> QED
    BY <1>1, <1>3, <2>1, GroupsGoOn DEF ToPlay
<1> HIDE DEF w, d
<1>5. /\ Cardinality(NewOnes) = Len(d)
      /\ \A k \in 1 .. Len(d) : Len(w) + k \in NewOnes /\ matches'[Len(w) + k] = d[k]
      /\ IsFiniteSet(NewOnes)
  BY <1>1, <1>2, <1>4, NewPlaces
<1>6. ASSUME 2 * Len(d) = PerPool * K, NEW g \in 1 .. K
      PROVE  Cardinality(sent \cap Of(g)) >= Min({PerPool, Cardinality(Of(g))})
  <2> DEFINE Q == Qualified(ed, g)
             N == Cardinality(Of(g))
             M == Min({PerPool, N})
  <2>1. Of(g) = Standing(ed, g) /\ Of(g) \subseteq Entered /\ NoClub \notin Of(g)
    <3>1. StillIn(ed) \subseteq Entered /\ StillIn(ed) \subseteq Club
      BY <1>1, ThoseStillIn
    <3> QED
      BY <1>2, <3>1, ClubAssumption DEF Standing
  <2>2. IsFiniteSet(Of(g)) /\ N \in Nat
    <3>1. IsFiniteSet(Entered)
      BY <1>1, Seeds
    <3> HIDE DEF Of
    <3> QED
      BY <2>1, <3>1, FS_Subset, FS_CardinalityType
  <2>3. /\ OnePlaceEach(Q, PerPool) /\ Q \in [1 .. PerPool -> Club \cup {NoClub}]
        /\ \A q \in 1 .. PerPool : q <= N => Q[q] \in Of(g)
    BY <1>1, <2>1, QualifiedType
  <2>4. \A q \in 1 .. PerPool : q <= N => Q[q] \in sent
    <3> SUFFICES ASSUME NEW q \in 1 .. PerPool, q <= N PROVE Q[q] \in sent
      OBVIOUS
    <3>1. Q[q] \in StillIn(ed)
      BY <1>2, <2>3
    <3>2. PICK k \in 1 .. Len(d) : Plays(d[k], Q[q])
      BY <1>4, <1>6, <3>1 DEF GroupsGoThrough
    <3>3. Len(w) + k \in NewOnes /\ matches'[Len(w) + k] = d[k]
      BY <1>5
    <3> QED
      BY <3>2, <3>3 DEF Plays
  <2> DEFINE T == sent \cap Of(g)
  <2>5. IsFiniteSet(T) /\ Cardinality(T) \in Nat
    BY <2>2, FS_Subset, FS_CardinalityType
  <2> HIDE DEF Of, sent, T, Q, N
  <2>6. \A q \in 1 .. PerPool : q <= N => Q[q] \in T
    BY <2>3, <2>4 DEF T
  <2>7. M \in {PerPool, N} /\ M <= PerPool /\ M <= N /\ M \in {0, 1, 2}
    BY <2>2 DEF Min, PerPool
  <2>8. CASE M = 0
    BY <2>5, <2>8 DEF T, N
  <2>9. CASE M = 1
    <3>1. Q[1] \in T
      BY <2>2, <2>6, <2>7, <2>9 DEF PerPool
    <3>2. Cardinality({Q[1]}) = 1 /\ {Q[1]} \subseteq T
      BY <3>1, FS_Singleton
    <3>3. 1 <= Cardinality(T)
      BY <2>5, <3>2, FS_Subset
    <3> QED
      BY <2>5, <2>9, <3>3 DEF T, N
  <2>10. CASE M = 2
    <3>1. Q[1] \in T /\ Q[2] \in T /\ PerPool = 2
      BY <2>2, <2>6, <2>7, <2>10 DEF PerPool
    <3>2. Q[1] # Q[2]
      <4>1. Q[1] # NoClub
        BY <2>1, <3>1 DEF T
      <4> QED
        BY <2>3, <3>1, <4>1 DEF OnePlaceEach
    <3> DEFINE one == {Q[1]}
    <3>3. Cardinality(one) = 1 /\ IsFiniteSet(one) /\ Q[2] \notin one
      BY <3>2, FS_Singleton
    <3>4. {Q[1], Q[2]} = one \cup {Q[2]} /\ {Q[1], Q[2]} \subseteq T
      BY <3>1
    <3>5. Cardinality(one \cup {Q[2]}) = 1 + 1
      <4> HIDE DEF one
      <4> QED
        BY <3>3, FS_AddElement
    <3>6. Cardinality({Q[1], Q[2]}) = 2 /\ {Q[1], Q[2]} \subseteq T
      BY <3>4, <3>5
    <3>7. 2 <= Cardinality(T)
      BY <2>5, <3>6, FS_Subset
    <3> QED
      BY <2>5, <2>10, <3>7 DEF T, N
  <2> QED
    BY <2>7, <2>8, <2>9, <2>10
<1>7. Cardinality(Groups) = K
  BY <1>3, UpTo
<1> QED
  BY <1>3, <1>5, <1>6, <1>7 DEF GroupsPlayOn

(* Matches come after others only when play goes on, or groups are dealt   *)
(* anew with nothing on record.                                            *)
LEMMA WhenMatchesCome ==
  ASSUME EditionInv, [Next]_vars, matches # <<>>, NewOnes # {}
  PROVE  \/ \E ed : GoesOnFrom(ed)
         \/ AssignGroups /\ status = "in_progress"
<1>1. matches \in Seq(MatchType) /\ DOMAIN matches = 1 .. Len(matches) /\ Len(matches) \in Nat
      /\ (status = "registration" => matches = <<>>)
  BY LenProperties DEF EditionInv, TypeOK, Underway
<1>2. ASSUME DOMAIN matches' = DOMAIN matches PROVE FALSE
  BY <1>1, <1>2 DEF NewOnes
<1>3. CASE \E c \in Club : Register(c) \/ Withdraw(c)
  BY <1>1, <1>3 DEF Register, Withdraw
<1>4. CASE AssignGroups
  BY <1>1, <1>4 DEF AssignGroups, EditionInv, TypeOK
<1>5. CASE Start
  BY <1>1, <1>5 DEF Start
<1>6. CASE \E i \in DOMAIN matches : SetGoalkeepers(i) \/ KickoffMatch(i)
  BY <1>2, <1>6 DEF SetGoalkeepers, KickoffMatch
<1>7. CASE \E i \in DOMAIN matches : Result(i)
  BY <1>7, ResultGoesOn
<1>8. CASE \E S \in SUBSET Club : Disqualify(S) \/ \E points \in Penalty : TakePoints(S, points)
  BY <1>8, PunishmentGoesOn
<1>9. CASE UNCHANGED vars
  BY <1>2, <1>9 DEF vars
<1> QED
  BY <1>3, <1>4, <1>5, <1>6, <1>7, <1>8, <1>9 DEF Next

-----------------------------------------------------------------------------
(* The best of a league *)

(* Matches of a club are counted once, by their places or as a set.        *)
LEMMA CountedOnce ==
  ASSUME NEW ms \in Seq(MatchType), Tidy(ms), NEW c, NEW J \in SUBSET (1 .. Len(ms)),
         \A i \in J : ms[i].stage # "groups" /\ Plays(ms[i], c)
  PROVE  Cardinality({ms[i] : i \in J}) = Cardinality(J)
<1> DEFINE f == [i \in J |-> ms[i]]
<1>1. Len(ms) \in Nat
  BY LenProperties
<1>2. IsFiniteSet(J)
  BY <1>1, UpTo, FS_Subset
<1>3. ASSUME NEW i \in J, NEW j \in J, i < j
      PROVE  ms[i] # ms[j]
  <2>1. ~Apart(ms[i], ms[j])
    BY DEF Apart, Plays
  <2>2. i \in 1 .. j - 1 /\ j \in 1 .. Len(ms)
    BY <1>1, <1>3
  <2>3. ~SameRound(ms[i], ms[j])
    BY <2>1, <2>2 DEF Tidy
  <2> QED
    BY <2>3 DEF SameRound
<1>4. IsInjective(f)
  <2> SUFFICES ASSUME NEW i \in J, NEW j \in J, ms[i] = ms[j] PROVE i = j
    BY DEF IsInjective
  <2>1. i < j \/ j < i \/ i = j
    BY <1>1
  <2> QED
    BY <1>3, <2>1
<1>5. Range(f) = {ms[i] : i \in J}
  BY DEF Range
<1>6. f \in [J -> Range(f)]
  BY DEF Range
<1> QED
  BY <1>2, <1>4, <1>5, <1>6, FiniteRange

(* What the matches of a league give a club is what its table says.        *)
LEMMA PointsAreNet ==
  ASSUME NEW ed, Written(ed), Tidy(ed.matches), NEW c \in Club,
         \A i \in 1 .. Len(ed.matches) : ed.matches[i].stage = "league",
         matches' = ed.matches, deducted' = ed.deducted
  PROVE  PointsOf(c)' = Net(ed, Range(ed.matches), c)
<1> DEFINE ms == ed.matches
           Won(m) == m.decided /\ Plays(m, c) /\ Scored(m, c) > Conceded(m, c)
           Drew(m) == m.decided /\ Plays(m, c) /\ Scored(m, c) = Conceded(m, c)
           W == {i \in 1 .. Len(ms) : Won(ms[i])}
           D == {i \in 1 .. Len(ms) : Drew(ms[i])}
<1>1. ms \in Seq(MatchType) /\ DOMAIN ms = 1 .. Len(ms)
  BY LenProperties DEF Written
<1>2. PointsOf(c)' = 3 * Cardinality(W) + Cardinality(D) - ed.deducted[c]
  BY <1>1 DEF PointsOf
<1>3. /\ {m \in {n \in Range(ms) : n.decided /\ Plays(n, c)} : Scored(m, c) > Conceded(m, c)}
         = {ms[i] : i \in W}
      /\ {m \in {n \in Range(ms) : n.decided /\ Plays(n, c)} : Scored(m, c) = Conceded(m, c)}
         = {ms[i] : i \in D}
  BY <1>1 DEF Range
<1>4. Cardinality({ms[i] : i \in W}) = Cardinality(W) /\ Cardinality({ms[i] : i \in D}) = Cardinality(D)
  <2>1. \A i \in 1 .. Len(ms) : ms[i].stage # "groups"
    OBVIOUS
  <2> QED
    BY <1>1, <2>1, CountedOnce
<1>5. Net(ed, Range(ms), c) =
        3 * Cardinality({ms[i] : i \in W}) + Cardinality({ms[i] : i \in D}) - ed.deducted[c]
  <2> DEFINE form == Form(Range(ms), c)
  <2>1. /\ form.won = Cardinality({ms[i] : i \in W})
        /\ form.drawn = Cardinality({ms[i] : i \in D})
    <3> HIDE DEF W, D
    <3> QED
      BY <1>3 DEF Form
  <2>2. form.won \in Nat /\ form.drawn \in Nat /\ ed.deducted[c] \in Nat
    BY Records, FormType DEF Written
  <2>3. Net(ed, Range(ms), c) = (3 * form.won + form.drawn) - ed.deducted[c]
    BY DEF Net, Points
  <2> HIDE DEF form, W, D
  <2> QED
    BY <2>1, <2>2, <2>3
<1> QED
  BY <1>2, <1>4, <1>5

(* Only progress_championship closes an edition.                           *)
LEMMA WhenItCloses ==
  ASSUME EditionInv, [Next]_vars, status' = "finished"
  PROVE  UNCHANGED vars \/ \E ed : GoesOnFrom(ed)
<1>1. CASE \E c \in Club : Register(c) \/ Withdraw(c)
  BY <1>1 DEF Register, Withdraw
<1>2. CASE AssignGroups \/ Start
  BY <1>2 DEF AssignGroups, Start
<1>3. CASE \E i \in DOMAIN matches : SetGoalkeepers(i) \/ KickoffMatch(i)
  BY <1>3 DEF SetGoalkeepers, KickoffMatch, Editable
<1>4. CASE \E i \in DOMAIN matches : Result(i)
  BY <1>4, ResultGoesOn
<1>5. CASE \E S \in SUBSET Club : Disqualify(S) \/ \E points \in Penalty : TakePoints(S, points)
  BY <1>5, PunishmentGoesOn
<1> QED
  BY <1>1, <1>2, <1>3, <1>4, <1>5 DEF Next

LEMMA BestStep ==
  EditionInv /\ BestOfTheLeague /\ [Next]_vars => BestOfTheLeague'
<1> SUFFICES ASSUME EditionInv, BestOfTheLeague, [Next]_vars,
                    status' = "finished", rules'.format = "league", Cardinality(Eligible') > 1,
                    NEW c \in Eligible'
             PROVE  PointsOf(c)' <= PointsOf(champion)'
  BY DEF BestOfTheLeague
<1>1. CASE UNCHANGED vars
  BY <1>1 DEF vars, BestOfTheLeague, PointsOf, Eligible, Entered
<1>2. ASSUME NEW ed, GoesOnFrom(ed)
      PROVE  PointsOf(c)' <= PointsOf(champion)'
  <2> DEFINE w == ed.matches
  <2>1. /\ Enrolled /\ Written(ed) /\ Eligible' = StillIn(ed) /\ rules.format = "league" /\ Len(w) > 0
        /\ deducted' = ed.deducted /\ Tidy(w) /\ \A i \in 1 .. Len(w) : w[i].stage = "league"
        /\ Len(w) \in Nat /\ status = "in_progress"
    BY <1>2, LenProperties DEF GoesOnFrom, Going, Staged, Rounds, EditionInv, TypeOK, Enrolled,
                               Eligible, Entered, Written
  <2>2. Last(w).stage = "league"
    BY <2>1 DEF Last
  <2>3. ASSUME NEW d, StillIn(ed) = {d} PROVE FALSE
    <3>1. Cardinality(StillIn(ed)) = 1
      BY <2>3, FS_Singleton
    <3>2. Cardinality(StillIn(ed)) > 1
      BY <2>1
    <3> QED
      BY <3>1, <3>2
  <2>4. champion' = GeneralTable(ed, Entered)[1] /\ matches' = w
    BY <1>2, <2>1, <2>2, <2>3 DEF GoesOnFrom, Onward, AfterStage, Finish, Add
  <2>5. PICK first \in StillIn(ed) : /\ first = GeneralTable(ed, Entered)[1]
                                    /\ Net(ed, Range(w), c) <= Net(ed, Range(w), first)
    <3>1. Cardinality(StillIn(ed)) # 0
      BY <2>1
    <3> QED
      BY <2>1, <3>1, LeagueHasAChampion
  <2>6. c \in Club /\ first \in Club
    BY <2>1, <2>5, ThoseStillIn
  <2>7. PointsOf(c)' = Net(ed, Range(w), c) /\ PointsOf(first)' = Net(ed, Range(w), first)
    <3> HIDE DEF w
    <3> QED
      BY <2>1, <2>4, <2>6, PointsAreNet DEF w
  <2>8. PointsOf(champion)' = PointsOf(first)'
    <3>1. champion' = first
      BY <2>4, <2>5
    <3> QED
      BY <3>1 DEF PointsOf
  <2> QED
    BY <2>5, <2>7, <2>8
<1> QED
  BY <1>1, <1>2, WhenItCloses

-----------------------------------------------------------------------------
(* Two defeats in a cascade *)

(* A cascade nobody is disqualified from: the winners of the first two     *)
(* matches meet, and so do the losers; then the loser of the former meets  *)
(* the winner of the latter, and the winner of that the unbeaten club.     *)
CascadeRuns(ms, S) ==
  /\ Len(ms) \in {2, 4, 5, 6} /\ InCascade(ms)
  /\ \A i \in 1 .. Len(ms) : /\ ms[i].home # ms[i].away /\ {ms[i].home, ms[i].away} \subseteq S
                             /\ ms[i].decided => ms[i].winner \in {ms[i].home, ms[i].away}
  /\ Apart(ms[1], ms[2])
  /\ Len(ms) > 2 => /\ ms[1].decided /\ ms[3].home = ms[1].winner /\ ms[4].home = Loser(ms[1])
                    /\ ms[2].decided /\ ms[3].away = ms[2].winner /\ ms[4].away = Loser(ms[2])
  /\ Len(ms) > 4 => /\ ms[3].decided /\ ms[5].home = Loser(ms[3])
                    /\ ms[4].decided /\ ms[5].away = ms[4].winner
  /\ Len(ms) > 5 => ms[5].decided /\ ms[6].home = ms[3].winner /\ ms[6].away = ms[5].winner

CascadeInv ==
  status = "in_progress" /\ rules.format = "cascade" /\ banned = {} => CascadeRuns(matches, Entered)

(* Who has lost one of the matches.                                        *)
Lost(i, c) == matches[i].decided /\ Plays(matches[i], c) /\ matches[i].winner # c

LEMMA NoDefeat ==
  ASSUME matches \in Seq(MatchType), NEW c, \A i \in 1 .. Len(matches) : ~Lost(i, c)
  PROVE  Defeats(c) = 0
<1>1. DOMAIN matches = 1 .. Len(matches)
  BY LenProperties
<1>2. {i \in DOMAIN matches : matches[i].decided /\ Plays(matches[i], c) /\ matches[i].winner # c} = {}
  BY <1>1 DEF Lost
<1> QED
  BY <1>2, FS_EmptySet DEF Defeats

LEMMA OneDefeat ==
  ASSUME matches \in Seq(MatchType), NEW c, NEW j \in 1 .. Len(matches), Lost(j, c),
         \A i \in 1 .. Len(matches) : i # j => ~Lost(i, c)
  PROVE  Defeats(c) = 1
<1>1. DOMAIN matches = 1 .. Len(matches)
  BY LenProperties
<1>2. {i \in DOMAIN matches : matches[i].decided /\ Plays(matches[i], c) /\ matches[i].winner # c} = {j}
  BY <1>1 DEF Lost
<1> QED
  BY <1>2, FS_Singleton DEF Defeats

(* So in the matches to be played nobody has lost twice.                   *)
LEMMA NobodyIsOut ==
  ASSUME matches \in Seq(MatchType), CascadeRuns(matches, Entered),
         NEW i \in 1 .. Len(matches), ~matches[i].decided
  PROVE  /\ Defeats(matches[i].home) = IF matches[i].stage = "losers" THEN 1 ELSE 0
         /\ Defeats(matches[i].away) = IF matches[i].stage = "winners" THEN 0 ELSE 1
<1> DEFINE n == Len(matches)
           W(j) == matches[j].winner
           L(j) == Loser(matches[j])
           home == matches[i].home
           away == matches[i].away
<1>1. ASSUME NEW j \in 1 .. n, matches[j].decided
      PROVE  /\ {W(j), L(j)} = {matches[j].home, matches[j].away} /\ W(j) # L(j)
             /\ \A c : Lost(j, c) <=> c = L(j)
  <2>1. matches[j].home # matches[j].away /\ W(j) \in {matches[j].home, matches[j].away}
    BY <1>1 DEF CascadeRuns
  <2> QED
    BY <1>1, <2>1 DEF Loser, Lost, Plays
<1>2. /\ n \in {2, 4, 5, 6} /\ n \in Nat
      /\ \A j \in 1 .. n : matches[j].stage = CascadeStage[j]
      /\ \A j \in 1 .. n : ~matches[j].decided => \A c : ~Lost(j, c)
      /\ matches[i].home # matches[i].away
  BY DEF CascadeRuns, InCascade, Lost
<1>3. CASE n = 2
  <2>1. i \in {1, 2} /\ matches[i].stage = "winners"
    BY <1>2, <1>3 DEF CascadeStage
  <2>2. \A j \in 1 .. n : ~Lost(j, home) /\ ~Lost(j, away)
    <3> SUFFICES ASSUME NEW j \in 1 .. n, matches[j].decided PROVE ~Lost(j, home) /\ ~Lost(j, away)
      BY <1>2
    <3>1. (i = 1 /\ j = 2) \/ (i = 2 /\ j = 1)
      BY <1>3, <2>1
    <3>2. Apart(matches[1], matches[2])
      BY DEF CascadeRuns
    <3>3. ~Plays(matches[j], home) /\ ~Plays(matches[j], away)
      BY <3>1, <3>2 DEF Apart, Plays
    <3> QED
      BY <3>3 DEF Lost
  <2> QED
    BY <2>1, <2>2, NoDefeat
<1>4. ASSUME n > 2
      PROVE  /\ matches[1].decided /\ matches[2].decided
             /\ W(1) # L(1) /\ W(2) # L(2) /\ W(1) # W(2) /\ W(1) # L(2) /\ L(1) # W(2) /\ L(1) # L(2)
             /\ matches[3].home = W(1) /\ matches[3].away = W(2)
             /\ matches[4].home = L(1) /\ matches[4].away = L(2)
             /\ \A c : (Lost(1, c) <=> c = L(1)) /\ (Lost(2, c) <=> c = L(2))
  <2>1. /\ matches[1].decided /\ matches[2].decided /\ Apart(matches[1], matches[2])
        /\ matches[3].home = W(1) /\ matches[3].away = W(2)
        /\ matches[4].home = L(1) /\ matches[4].away = L(2)
        /\ 1 \in 1 .. n /\ 2 \in 1 .. n
    BY <1>2, <1>4 DEF CascadeRuns
  <2>2. /\ {W(1), L(1)} = {matches[1].home, matches[1].away} /\ W(1) # L(1)
        /\ {W(2), L(2)} = {matches[2].home, matches[2].away} /\ W(2) # L(2)
        /\ \A c : (Lost(1, c) <=> c = L(1)) /\ (Lost(2, c) <=> c = L(2))
    BY <1>1, <2>1
  <2> HIDE DEF W, L
  <2>3. {W(1), L(1)} \cap {W(2), L(2)} = {}
    BY <2>1, <2>2 DEF Apart
  <2> QED
    BY <2>1, <2>2, <2>3
<1>5. ASSUME n > 4
      PROVE  /\ matches[3].decided /\ matches[4].decided
             /\ {W(3), L(3)} = {W(1), W(2)} /\ W(3) # L(3)
             /\ {W(4), L(4)} = {L(1), L(2)} /\ W(4) # L(4)
             /\ matches[5].home = L(3) /\ matches[5].away = W(4)
             /\ \A c : (Lost(3, c) <=> c = L(3)) /\ (Lost(4, c) <=> c = L(4))
  <2>1. /\ matches[3].decided /\ matches[4].decided
        /\ matches[5].home = L(3) /\ matches[5].away = W(4)
        /\ 3 \in 1 .. n /\ 4 \in 1 .. n /\ n > 2
    BY <1>2, <1>5 DEF CascadeRuns
  <2>2. /\ {W(3), L(3)} = {matches[3].home, matches[3].away} /\ W(3) # L(3)
        /\ {W(4), L(4)} = {matches[4].home, matches[4].away} /\ W(4) # L(4)
        /\ \A c : (Lost(3, c) <=> c = L(3)) /\ (Lost(4, c) <=> c = L(4))
    BY <1>1, <2>1
  <2> QED
    BY <1>4, <2>1, <2>2
<1>6. ASSUME n > 5
      PROVE  /\ matches[5].decided /\ {W(5), L(5)} = {L(3), W(4)} /\ W(5) # L(5)
             /\ matches[6].home = W(3) /\ matches[6].away = W(5)
             /\ \A c : Lost(5, c) <=> c = L(5)
  <2>1. /\ matches[5].decided /\ matches[6].home = W(3) /\ matches[6].away = W(5)
        /\ 5 \in 1 .. n /\ n > 4
    BY <1>2, <1>6 DEF CascadeRuns
  <2>2. /\ {W(5), L(5)} = {matches[5].home, matches[5].away} /\ W(5) # L(5)
        /\ \A c : Lost(5, c) <=> c = L(5)
    BY <1>1, <2>1
  <2> QED
    BY <1>5, <2>1, <2>2
<1> HIDE DEF W, L
<1>7. CASE n = 4
  <2>1. /\ i \in {3, 4} /\ \A j \in 1 .. n : j \in {1, 2, 3, 4}
        /\ 3 \in 1 .. n /\ 4 \in 1 .. n /\ n > 2
    BY <1>2, <1>4, <1>7
  <2>2. CASE i = 3
    <3>1. home = W(1) /\ away = W(2)
      BY <1>4, <2>1, <2>2
    <3>2. \A c \in {home, away} : ~Lost(1, c) /\ ~Lost(2, c) /\ ~Lost(3, c)
      BY <1>2, <1>4, <2>1, <2>2, <3>1
    <3>3. \A c \in {home, away} : ~Lost(4, c)
      <4> SUFFICES ASSUME matches[4].decided PROVE \A c \in {home, away} : ~Lost(4, c)
        BY <1>2, <2>1
      <4>1. {W(4), L(4)} = {L(1), L(2)} /\ \A c : Lost(4, c) <=> c = L(4)
        BY <1>1, <1>4, <2>1
      <4> QED
        BY <1>4, <2>1, <3>1, <4>1
    <3>4. matches[i].stage = "winners"
      BY <1>2, <2>2 DEF CascadeStage
    <3> QED
      BY <2>1, <3>2, <3>3, <3>4, NoDefeat
  <2>3. CASE i = 4
    <3>1. home = L(1) /\ away = L(2)
      BY <1>4, <2>1, <2>3
    <3>2. /\ Lost(1, home) /\ ~Lost(2, home) /\ ~Lost(4, home)
          /\ Lost(2, away) /\ ~Lost(1, away) /\ ~Lost(4, away)
      BY <1>2, <1>4, <2>1, <2>3, <3>1
    <3>3. ~Lost(3, home) /\ ~Lost(3, away)
      <4> SUFFICES ASSUME matches[3].decided PROVE ~Lost(3, home) /\ ~Lost(3, away)
        BY <1>2, <2>1
      <4>1. {W(3), L(3)} = {W(1), W(2)} /\ \A c : Lost(3, c) <=> c = L(3)
        BY <1>1, <1>4, <2>1
      <4> QED
        BY <1>4, <2>1, <3>1, <4>1
    <3>4. matches[i].stage = "losers"
      BY <1>2, <2>3 DEF CascadeStage
    <3>5. 1 \in 1 .. n /\ 2 \in 1 .. n
      BY <1>7
    <3>6. Defeats(home) = 1
      BY <2>1, <3>2, <3>3, <3>5, OneDefeat
    <3>7. Defeats(away) = 1
      BY <2>1, <3>2, <3>3, <3>5, OneDefeat
    <3> QED
      BY <3>4, <3>6, <3>7
  <2> QED
    BY <2>1, <2>2, <2>3
<1>8. ASSUME n > 4
      PROVE  /\ \A c : Lost(1, c) <=> c = L(1)
             /\ \A c : Lost(2, c) <=> c = L(2)
             /\ \A c : Lost(3, c) <=> c = L(3)
             /\ \A c : Lost(4, c) <=> c = L(4)
             /\ W(3) # L(1) /\ W(3) # L(2) /\ W(3) # L(3) /\ W(3) # L(4) /\ W(3) # W(4)
             /\ L(3) # L(1) /\ L(3) # L(2) /\ L(3) # L(4) /\ L(3) # W(4)
             /\ L(1) # L(2) /\ W(4) # L(4) /\ (W(4) = L(1) \/ W(4) = L(2))
  <2>1. n > 2
    BY <1>2, <1>8
  <2>2. {W(3), L(3)} = {W(1), W(2)} /\ {W(4), L(4)} = {L(1), L(2)}
    BY <1>5, <1>8
  <2>3. /\ W(1) # L(1) /\ W(2) # L(2) /\ W(1) # L(2) /\ L(1) # W(2) /\ L(1) # L(2)
        /\ \A c : (Lost(1, c) <=> c = L(1)) /\ (Lost(2, c) <=> c = L(2))
    BY <1>4, <2>1
  <2>4. /\ W(3) # L(3) /\ W(4) # L(4)
        /\ \A c : (Lost(3, c) <=> c = L(3)) /\ (Lost(4, c) <=> c = L(4))
    BY <1>5, <1>8
  <2>5. /\ W(3) \in {W(1), W(2)} /\ L(3) \in {W(1), W(2)}
        /\ W(4) \in {L(1), L(2)} /\ L(4) \in {L(1), L(2)}
    BY <2>2
  <2>6. /\ W(3) # L(1) /\ W(3) # L(2) /\ W(3) # L(4) /\ W(3) # W(4)
        /\ L(3) # L(1) /\ L(3) # L(2) /\ L(3) # L(4) /\ L(3) # W(4)
    BY <2>3, <2>5
  <2> QED
    BY <2>3, <2>4, <2>5, <2>6
<1>9. CASE n = 5
  <2>1. /\ i = 5 /\ matches[i].stage = "losers" /\ \A j \in 1 .. n : j \in {1, 2, 3, 4, 5}
        /\ 1 \in 1 .. n /\ 2 \in 1 .. n /\ 3 \in 1 .. n /\ 4 \in 1 .. n /\ n > 4 /\ n > 2
    <3>1. n > 4 /\ n > 2 /\ i \in {1, 2, 3, 4, 5}
      BY <1>9
    <3>2. i = 5
      BY <1>4, <1>5, <3>1
    <3> QED
      BY <1>2, <1>9, <3>1, <3>2 DEF CascadeStage
  <2>2. home = L(3) /\ away = W(4)
    BY <1>5, <2>1
  <2>3. \A c : ~Lost(5, c)
    BY <1>2, <2>1
  <2>4. Lost(3, home) /\ ~Lost(1, home) /\ ~Lost(2, home) /\ ~Lost(4, home)
    BY <1>8, <2>1, <2>2
  <2>5. Defeats(home) = 1
    BY <2>1, <2>3, <2>4, OneDefeat
  <2>6. ~Lost(3, away) /\ ~Lost(4, away) /\ (Lost(1, away) <=> ~Lost(2, away))
    BY <1>8, <2>1, <2>2
  <2>7. Lost(1, away) => Defeats(away) = 1
    BY <2>1, <2>3, <2>6, OneDefeat
  <2>8. Lost(2, away) => Defeats(away) = 1
    BY <2>1, <2>3, <2>6, OneDefeat
  <2>9. Defeats(away) = 1
    BY <2>6, <2>7, <2>8
  <2> QED
    BY <2>1, <2>5, <2>9
<1>10. CASE n = 6
  <2>1. /\ i = 6 /\ matches[i].stage = "grand_final" /\ \A j \in 1 .. n : j \in {1, 2, 3, 4, 5, 6}
        /\ 1 \in 1 .. n /\ 2 \in 1 .. n /\ 3 \in 1 .. n /\ 4 \in 1 .. n
        /\ n > 5 /\ n > 4 /\ n > 2
    <3>1. n > 5 /\ n > 4 /\ n > 2 /\ i \in {1, 2, 3, 4, 5, 6}
      BY <1>10
    <3>2. i = 6
      BY <1>4, <1>5, <1>6, <3>1
    <3> QED
      BY <1>2, <1>10, <3>1, <3>2 DEF CascadeStage
  <2>2. home = W(3) /\ away = W(5)
    BY <1>6, <2>1
  <2>3. \A c : ~Lost(6, c)
    BY <1>2, <2>1
  <2>4. /\ \A c : Lost(5, c) <=> c = L(5)
        /\ (W(5) = L(3) /\ L(5) = W(4)) \/ (W(5) = W(4) /\ L(5) = L(3))
    <3>1. {W(5), L(5)} = {L(3), W(4)} /\ \A c : Lost(5, c) <=> c = L(5)
      BY <1>6, <2>1
    <3>2. W(5) # L(5)
      BY <1>6, <2>1
    <3> QED
      BY <3>1, <3>2
  <2>5. ~Lost(1, home) /\ ~Lost(2, home) /\ ~Lost(3, home) /\ ~Lost(4, home) /\ ~Lost(5, home)
    BY <1>8, <2>1, <2>2, <2>4
  <2>6. Defeats(home) = 0
    BY <2>1, <2>3, <2>5, NoDefeat
  <2>7. CASE W(5) = L(3) /\ L(5) = W(4)
    <3>1. /\ Lost(3, away) /\ ~Lost(1, away) /\ ~Lost(2, away)
          /\ ~Lost(4, away) /\ ~Lost(5, away)
      BY <1>8, <2>1, <2>2, <2>4, <2>7
    <3>2. Defeats(away) = 1
      BY <2>1, <2>3, <3>1, OneDefeat
    <3> QED
      BY <2>1, <2>6, <3>2
  <2>8. CASE W(5) = W(4) /\ L(5) = L(3)
    <3>1. /\ ~Lost(3, away) /\ ~Lost(4, away) /\ ~Lost(5, away)
          /\ Lost(1, away) <=> ~Lost(2, away)
      BY <1>8, <2>1, <2>2, <2>4, <2>8
    <3>2. Lost(1, away) => Defeats(away) = 1
      BY <2>1, <2>3, <3>1, OneDefeat
    <3>3. Lost(2, away) => Defeats(away) = 1
      BY <2>1, <2>3, <3>1, OneDefeat
    <3>4. Defeats(away) = 1
      BY <3>1, <3>2, <3>3
    <3> QED
      BY <2>1, <2>6, <3>4
  <2> QED
    BY <2>4, <2>7, <2>8
<1> QED
  BY <1>2, <1>3, <1>7, <1>9, <1>10

(* Results that come later change nothing of what was settled.             *)
LEMMA CascadeStays ==
  ASSUME NEW old \in Seq(MatchType), NEW new \in Seq(MatchType), NEW S, CascadeRuns(old, S),
         Kept(old, new), Len(new) = Len(old),
         \A i \in 1 .. Len(old) :
           new[i].decided /\ ~old[i].decided => new[i].winner \in {new[i].home, new[i].away}
  PROVE  CascadeRuns(new, S)
<1> DEFINE n == Len(old)
<1>1. /\ n \in {2, 4, 5, 6}
      /\ n > 2 => 1 \in 1 .. n /\ 2 \in 1 .. n /\ 3 \in 1 .. n /\ 4 \in 1 .. n
      /\ n > 4 => 5 \in 1 .. n
      /\ n > 5 => 6 \in 1 .. n
      /\ 1 \in 1 .. n /\ 2 \in 1 .. n
  BY DEF CascadeRuns
<1>2. \A i \in 1 .. n : /\ new[i].home = old[i].home /\ new[i].away = old[i].away
                        /\ new[i].stage = old[i].stage /\ new[i].round = old[i].round
                        /\ old[i].decided => new[i] = old[i]
  BY DEF Kept
<1>3. InCascade(new)
  BY <1>2 DEF InCascade, CascadeRuns
<1>4. \A i \in 1 .. n : /\ new[i].home # new[i].away /\ {new[i].home, new[i].away} \subseteq S
                        /\ new[i].decided => new[i].winner \in {new[i].home, new[i].away}
  <2> SUFFICES ASSUME NEW i \in 1 .. n
               PROVE  /\ new[i].home # new[i].away /\ {new[i].home, new[i].away} \subseteq S
                      /\ new[i].decided => new[i].winner \in {new[i].home, new[i].away}
    OBVIOUS
  <2>1. /\ old[i].home # old[i].away /\ {old[i].home, old[i].away} \subseteq S
        /\ old[i].decided => old[i].winner \in {old[i].home, old[i].away}
    BY DEF CascadeRuns
  <2> QED
    BY <1>2, <2>1
<1>5. Apart(new[1], new[2])
  BY <1>1, <1>2 DEF CascadeRuns, Apart
<1>6. n > 2 => /\ new[1].decided /\ new[3].home = new[1].winner /\ new[4].home = Loser(new[1])
               /\ new[2].decided /\ new[3].away = new[2].winner /\ new[4].away = Loser(new[2])
  <2> SUFFICES ASSUME n > 2
               PROVE  /\ new[1].decided /\ new[3].home = new[1].winner /\ new[4].home = Loser(new[1])
                      /\ new[2].decided /\ new[3].away = new[2].winner /\ new[4].away = Loser(new[2])
    OBVIOUS
  <2>1. new[1] = old[1] /\ new[2] = old[2]
    BY <1>1, <1>2 DEF CascadeRuns
  <2> QED
    BY <1>1, <1>2, <2>1 DEF CascadeRuns
<1>7. n > 4 => /\ new[3].decided /\ new[5].home = Loser(new[3])
               /\ new[4].decided /\ new[5].away = new[4].winner
  <2> SUFFICES ASSUME n > 4
               PROVE  /\ new[3].decided /\ new[5].home = Loser(new[3])
                      /\ new[4].decided /\ new[5].away = new[4].winner
    OBVIOUS
  <2>1. n > 2
    BY <1>1
  <2>2. new[3] = old[3] /\ new[4] = old[4]
    BY <1>1, <1>2, <2>1 DEF CascadeRuns
  <2> QED
    BY <1>1, <1>2, <2>2 DEF CascadeRuns
<1>8. n > 5 => new[5].decided /\ new[6].home = new[3].winner /\ new[6].away = new[5].winner
  <2> SUFFICES ASSUME n > 5
               PROVE  new[5].decided /\ new[6].home = new[3].winner /\ new[6].away = new[5].winner
    OBVIOUS
  <2>1. n > 2 /\ n > 4
    BY <1>1
  <2>2. new[3] = old[3] /\ new[5] = old[5]
    BY <1>1, <1>2, <2>1 DEF CascadeRuns
  <2> QED
    BY <1>1, <1>2, <2>2 DEF CascadeRuns
<1> QED
  BY <1>1, <1>3, <1>4, <1>5, <1>6, <1>7, <1>8 DEF CascadeRuns

(* Where everybody is still in, the next ties are those of the places.     *)
LEMMA NoVacancy ==
  ASSUME Enrolled, NEW ed, NEW n \in Nat \ {0}, NEW ties \in [1 .. n -> [stage : Stage, round : Nat]],
         NEW m \in Nat, 2 * n <= m, NEW s \in [1 .. m -> StillIn(ed)]
  PROVE  TwoByTwo(Drawn(ed, ties, s, InOrder(s)), n, ties, s, StillIn(ed))
<1>1. /\ StillIn(ed) \in SUBSET Club
      /\ IsFiniteSet(StillIn(ed) \ Range(s)) /\ Cardinality(StillIn(ed) \ Range(s)) \in Nat
  BY ThoseStillIn, FS_Subset, FS_CardinalityType
<1>2. Vacant(ed, s) = {}
  BY DEF Vacant
<1>3. Enough(ed, s)
  BY <1>1, <1>2, FS_EmptySet DEF Enough
<1>4. Filled(ed, s) = s
  BY <1>2 DEF Filled
<1>5. [k \in DOMAIN InOrder(s) |-> Filled(ed, s)[InOrder(s)[k]]] = s
  BY <1>4 DEF InOrder
<1>6. Drawn(ed, ties, s, InOrder(s)) = Paired(ties, s)
  BY <1>3, <1>5 DEF Drawn
<1> QED
  BY <1>1, <1>6, PairedProperties

(* The winners and the losers of the matches of a cascade.                 *)
LEMMA CascadeSides ==
  ASSUME NEW ms, NEW S, CascadeRuns(ms, S), \A i \in 1 .. Len(ms) : ms[i].decided
  PROVE  /\ \A i \in 1 .. Len(ms) : ms[i].winner \in S /\ Loser(ms[i]) \in S
         /\ ms[1].winner # ms[2].winner /\ Loser(ms[1]) # Loser(ms[2])
         /\ Len(ms) > 2 =>
              /\ ms[3].winner # Loser(ms[3])
              /\ \A c \in {ms[3].winner, Loser(ms[3])}, d \in {ms[4].winner, Loser(ms[4])} : c # d
         /\ Len(ms) > 4 => ms[5].winner \in {Loser(ms[3]), ms[4].winner}
<1> DEFINE W(j) == ms[j].winner
           L(j) == Loser(ms[j])
<1>1. \A i \in 1 .. Len(ms) : /\ {W(i), L(i)} = {ms[i].home, ms[i].away} /\ W(i) # L(i)
                              /\ W(i) \in S /\ L(i) \in S
  <2> SUFFICES ASSUME NEW i \in 1 .. Len(ms)
               PROVE  /\ {W(i), L(i)} = {ms[i].home, ms[i].away} /\ W(i) # L(i)
                      /\ W(i) \in S /\ L(i) \in S
    OBVIOUS
  <2>1. /\ ms[i].home # ms[i].away /\ ms[i].home \in S /\ ms[i].away \in S
        /\ ms[i].winner = ms[i].home \/ ms[i].winner = ms[i].away
    BY DEF CascadeRuns
  <2> QED
    BY <2>1 DEF Loser
<1>2. 1 \in 1 .. Len(ms) /\ 2 \in 1 .. Len(ms) /\ Apart(ms[1], ms[2])
  BY DEF CascadeRuns
<1> HIDE DEF W, L
<1>3. {W(1), L(1)} \cap {W(2), L(2)} = {}
  BY <1>1, <1>2 DEF Apart
<1>4. ASSUME Len(ms) > 2
      PROVE  /\ {W(3), L(3)} = {W(1), W(2)} /\ {W(4), L(4)} = {L(1), L(2)} /\ W(3) # L(3)
             /\ \A c \in {W(3), L(3)}, d \in {W(4), L(4)} : c # d
  <2>1. 3 \in 1 .. Len(ms) /\ 4 \in 1 .. Len(ms)
    BY <1>4 DEF CascadeRuns
  <2>2. {W(3), L(3)} = {W(1), W(2)} /\ {W(4), L(4)} = {L(1), L(2)} /\ W(3) # L(3)
    BY <1>1, <1>4, <2>1 DEF CascadeRuns, W, L
  <2>3. W(1) # L(1) /\ W(2) # L(2)
    BY <1>1, <1>2
  <2> QED
    BY <1>3, <2>2, <2>3
<1>5. ASSUME Len(ms) > 4
      PROVE  W(5) \in {L(3), W(4)}
  <2>1. 5 \in 1 .. Len(ms)
    BY <1>5 DEF CascadeRuns
  <2> QED
    BY <1>1, <1>5, <2>1 DEF CascadeRuns, W, L
<1> QED
  BY <1>1, <1>3, <1>4, <1>5 DEF W, L

(* Who plays next in a cascade, after the matches ms.                      *)
ClubsNext(ms, d) ==
  /\ Len(ms) = 2 => /\ d[1].home = ms[1].winner /\ d[1].away = ms[2].winner
                    /\ d[2].home = Loser(ms[1]) /\ d[2].away = Loser(ms[2])
  /\ Len(ms) = 4 => d[1].home = Loser(ms[3]) /\ d[1].away = ms[4].winner
  /\ Len(ms) = 5 => d[1].home = ms[3].winner /\ d[1].away = ms[5].winner

LEMMA CascadeExtended ==
  ASSUME NEW ms \in Seq(MatchType), NEW S, CascadeRuns(ms, S), \A i \in 1 .. Len(ms) : ms[i].decided,
         NEW d, ToPlay(d, S), NextInCascade(Len(ms), d), ClubsNext(ms, d)
  PROVE  CascadeRuns(ms \o d, S)
<1> DEFINE n == Len(ms)
           new == ms \o d
<1>1. /\ d \in Seq(MatchType) /\ Len(d) > 0 /\ Len(d) \in Nat
      /\ \/ n = 2 /\ Len(d) = 2
         \/ n = 4 /\ Len(d) = 1
         \/ n = 5 /\ Len(d) = 1
  <2>1. d \in Seq(MatchType) /\ Len(d) > 0
    BY DEF ToPlay
  <2>2. \/ n = 2 /\ Len(d) = 2
        \/ n = 4 /\ Len(d) = 1
        \/ n = 5 /\ Len(d) = 1
    BY DEF NextInCascade
  <2> QED
    BY <2>1, <2>2, LenProperties
<1>2. /\ new \in Seq(MatchType) /\ Len(new) = n + Len(d)
      /\ \A i \in 1 .. n : new[i] = ms[i]
      /\ \A k \in 1 .. Len(d) : new[n + k] = d[k]
  BY <1>1, Added
<1> HIDE DEF new
<1>3. /\ ms[1].winner # ms[2].winner /\ Loser(ms[1]) # Loser(ms[2])
      /\ n > 2 => /\ ms[3].winner # Loser(ms[3])
                  /\ \A c \in {ms[3].winner, Loser(ms[3])}, e \in {ms[4].winner, Loser(ms[4])} : c # e
      /\ n > 4 => ms[5].winner \in {Loser(ms[3]), ms[4].winner}
  BY CascadeSides
<1>4. \A k \in 1 .. Len(d) : d[k].home # d[k].away
  <2>1. CASE n = 2 /\ Len(d) = 2
    <3>1. d[1].home # d[1].away /\ d[2].home # d[2].away
      BY <1>3, <2>1 DEF ClubsNext
    <3>2. \A k \in 1 .. Len(d) : k = 1 \/ k = 2
      BY <2>1
    <3> QED
      BY <3>1, <3>2
  <2>2. CASE n = 4 /\ Len(d) = 1
    <3>1. d[1].home # d[1].away
      BY <1>3, <2>2 DEF ClubsNext
    <3>2. \A k \in 1 .. Len(d) : k = 1
      BY <2>2
    <3> QED
      BY <3>1, <3>2
  <2>3. CASE n = 5 /\ Len(d) = 1
    <3>1. d[1].home # d[1].away
      BY <1>3, <2>3 DEF ClubsNext
    <3>2. \A k \in 1 .. Len(d) : k = 1
      BY <2>3
    <3> QED
      BY <3>1, <3>2
  <2> QED
    BY <1>1, <2>1, <2>2, <2>3
<1>5. ASSUME NEW i \in 1 .. Len(new)
      PROVE  /\ {new[i].home, new[i].away} \subseteq S /\ new[i].home # new[i].away
             /\ new[i].decided => new[i].winner \in {new[i].home, new[i].away}
             /\ new[i].stage = CascadeStage[i] /\ new[i].round = CascadeRound[i]
  <2>1. CASE i <= n
    <3>1. i \in 1 .. n
      BY <1>1, <2>1
    <3> QED
      BY <1>2, <3>1 DEF CascadeRuns, InCascade
  <2>2. CASE ~(i <= n)
    <3>1. PICK k \in 1 .. Len(d) : i = n + k
      <4>1. i - n \in 1 .. Len(d) /\ i = n + (i - n)
        BY <1>1, <1>2, <2>2
      <4> QED
        BY <4>1
    <3>2. d[k].stage = CascadeStage[n + k] /\ d[k].round = CascadeRound[n + k]
      BY <1>1, CascadePlaces
    <3>3. ~d[k].decided /\ {d[k].home, d[k].away} \subseteq S /\ d[k].home # d[k].away
      BY <1>4 DEF ToPlay
    <3> QED
      BY <1>2, <3>1, <3>2, <3>3
  <2> QED
    BY <2>1, <2>2
<1>6. Len(new) \in {4, 5, 6} /\ Len(new) <= 6
  <2>1. CASE n = 2 /\ Len(d) = 2
    BY <1>2, <2>1
  <2>2. CASE n = 4 /\ Len(d) = 1
    BY <1>2, <2>2
  <2>3. CASE n = 5 /\ Len(d) = 1
    BY <1>2, <2>3
  <2> QED
    BY <1>1, <2>1, <2>2, <2>3
<1>7. InCascade(new)
  BY <1>5, <1>6 DEF InCascade
<1>8. new[1] = ms[1] /\ new[2] = ms[2] /\ ms[1].decided /\ ms[2].decided
  <2>1. 1 \in 1 .. n /\ 2 \in 1 .. n
    BY DEF CascadeRuns
  <2> QED
    BY <1>2, <2>1
<1>9. ASSUME n > 2
      PROVE  /\ new[3] = ms[3] /\ new[4] = ms[4] /\ ms[3].decided /\ ms[4].decided
             /\ ms[3].home = ms[1].winner /\ ms[4].home = Loser(ms[1])
             /\ ms[3].away = ms[2].winner /\ ms[4].away = Loser(ms[2])
  <2>1. 3 \in 1 .. n /\ 4 \in 1 .. n
    BY <1>9 DEF CascadeRuns
  <2> QED
    BY <1>2, <1>9, <2>1 DEF CascadeRuns
<1>10. CASE n = 2 /\ Len(d) = 2
  <2>1. 1 \in 1 .. Len(d) /\ 2 \in 1 .. Len(d) /\ n + 1 = 3 /\ n + 2 = 4 /\ Len(new) = 4
    BY <1>1, <1>2, <1>10
  <2>2. new[3] = d[1] /\ new[4] = d[2]
    BY <1>2, <2>1
  <2> QED
    BY <1>5, <1>7, <1>8, <1>10, <2>1, <2>2 DEF CascadeRuns, ClubsNext, new
<1>11. CASE n = 4 /\ Len(d) = 1
  <2>1. 1 \in 1 .. Len(d) /\ n + 1 = 5 /\ n > 2 /\ Len(new) = 5
    BY <1>1, <1>2, <1>11
  <2>2. new[5] = d[1]
    BY <1>2, <2>1
  <2> QED
    BY <1>5, <1>7, <1>8, <1>9, <1>11, <2>1, <2>2 DEF CascadeRuns, ClubsNext, new
<1>12. CASE n = 5 /\ Len(d) = 1
  <2>1. 1 \in 1 .. Len(d) /\ n + 1 = 6 /\ n > 2 /\ n > 4 /\ 5 \in 1 .. n /\ Len(new) = 6
    BY <1>1, <1>2, <1>12
  <2>2. new[6] = d[1] /\ new[5] = ms[5] /\ ms[5].decided
    BY <1>2, <2>1
  <2>3. ms[5].home = Loser(ms[3]) /\ ms[5].away = ms[4].winner
    BY <2>1 DEF CascadeRuns
  <2> QED
    BY <1>5, <1>7, <1>8, <1>9, <1>12, <2>1, <2>2, <2>3 DEF CascadeRuns, ClubsNext, new
<1> QED
  BY <1>1, <1>10, <1>11, <1>12

(* Where nobody is out, cascade_next goes on with the cascade.             *)
LEMMA CascadeRunsNext ==
  ASSUME Enrolled, NEW ed, Written(ed), StillIn(ed) = Entered, CascadeRuns(ed.matches, Entered),
         \A i \in 1 .. Len(ed.matches) : ed.matches[i].decided, Len(ed.matches) \in {2, 4, 5}
  PROVE  CascadeRuns(ed.matches \o CascadeNext(ed), Entered)
<1> DEFINE ms == ed.matches
           d == CascadeNext(ed)
           W(j) == ms[j].winner
           L(j) == Loser(ms[j])
           R == [stage : Stage, round : Nat]
<1>1. \A i \in 1 .. Len(ms) : W(i) \in Entered /\ L(i) \in Entered
  <2> HIDE DEF ms
  <2> QED
    BY CascadeSides DEF ms
<1>2. CASE Len(ms) = 2
  <2> DEFINE ties == FirstTies
             s == <<W(1), W(2), L(1), L(2)>>
  <2>1. ties \in [1 .. 2 -> R] /\ ties[1].stage = "winners" /\ ties[1].round = 2
        /\ ties[2].stage = "losers" /\ ties[2].round = 1
    BY FirstTiesType
  <2>2. s \in [1 .. 4 -> StillIn(ed)]
    BY <1>1, <1>2
  <2>3. d = Drawn(ed, ties, s, InOrder(s))
    BY <1>2 DEF CascadeNext, FirstTies
  <2>4. s[1] = W(1) /\ s[2] = W(2) /\ s[3] = L(1) /\ s[4] = L(2)
    OBVIOUS
  <2>5. 2 \in Nat \ {0} /\ 4 \in Nat /\ 2 * 2 <= 4
    OBVIOUS
  <2> HIDE DEF ties, s, d, W, L
  <2>6. TwoByTwo(d, 2, ties, s, StillIn(ed))
    BY <2>1, <2>2, <2>3, <2>5, NoVacancy, Zenon
  <2>7. /\ ToPlay(d, Entered) /\ Len(d) = 2
        /\ d[1].stage = "winners" /\ d[1].round = 2 /\ d[1].home = W(1) /\ d[1].away = W(2)
        /\ d[2].stage = "losers" /\ d[2].round = 1 /\ d[2].home = L(1) /\ d[2].away = L(2)
    BY <2>1, <2>4, <2>6 DEF TwoByTwo
  <2>8. NextInCascade(Len(ms), d) /\ ClubsNext(ms, d)
    BY <1>2, <2>7 DEF NextInCascade, ClubsNext, W, L
  <2> QED
    BY <2>7, <2>8, CascadeExtended DEF d, Written
<1>3. CASE Len(ms) = 4
  <2> DEFINE ties == Ties("losers", 2, 1)
             s == <<L(3), W(4)>>
  <2>1. ties \in [1 .. 1 -> R] /\ ties[1].stage = "losers" /\ ties[1].round = 2
    BY DEF Stage, Ties
  <2>2. s \in [1 .. 2 -> StillIn(ed)]
    BY <1>1, <1>3
  <2>3. d = Drawn(ed, ties, s, InOrder(s))
    BY <1>3 DEF CascadeNext
  <2>4. s[1] = L(3) /\ s[2] = W(4)
    OBVIOUS
  <2>5. 1 \in Nat \ {0} /\ 2 \in Nat /\ 2 * 1 <= 2
    OBVIOUS
  <2> HIDE DEF ties, s, d, W, L
  <2>6. TwoByTwo(d, 1, ties, s, StillIn(ed))
    BY <2>1, <2>2, <2>3, <2>5, NoVacancy, Zenon
  <2>7. /\ ToPlay(d, Entered) /\ Len(d) = 1
        /\ d[1].stage = "losers" /\ d[1].round = 2 /\ d[1].home = L(3) /\ d[1].away = W(4)
    BY <2>1, <2>4, <2>6 DEF TwoByTwo
  <2>8. NextInCascade(Len(ms), d) /\ ClubsNext(ms, d)
    BY <1>3, <2>7 DEF NextInCascade, ClubsNext, W, L
  <2> QED
    BY <2>7, <2>8, CascadeExtended DEF d, Written
<1>4. CASE Len(ms) = 5
  <2> DEFINE ties == Ties("grand_final", 1, 1)
             s == <<W(3), W(5)>>
  <2>1. ties \in [1 .. 1 -> R] /\ ties[1].stage = "grand_final" /\ ties[1].round = 1
    BY DEF Stage, Ties
  <2>2. s \in [1 .. 2 -> StillIn(ed)]
    BY <1>1, <1>4
  <2>3. d = Drawn(ed, ties, s, InOrder(s))
    BY <1>4 DEF CascadeNext
  <2>4. s[1] = W(3) /\ s[2] = W(5)
    OBVIOUS
  <2>5. 1 \in Nat \ {0} /\ 2 \in Nat /\ 2 * 1 <= 2
    OBVIOUS
  <2> HIDE DEF ties, s, d, W, L
  <2>6. TwoByTwo(d, 1, ties, s, StillIn(ed))
    BY <2>1, <2>2, <2>3, <2>5, NoVacancy, Zenon
  <2>7. /\ ToPlay(d, Entered) /\ Len(d) = 1
        /\ d[1].stage = "grand_final" /\ d[1].round = 1 /\ d[1].home = W(3) /\ d[1].away = W(5)
    BY <2>1, <2>4, <2>6 DEF TwoByTwo
  <2>8. NextInCascade(Len(ms), d) /\ ClubsNext(ms, d)
    BY <1>4, <2>7 DEF NextInCascade, ClubsNext, W, L
  <2> QED
    BY <2>7, <2>8, CascadeExtended DEF d, Written
<1> QED
  BY <1>2, <1>3, <1>4

(* The first two matches of a cascade.                                     *)
LEMMA CascadeOpens ==
  ASSUME NEW d, Opening(d, "winners"), Rounds(d), Len(d) = 2, rules.format = "cascade"
  PROVE  CascadeRuns(d, Entered)
<1>1. /\ d \in Seq(MatchType)
      /\ \A k \in 1 .. Len(d) : /\ ~d[k].decided /\ {d[k].home, d[k].away} \subseteq Entered
                                /\ d[k].home # d[k].away /\ d[k].stage = "winners"
  BY DEF Opening, ToPlay
<1>2. 1 \in 1 .. Len(d) /\ 2 \in 1 .. Len(d) /\ 1 \in 1 .. 2 - 1 /\ Last(d) = d[2] /\ Len(d) > 0
  BY DEF Last
<1>3. InCascade(d)
  <2>1. Last(d).stage # "knockout"
    BY <1>1, <1>2
  <2> QED
    BY <1>2, <2>1 DEF Rounds
<1>4. Apart(d[1], d[2])
  <2>1. d[1].round = 1 /\ d[2].round = 1 /\ d[1].stage = "winners" /\ d[2].stage = "winners"
    BY <1>1, <1>2, <1>3 DEF InCascade, CascadeRound
  <2> QED
    BY <1>2, <2>1 DEF Rounds, Tidy, SameRound
<1>5. Len(d) \in {2, 4, 5, 6} /\ ~(Len(d) > 2) /\ ~(Len(d) > 4) /\ ~(Len(d) > 5)
  OBVIOUS
<1> QED
  BY <1>1, <1>3, <1>4, <1>5 DEF CascadeRuns

(* So a cascade runs to its end: what each step does to its matches.       *)
LEMMA CascadeProgress ==
  ASSUME EditionInv, NEW ed, GoesOnFrom(ed), status' = "in_progress", rules.format = "cascade",
         banned' = {}, CascadeRuns(matches, Entered)
  PROVE  CascadeRuns(matches', Entered)
<1> DEFINE w == ed.matches
<1>1. /\ Enrolled /\ Written(ed) /\ matches \in Seq(MatchType) /\ w \in Seq(MatchType)
      /\ Len(w) = Len(matches) /\ Kept(matches, w) /\ StillIn(ed) = Entered /\ Onward(ed) /\ Staged(w)
      /\ DOMAIN w = 1 .. Len(w) /\ Len(w) \in Nat
  BY LenProperties DEF EditionInv, TypeOK, Enrolled, GoesOnFrom, Going, Written
<1>2. CascadeRuns(w, Entered)
  <2>1. ASSUME NEW i \in 1 .. Len(matches), w[i].decided, ~matches[i].decided
        PROVE  w[i].winner \in {w[i].home, w[i].away}
    <3>1. Resulted(w[i])
      BY <2>1 DEF GoesOnFrom
    <3>2. w[i].stage = CascadeStage[i] /\ i \in {1, 2, 3, 4, 5, 6}
      BY <1>1 DEF Kept, CascadeRuns, InCascade
    <3>3. w[i].stage \notin {"groups", "league"}
      BY <3>2 DEF CascadeStage
    <3> QED
      BY <3>1, <3>3 DEF Resulted
  <2> HIDE DEF w
  <2> QED
    BY <1>1, <2>1, CascadeStays
<1>3. /\ Last(w) = w[Len(w)] /\ Last(w).stage = CascadeStage[Len(w)]
      /\ Len(w) \in {2, 4, 5, 6}
  <2>1. PICK n \in {2, 4, 5, 6} : Len(w) = n
    BY <1>2 DEF CascadeRuns
  <2>2. n \in 1 .. n
    OBVIOUS
  <2> HIDE DEF w
  <2> QED
    BY <1>2, <2>1, <2>2 DEF CascadeRuns, InCascade, Last
<1>4. Last(w).stage \in {"winners", "losers", "grand_final"}
  <2>1. \A n \in {2, 4, 5, 6} : CascadeStage[n] \in {"winners", "losers", "grand_final"}
    BY DEF CascadeStage
  <2> QED
    BY <1>3, <2>1
<1>5. CASE matches' = w
  BY <1>2, <1>5
<1>6. CASE /\ Open(w) = {} /\ Last(w).stage \in {"winners", "losers"}
           /\ Add(w, CascadeNext(ed))
  <2>1. matches' = w \o CascadeNext(ed) /\ Len(w) \in {2, 4, 5}
    BY <1>1, <1>6 DEF Add, Staged
  <2>2. \A i \in 1 .. Len(w) : w[i].decided
    BY <1>1, <1>6 DEF Open
  <2> QED
    BY <1>1, <1>2, <2>1, <2>2, CascadeRunsNext
<1>7. ~(\E c : Finish(w, c))
  BY DEF Finish
<1> QED
  BY <1>1, <1>4, <1>5, <1>6, <1>7 DEF Onward, AfterStage

LEMMA CascadeStep ==
  EditionInv /\ CascadeInv /\ [Next]_vars => CascadeInv'
<1> SUFFICES ASSUME EditionInv, CascadeInv, [Next]_vars,
                    status' = "in_progress", rules'.format = "cascade", banned' = {}
             PROVE  CascadeRuns(matches', Entered')
  BY DEF CascadeInv
<1>1. matches \in Seq(MatchType)
  BY DEF EditionInv, TypeOK
<1>2. ASSUME NEW ed, GoesOnFrom(ed), banned = {}
      PROVE  CascadeRuns(matches', Entered')
  <2>1. /\ rules.format = "cascade" /\ status = "in_progress" /\ Entered' = Entered
    BY <1>2 DEF GoesOnFrom, Entered
  <2>2. CascadeRuns(matches, Entered)
    BY <1>2, <2>1 DEF CascadeInv
  <2> QED
    BY <1>2, <2>1, <2>2, CascadeProgress
<1>3. CASE \E c \in Club : Register(c) \/ Withdraw(c)
  BY <1>3 DEF Register, Withdraw
<1>4. CASE AssignGroups
  BY <1>4 DEF AssignGroups
<1>5. CASE Start
  <2> DEFINE d == InitialFixtures(pool)
  <2>1. /\ Enrolled /\ Dealt(pool) /\ rules \in EditionType
    BY DEF EditionInv, TypeOK, Enrolled, Sizes
  <2>2. /\ IF rules.format = "league" THEN Len(entries) >= 2 ELSE Len(entries) = rules.capacity
        /\ matches' = d /\ rules.format = "cascade" /\ entries' = entries
    BY <1>5, <2>1 DEF Start, EditionType
  <2>3. Opening(d, "winners") /\ Rounds(d) /\ Len(d) = 2
    BY <2>1, <2>2, EditionOpens DEF FirstStage
  <2> HIDE DEF d
  <2>4. CascadeRuns(d, Entered)
    BY <2>2, <2>3, CascadeOpens
  <2> QED
    BY <2>2, <2>4 DEF Entered
<1>6. CASE \E i \in DOMAIN matches : SetGoalkeepers(i) \/ KickoffMatch(i)
  <2>1. PICK i \in DOMAIN matches : SetGoalkeepers(i) \/ KickoffMatch(i)
    BY <1>6
  <2>2. /\ EditionInv' /\ Kept(matches, matches') /\ Len(matches') = Len(matches)
        /\ \A j \in 1 .. Len(matches) : matches'[j].decided = matches[j].decided
        /\ UNCHANGED <<rules, status, entries, banned>>
    BY <2>1, MarkStep
  <2>3. CascadeRuns(matches, Entered) /\ Entered' = Entered /\ matches' \in Seq(MatchType)
    BY <2>2 DEF CascadeInv, Entered, EditionInv, TypeOK
  <2>4. \A j \in 1 .. Len(matches) :
          matches'[j].decided /\ ~matches[j].decided =>
            matches'[j].winner \in {matches'[j].home, matches'[j].away}
    BY <2>2
  <2> QED
    BY <1>1, <2>2, <2>3, <2>4, CascadeStays
<1>7. CASE \E i \in DOMAIN matches : Result(i)
  <2>1. PICK i \in DOMAIN matches : Result(i)
    BY <1>7
  <2>2. \A score, winner : Score(i, score, winner) \/ Walkover(i, winner) => banned' = banned
    BY DEF Score, Walkover
  <2>3. banned = {}
    BY <2>1, <2>2 DEF Result
  <2> QED
    BY <1>2, <2>1, <2>3, ResultGoesOn
<1>8. CASE \E S \in SUBSET Club : Disqualify(S) \/ \E points \in Penalty : TakePoints(S, points)
  <2>1. banned = {}
    BY <1>8 DEF Disqualify, TakePoints
  <2> QED
    BY <1>2, <1>8, <2>1, PunishmentGoesOn
<1>9. CASE UNCHANGED vars
  BY <1>9 DEF vars, CascadeInv, Entered
<1> QED
  BY <1>3, <1>4, <1>5, <1>6, <1>7, <1>8, <1>9 DEF Next

-----------------------------------------------------------------------------
(* Everybody meets *)

(* What a match counts for: with one at each home, whose home it is too.   *)
Meeting(p) == IF rules.homeAndAway THEN p ELSE {p[1], p[2]}

Met(m) == Meeting(<<m.home, m.away>>)

(* The places of the matches of tables.                                    *)
InTables(ms) == {i \in 1 .. Len(ms) : ms[i].stage \in {"league", "groups"}}

(* In its tables every pair of P meets, once, and nobody else.             *)
AllMeet(ms, P) ==
  /\ \A i \in InTables(ms) : <<ms[i].home, ms[i].away>> \in P
  /\ \A p \in P : \E i \in InTables(ms) : Met(ms[i]) = Meeting(p)
  /\ \A i, j \in InTables(ms) : Met(ms[i]) = Met(ms[j]) => i = j

(* Who meets: all in a league, the clubs of each group in the groups.      *)
Opponents(groups) ==
  {f \in Entered \X Entered :
     f[1] # f[2] /\ (rules.format # "league" => PoolOf(groups, f[1]) = PoolOf(groups, f[2]))}

(* In a league all meet all, once or once at each home.                    *)
LEMMA LeagueMeets ==
  ASSUME Enrolled, Len(entries) >= 2, rules.format = "league", NEW groups
  PROVE  AllMeet(LeagueFixtures, Opponents(groups))
<1> DEFINE ms == LeagueFixtures
<1>1. /\ Len(ms) \in Nat
      /\ \A i \in 1 .. Len(ms) : /\ ms[i].stage = "league" /\ ms[i].home # ms[i].away
                                 /\ ms[i].home \in Entered /\ ms[i].away \in Entered
  BY LeagueOpens, LenProperties DEF Opening, ToPlay
<1>2. PICK legs : /\ Opening(legs, "league") /\ PairsOnce(legs)
                  /\ IF rules.homeAndAway THEN Doubled(ms, legs) ELSE ms = legs
  BY LeagueOpens DEF OnceOrTwice
<1>3. Len(legs) \in Nat /\ \A k \in 1 .. Len(legs) : legs[k].home # legs[k].away
  BY <1>2, LenProperties DEF Opening, ToPlay
<1> HIDE DEF ms
<1>4. InTables(ms) = 1 .. Len(ms)
  BY <1>1 DEF InTables
<1>5. ASSUME NEW i \in 1 .. Len(ms)
      PROVE  <<ms[i].home, ms[i].away>> \in Opponents(groups)
  BY <1>1 DEF Opponents
<1>6. CASE ~rules.homeAndAway
  <2>1. \A p : Meeting(p) = {p[1], p[2]}
    BY <1>6 DEF Meeting
  <2>2. \A i \in 1 .. Len(ms) : Met(ms[i]) = {ms[i].home, ms[i].away}
    BY <2>1 DEF Met
  <2>3. ASSUME NEW p \in Opponents(groups)
        PROVE  \E i \in 1 .. Len(ms) : Met(ms[i]) = Meeting(p)
    <3>1. p[1] \in Entered /\ p[2] \in Entered /\ p[1] # p[2]
      BY DEF Opponents
    <3>2. PICK i \in 1 .. Len(ms) : {ms[i].home, ms[i].away} = {p[1], p[2]}
      BY <1>2, <1>6, <3>1 DEF PairsOnce
    <3> QED
      BY <2>1, <2>2, <3>2
  <2>4. \A i, j \in 1 .. Len(ms) : Met(ms[i]) = Met(ms[j]) => i = j
    <3>1. \A i, j \in 1 .. Len(ms) : {ms[i].home, ms[i].away} = {ms[j].home, ms[j].away} => i = j
      BY <1>2, <1>6 DEF PairsOnce
    <3> QED
      BY <2>2, <3>1
  <2> QED
    BY <1>4, <1>5, <2>3, <2>4 DEF AllMeet, ms
<1>7. CASE rules.homeAndAway
  <2> DEFINE n == Len(legs)
  <2>1. /\ Len(ms) = n + n /\ n \in Nat
        /\ \A k \in 1 .. n : /\ ms[k].home = legs[k].home /\ ms[k].away = legs[k].away
                             /\ ms[n + k].home = legs[k].away /\ ms[n + k].away = legs[k].home
                             /\ legs[k].home # legs[k].away
    BY <1>2, <1>3, <1>7 DEF Doubled
  <2>2. /\ \A a, b \in Entered : a # b => \E k \in 1 .. n : {legs[k].home, legs[k].away} = {a, b}
        /\ \A j, k \in 1 .. n :
             {legs[j].home, legs[j].away} = {legs[k].home, legs[k].away} => j = k
    BY <1>2 DEF PairsOnce
  <2> HIDE DEF n
  <2>3. \A p : Meeting(p) = p
    BY <1>7 DEF Meeting
  <2>4. \A i : Met(ms[i]) = <<ms[i].home, ms[i].away>>
    BY <2>3 DEF Met
  <2>5. ASSUME NEW p \in Opponents(groups)
        PROVE  \E i \in 1 .. Len(ms) : Met(ms[i]) = Meeting(p)
    <3>1. p[1] \in Entered /\ p[2] \in Entered /\ p[1] # p[2] /\ p = <<p[1], p[2]>>
      BY DEF Opponents
    <3>2. PICK k \in 1 .. n : {legs[k].home, legs[k].away} = {p[1], p[2]}
      BY <2>2, <3>1
    <3>3. k \in 1 .. Len(ms) /\ n + k \in 1 .. Len(ms)
      BY <2>1
    <3>4. \/ legs[k].home = p[1] /\ legs[k].away = p[2]
          \/ legs[k].home = p[2] /\ legs[k].away = p[1]
      BY <2>1, <3>1, <3>2
    <3>5. Met(ms[k]) = p \/ Met(ms[n + k]) = p
      BY <2>1, <2>4, <3>1, <3>4
    <3> QED
      BY <2>3, <3>3, <3>5
  <2>6. ASSUME NEW i \in 1 .. Len(ms)
        PROVE  \E k \in 1 .. n : /\ i = k \/ i = n + k
                                 /\ i = k => ms[i].home = legs[k].home /\ ms[i].away = legs[k].away
                                 /\ i # k => ms[i].home = legs[k].away /\ ms[i].away = legs[k].home
    <3>1. CASE i <= n
      <4>1. i \in 1 .. n
        BY <2>1, <3>1
      <4> QED
        BY <2>1, <4>1
    <3>2. CASE i > n
      <4>1. i - n \in 1 .. n /\ n + (i - n) = i /\ i # i - n
        BY <2>1, <3>2
      <4> QED
        BY <2>1, <4>1
    <3> QED
      BY <2>1, <3>1, <3>2
  <2>7. ASSUME NEW i \in 1 .. Len(ms), NEW j \in 1 .. Len(ms), Met(ms[i]) = Met(ms[j])
        PROVE  i = j
    <3>1. ms[i].home = ms[j].home /\ ms[i].away = ms[j].away
      BY <2>4, <2>7
    <3>2. PICK h \in 1 .. n : /\ i = h \/ i = n + h
                              /\ i = h => ms[i].home = legs[h].home /\ ms[i].away = legs[h].away
                              /\ i # h => ms[i].home = legs[h].away /\ ms[i].away = legs[h].home
      BY <2>6
    <3>3. PICK k \in 1 .. n : /\ j = k \/ j = n + k
                              /\ j = k => ms[j].home = legs[k].home /\ ms[j].away = legs[k].away
                              /\ j # k => ms[j].home = legs[k].away /\ ms[j].away = legs[k].home
      BY <2>6
    <3>4. {legs[h].home, legs[h].away} = {legs[k].home, legs[k].away}
      BY <3>1, <3>2, <3>3
    <3>5. h = k
      BY <2>2, <3>4
    <3>6. (i = h <=> j = k)
      BY <2>1, <3>1, <3>2, <3>3, <3>5
    <3> QED
      BY <3>2, <3>3, <3>5, <3>6
  <2> QED
    BY <1>4, <1>5, <2>5, <2>7 DEF AllMeet, ms
<1> QED
  BY <1>6, <1>7 DEF ms

(* In the groups all of a group meet all, once.                            *)
LEMMA GroupsMeet ==
  ASSUME Enrolled, Full, rules.format = "groups_knockout", NEW groups, Dealt(groups)
  PROVE  AllMeet(GroupFixtures(groups), Opponents(groups))
<1> DEFINE ms == GroupFixtures(groups)
<1>1. /\ Len(ms) \in Nat /\ BySeed(ms, groups)
      /\ \A i \in 1 .. Len(ms) : /\ ms[i].stage = "groups" /\ ms[i].home # ms[i].away
                                 /\ ms[i].home \in Entered /\ ms[i].away \in Entered
  BY GroupsOpen, LenProperties DEF Opening, ToPlay
<1> HIDE DEF ms
<1>2. InTables(ms) = 1 .. Len(ms)
  BY <1>1 DEF InTables
<1>3. /\ \A p : Meeting(p) = {p[1], p[2]}
      /\ \A i : Met(ms[i]) = {ms[i].home, ms[i].away}
  BY DEF Full, EditionType, Meeting, Met
<1>4. \A c \in Entered : Seed(c) \in Int
  BY Seeds
<1>5. \A i \in 1 .. Len(ms) : <<ms[i].home, ms[i].away>> \in Opponents(groups)
  BY <1>1 DEF BySeed, Opponents
<1>6. ASSUME NEW p \in Opponents(groups)
      PROVE  \E i \in 1 .. Len(ms) : Met(ms[i]) = Meeting(p)
  <2>1. /\ p[1] \in Entered /\ p[2] \in Entered /\ p[1] # p[2]
        /\ PoolOf(groups, p[1]) = PoolOf(groups, p[2])
    BY DEF Opponents
  <2>2. Seed(p[1]) < Seed(p[2]) \/ Seed(p[2]) < Seed(p[1])
    <3>1. Seed(p[1]) # Seed(p[2])
      BY <2>1, Seeds
    <3> QED
      BY <1>4, <2>1, <3>1
  <2>3. PICK i \in 1 .. Len(ms) : \/ ms[i].home = p[1] /\ ms[i].away = p[2]
                                  \/ ms[i].home = p[2] /\ ms[i].away = p[1]
    BY <1>1, <2>1, <2>2 DEF BySeed
  <2> QED
    BY <1>3, <2>3
<1>7. ASSUME NEW i \in 1 .. Len(ms), NEW j \in 1 .. Len(ms), Met(ms[i]) = Met(ms[j])
      PROVE  i = j
  <2>1. {ms[i].home, ms[i].away} = {ms[j].home, ms[j].away}
    BY <1>3, <1>7
  <2>2. /\ Seed(ms[i].home) < Seed(ms[i].away) /\ Seed(ms[j].home) < Seed(ms[j].away)
        /\ Seed(ms[i].home) \in Int /\ Seed(ms[i].away) \in Int
    BY <1>1, <1>4 DEF BySeed
  <2>3. ~(ms[i].home = ms[j].away /\ ms[i].away = ms[j].home)
    BY <2>2
  <2>4. ms[i].home = ms[j].home /\ ms[i].away = ms[j].away
    BY <1>1, <2>1, <2>3
  <2> QED
    BY <1>1, <2>4 DEF BySeed
<1> QED
  BY <1>2, <1>5, <1>6, <1>7 DEF AllMeet, ms

(* Who meets in the first matches of an edition with tables.               *)
LEMMA TablesOpen ==
  ASSUME Enrolled, rules \in EditionType, rules.format \in {"league", "groups_knockout"},
         IF rules.format = "league" THEN Len(entries) >= 2 ELSE Len(entries) = rules.capacity,
         NEW groups, Dealt(groups)
  PROVE  AllMeet(InitialFixtures(groups), Opponents(groups))
<1>1. CASE rules.format = "league"
  BY <1>1, LeagueMeets DEF InitialFixtures
<1>2. CASE rules.format = "groups_knockout"
  <2>1. Full /\ InitialFixtures(groups) = GroupFixtures(groups)
    BY <1>2 DEF Full, InitialFixtures
  <2> QED
    BY <1>2, <2>1, GroupsMeet
<1> QED
  BY <1>1, <1>2

(* Matches of a knockout are none of a table.                              *)
LEMMA TablesStay ==
  ASSUME NEW old \in Seq(MatchType), NEW new \in Seq(MatchType), NEW P, Kept(old, new),
         \A i \in 1 .. Len(new) : i > Len(old) => new[i].stage = "knockout", AllMeet(old, P)
  PROVE  AllMeet(new, P)
<1>1. Len(old) \in Nat /\ Len(new) \in Nat /\ Len(old) <= Len(new)
  BY LenProperties DEF Kept
<1>2. \A i \in 1 .. Len(old) : /\ new[i].home = old[i].home /\ new[i].away = old[i].away
                               /\ new[i].stage = old[i].stage
  BY DEF Kept
<1>3. InTables(new) = InTables(old)
  BY <1>1, <1>2 DEF InTables
<1>4. \A i \in InTables(old) : /\ new[i].home = old[i].home /\ new[i].away = old[i].away
                               /\ Met(new[i]) = Met(old[i])
  BY <1>2 DEF InTables, Met
<1> QED
  BY <1>3, <1>4 DEF AllMeet

(* Only rounds of a knockout follow the tables.                            *)
LEMMA OnlyRoundsFollow ==
  ASSUME EditionInv, NEW ed, GoesOnFrom(ed), rules.format \in {"league", "groups_knockout"}
  PROVE  /\ EditionInv' /\ Kept(matches, matches')
         /\ \A i \in 1 .. Len(matches') : i > Len(matches) => matches'[i].stage = "knockout"
<1> DEFINE w == ed.matches
<1>1. EditionInv' /\ Kept(matches, matches')
  BY ProgressStep
<1>2. /\ matches \in Seq(MatchType) /\ matches' \in Seq(MatchType) /\ w \in Seq(MatchType)
      /\ Len(w) = Len(matches) /\ Len(matches) \in Nat /\ DOMAIN matches' = 1 .. Len(matches')
      /\ Kept(matches, w) /\ Staged(w) /\ Len(w) > 0
  BY <1>1, LenProperties DEF EditionInv, TypeOK, GoesOnFrom, Going, Written, Staged
<1> SUFFICES ASSUME NEW i \in 1 .. Len(matches'), i > Len(matches)
             PROVE  matches'[i].stage = "knockout"
  BY <1>1
<1>3. NewOnes # {}
  BY <1>2 DEF NewOnes
<1>4. matches' # w
  BY <1>2
<1>5. Last(w).stage = Last(matches).stage
  BY <1>2 DEF Kept, Last
<1>6. /\ status' = "in_progress" /\ Last(matches).stage \in {"groups", "knockout"}
  <2>1. \A c : ~Finish(w, c)
    BY <1>4 DEF Finish
  <2>2. AfterStage(ed, Last(w)) /\ status = "in_progress"
    BY <1>4, <2>1 DEF GoesOnFrom, Onward
  <2>3. Last(w).stage \notin {"winners", "losers"}
    BY <1>2 DEF Staged
  <2> HIDE DEF w
  <2>4. Last(w).stage \in {"groups", "knockout"} /\ \E d : Add(w, d)
    BY <2>1, <2>2, <2>3 DEF AfterStage, w
  <2> QED
    BY <1>5, <2>2, <2>4 DEF Add
<1>7. /\ Enrolled /\ Written(ed) /\ Len(w) > 0 /\ Rounds(w)
      /\ Cardinality(StillIn(ed)) \in 2 .. 16
      /\ \/ /\ Last(w).stage = "groups" /\ rules.format = "groups_knockout"
            /\ matches' = w \o FromGroups(ed)
         \/ /\ Last(w).stage = "knockout" /\ Len(Winners(w)) # 1
            /\ matches' = w \o FromKnockout(ed)
  BY <1>3, <1>5, <1>6, NextRound
<1>8. ASSUME NEW d, ToPlay(d, StillIn(ed)), NewRound(w, d), matches' = w \o d
      PROVE  matches'[i].stage = "knockout"
  <2>1. d \in Seq(MatchType) /\ Len(d) > 0
    BY <1>8 DEF ToPlay
  <2> HIDE DEF w
  <2>2. i - Len(w) \in 1 .. Len(d) /\ matches'[Len(w) + (i - Len(w))] = d[i - Len(w)]
    BY <1>2, <1>8, <2>1, Added
  <2>3. Len(w) + (i - Len(w)) = i
    BY <1>2
  <2> QED
    BY <1>8, <2>2, <2>3 DEF NewRound
<1>9. CASE Last(w).stage = "groups" /\ rules.format = "groups_knockout" /\ matches' = w \o FromGroups(ed)
  <2>1. PICK K \in {1, 2, 4} : Groups = 1 .. K /\ (Len(entries) = 12 => K = 4)
    BY <1>7, <1>9, GroupsOfTheEdition DEF EditionInv, GoesOnFrom
  <2>2. \A j \in 1 .. Len(w) : w[j].stage # "knockout"
    BY <1>7, <1>9 DEF Rounds
  <2> QED
    BY <1>7, <1>8, <1>9, <2>1, <2>2, GroupsGoOn
<1>10. CASE Last(w).stage = "knockout" /\ Len(Winners(w)) # 1 /\ matches' = w \o FromKnockout(ed)
  BY <1>7, <1>8, <1>10, KnockoutGoesOn
<1> QED
  BY <1>7, <1>9, <1>10

(* From the start on everybody meets, as the pools are.                    *)
TablesInv ==
  status # "registration" /\ rules.format \in {"league", "groups_knockout"} =>
    AllMeet(matches, Opponents(pool))

(* What becomes of the opponents when clubs and groups are as they were.   *)
LEMMA OpponentsStay ==
  ASSUME entries' = entries, rules'.format = rules.format, rules'.homeAndAway = rules.homeAndAway,
         rules.format # "league" => rules' = rules, AllMeet(matches', Opponents(pool'))
  PROVE  AllMeet(matches, Opponents(pool))'
<1>1. Entered' = Entered /\ \A c : Seed(c)' = Seed(c)
  BY DEF Entered, Seed
<1>2. Opponents(pool)' = Opponents(pool')
  <2>1. CASE rules.format = "league"
    BY <1>1, <2>1 DEF Opponents
  <2>2. CASE rules.format # "league"
    <3>1. GroupSize' = GroupSize
      BY <2>2 DEF GroupSize
    <3>2. \A c : PoolOf(pool, c)' = PoolOf(pool', c)
      BY <1>1, <3>1 DEF PoolOf
    <3> QED
      BY <1>1, <2>2, <3>2 DEF Opponents
  <2> QED
    BY <2>1, <2>2
<1>3. InTables(matches)' = InTables(matches')
  BY DEF InTables
<1>4. (\A p : Meeting(p)' = Meeting(p)) /\ \A i : Met(matches[i])' = Met(matches'[i])
  BY DEF Meeting, Met
<1> QED
  BY <1>2, <1>3, <1>4 DEF AllMeet

(* Every step keeps it: the start and new groups make the fixtures, and    *)
(* whatever else adds matches adds rounds of the knockout.                 *)
LEMMA TablesStep ==
  EditionInv /\ TablesInv /\ [Next]_vars => TablesInv'
<1> SUFFICES ASSUME EditionInv, TablesInv, [Next]_vars, status' # "registration",
                    rules'.format \in {"league", "groups_knockout"}
             PROVE  AllMeet(matches, Opponents(pool))'
  BY DEF TablesInv
<1>1. TypeOK /\ matches \in Seq(MatchType) /\ matches' \in Seq(MatchType) /\ EditionInv'
  BY EditionStep DEF EditionInv, TypeOK
<1>2. ASSUME UNCHANGED <<rules, entries, pool>>, status # "registration", Kept(matches, matches'),
             \A i \in 1 .. Len(matches') : i > Len(matches) => matches'[i].stage = "knockout"
      PROVE  AllMeet(matches, Opponents(pool))'
  <2>1. AllMeet(matches, Opponents(pool))
    BY <1>2 DEF TablesInv
  <2>2. AllMeet(matches', Opponents(pool))
    BY <1>1, <1>2, <2>1, TablesStay
  <2>3. AllMeet(matches', Opponents(pool'))
    BY <1>2, <2>2
  <2> QED
    BY <1>2, <2>3, OpponentsStay
<1>3. ASSUME matches' = InitialFixtures(pool'), entries' = entries, rules'.format = rules.format,
             rules'.homeAndAway = rules.homeAndAway, rules.format # "league" => rules' = rules,
             IF rules.format = "league" THEN Len(entries) >= 2 ELSE Len(entries) = rules.capacity
      PROVE  AllMeet(matches, Opponents(pool))'
  <2>1. Enrolled /\ rules \in EditionType /\ rules.format \in {"league", "groups_knockout"}
    BY <1>1, <1>3 DEF TypeOK, Enrolled
  <2>2. Dealt(pool')
    <3>1. Dealt(pool)'
      BY <1>1 DEF EditionInv, Sizes
    <3>2. Entered' = Entered
      BY <1>3 DEF Entered
    <3>3. CASE rules.format = "league"
      <4>1. pool' = [c \in Club |-> 0]
        BY <1>1, <1>3, <3>3 DEF EditionInv, Sizes
      <4> QED
        BY <4>1 DEF Dealt
    <3>4. CASE rules.format # "league"
      <4>1. rules' = rules /\ GroupSize' = GroupSize
        BY <1>3, <3>4 DEF GroupSize
      <4> QED
        BY <3>1, <3>2, <4>1 DEF Dealt
    <3> QED
      BY <3>3, <3>4
  <2>3. AllMeet(InitialFixtures(pool'), Opponents(pool'))
    BY <1>3, <2>1, <2>2, TablesOpen
  <2> QED
    BY <1>3, <2>3, OpponentsStay
<1>4. CASE \E c \in Club : Register(c) \/ Withdraw(c)
  BY <1>4 DEF Register, Withdraw
<1>5. CASE AssignGroups
  <2>1. /\ rules.format = "groups_knockout" /\ Len(entries) = rules.capacity
        /\ UNCHANGED <<rules, status, entries>> /\ status # "finished"
    BY <1>5 DEF AssignGroups
  <2>2. status = "in_progress"
    BY <1>1, <2>1 DEF TypeOK
  <2>3. matches' = InitialFixtures(pool')
    BY <1>5, <2>2 DEF AssignGroups, Redrawn
  <2> QED
    BY <1>3, <2>1, <2>3
<1>6. CASE Start
  <2>1. /\ matches' = InitialFixtures(pool) /\ UNCHANGED <<entries, pool>>
        /\ rules' = [rules EXCEPT !.capacity = Len(entries)]
        /\ IF rules.format = "league" THEN Len(entries) >= 2 ELSE Len(entries) = rules.capacity
    BY <1>6 DEF Start
  <2>2. /\ rules'.format = rules.format /\ rules'.homeAndAway = rules.homeAndAway
        /\ rules.format # "league" => rules' = rules
    BY <1>1, <2>1 DEF TypeOK, EditionType
  <2> QED
    BY <1>3, <2>1, <2>2
<1>7. CASE \E i \in DOMAIN matches : SetGoalkeepers(i) \/ KickoffMatch(i)
  <2>1. PICK i \in DOMAIN matches : SetGoalkeepers(i) \/ KickoffMatch(i)
    BY <1>7
  <2>2. UNCHANGED <<rules, entries, pool>> /\ status = "in_progress"
    BY <2>1 DEF SetGoalkeepers, KickoffMatch, Editable
  <2>3. Kept(matches, matches') /\ Len(matches') = Len(matches) /\ Len(matches) \in Nat
    BY <1>1, <2>1, MarkStep, LenProperties
  <2> QED
    BY <1>2, <2>2, <2>3
<1>8. ASSUME NEW ed, GoesOnFrom(ed)
      PROVE  AllMeet(matches, Opponents(pool))'
  <2>1. UNCHANGED <<rules, entries, pool>> /\ status = "in_progress"
    BY <1>8 DEF GoesOnFrom
  <2>2. /\ Kept(matches, matches')
        /\ \A i \in 1 .. Len(matches') : i > Len(matches) => matches'[i].stage = "knockout"
    BY <1>8, <2>1, OnlyRoundsFollow
  <2> QED
    BY <1>2, <2>1, <2>2
<1>9. CASE \E i \in DOMAIN matches : Result(i)
  BY <1>8, <1>9, ResultGoesOn
<1>10. CASE \E S \in SUBSET Club : Disqualify(S) \/ \E points \in Penalty : TakePoints(S, points)
  BY <1>8, <1>10, PunishmentGoesOn
<1>11. CASE UNCHANGED vars
  <2>1. /\ UNCHANGED <<rules, entries, pool, matches>> /\ status # "registration"
    BY <1>11 DEF vars
  <2>2. Len(matches) \in Nat /\ Kept(matches, matches')
    BY <1>1, <2>1, LenProperties DEF Kept
  <2> QED
    BY <1>2, <2>1, <2>2
<1> QED
  BY <1>4, <1>5, <1>6, <1>7, <1>9, <1>10, <1>11 DEF Next

(* Every group has as many clubs.                                          *)
LEMMA GroupsAreEqual ==
  ASSUME Enrolled, Full, NEW groups, Dealt(groups), NEW c \in Entered
  PROVE  Cardinality({d \in Entered : PoolOf(groups, d) = PoolOf(groups, c)}) = GroupSize
<1> DEFINE last == rules.capacity \div GroupSize
           G == GroupSize
           S == {d \in Entered : PoolOf(groups, d) = PoolOf(groups, c)}
<1>1. /\ rules.capacity \in {4, 8, 12, 16} /\ Len(entries) = rules.capacity
      /\ G = IF rules.capacity = 12 THEN 3 ELSE 4
      /\ last \in Nat /\ last * G = rules.capacity /\ G \in Nat \ {0}
      /\ last = IF rules.capacity = 4 THEN 1 ELSE IF rules.capacity = 8 THEN 2 ELSE 4
  BY FullSizes
<1>2. /\ \A d \in Entered : Seed(d) \in 1 .. Len(entries) /\ entries[Seed(d)] = d /\ d \in Club
      /\ \A i \in 1 .. Len(entries) : entries[i] \in Entered /\ Seed(entries[i]) = i
  BY Seeds
<1> HIDE DEF last, G
<1>3. CASE groups = [d \in Club |-> 0]
  <2> DEFINE n == Seed(c) - 1
             q == n \div G
             f == [i \in 1 .. G |-> entries[G * q + i]]
  <2>1. \A d \in Entered : PoolOf(groups, d) = 1 + (Seed(d) - 1) \div G
    BY <1>2, <1>3 DEF PoolOf, G
  <2>2. n \in Nat /\ n < last * G
    BY <1>1, <1>2
  <2>3. ASSUME NEW d \in Entered
        PROVE  Seed(d) - 1 \in Nat /\ (Seed(d) - 1) \div G \in Nat
    <3>1. Seed(d) - 1 \in Nat
      BY <1>1, <1>2
    <3> QED
      BY <1>1, <3>1, PartAndPlace
  <2> HIDE DEF n
  <2>4. q \in Nat /\ n = G * q + (n % G) /\ n % G \in 0 .. G - 1
    BY <1>1, <2>2, PartAndPlace
  <2>5. S = {d \in Entered : (Seed(d) - 1) \div G = q}
    BY <2>1, <2>3, <2>4 DEF n
  <2> HIDE DEF q, S
  <2>6. \A i \in 1 .. G : G * q + i \in 1 .. Len(entries)
    <3>1. q < last
      <4> SUFFICES ASSUME q >= last PROVE FALSE
        BY <1>1, <2>4
      <4>1. q \in Nat /\ last \in Nat /\ G \in Nat
        BY <1>1, <2>4
      <4>2. G * q >= G * last /\ G * last = last * G
        BY <4>1
      <4> QED
        BY <1>1, <2>2, <2>4, <4>2
    <3>2. G * q + G <= last * G /\ G * q \in Nat
      <4>1. G * (q + 1) <= last * G /\ G * (q + 1) = G * q + G
        BY <1>1, <2>4, <3>1
      <4> QED
        BY <1>1, <2>4, <4>1
    <3> QED
      BY <1>1, <3>2
  <2>7. ASSUME NEW i \in 1 .. G
        PROVE  f[i] \in Entered /\ Seed(f[i]) = G * q + i /\ f[i] \in S
    <3>1. f[i] \in Entered /\ Seed(f[i]) = G * q + i
      BY <1>2, <2>6
    <3> DEFINE before == Seed(f[i]) - 1
               place == i - 1
    <3>2. place \in 0 .. G - 1 /\ before = G * q + place
      <4> HIDE DEF f
      <4> QED
        BY <1>1, <2>4, <3>1
    <3> HIDE DEF f, before, place
    <3>3. before \div G = q
      BY <1>1, <2>4, <3>2, PlaceInPart
    <3> QED
      BY <2>5, <3>1, <3>3 DEF before
  <2>8. ASSUME NEW d \in S
        PROVE  \E i \in 1 .. G : f[i] = d
    <3> DEFINE m == Seed(d) - 1
    <3>1. d \in Entered /\ m \in Nat /\ m \div G = q
      BY <2>3, <2>5
    <3> HIDE DEF m
    <3>2. m % G \in 0 .. G - 1 /\ m = G * q + (m % G)
      BY <1>1, <3>1, PartAndPlace
    <3> DEFINE i == 1 + (m % G)
    <3>3. i \in 1 .. G /\ G * q + i = m + 1
      BY <1>1, <2>4, <3>1, <3>2
    <3> HIDE DEF i
    <3>4. Seed(d) = G * q + i
      BY <1>2, <3>1, <3>3 DEF m
    <3>5. f[i] = entries[G * q + i]
      BY <3>3
    <3> QED
      BY <1>2, <3>1, <3>3, <3>4, <3>5
  <2>9. f \in [1 .. G -> S]
    BY <2>7
  <2>10. IsInjective(f)
    <3> SUFFICES ASSUME NEW i \in 1 .. G, NEW j \in 1 .. G, f[i] = f[j] PROVE i = j
      BY DEF IsInjective
    <3>1. G * q + i = G * q + j
      BY <2>7
    <3> QED
      BY <1>1, <2>4, <3>1
  <2> HIDE DEF f
  <2>11. Range(f) = S
    BY <2>8, <2>9 DEF Range
  <2>12. Cardinality(Range(f)) = Cardinality(1 .. G)
    BY <1>1, <2>9, <2>10, UpTo, FiniteRange
  <2> QED
    BY <1>1, <2>11, <2>12, UpTo DEF S, G
<1>4. CASE /\ groups \in [Club -> 0 .. 4]
           /\ \A d \in Entered : groups[d] \in 1 .. last
           /\ \A g \in 1 .. last : Cardinality({d \in Entered : groups[d] = g}) = GroupSize
  <2>1. \A d \in Entered : PoolOf(groups, d) = groups[d]
    BY <1>1, <1>4 DEF PoolOf
  <2>2. S = {d \in Entered : groups[d] = groups[c]}
    BY <2>1
  <2> HIDE DEF S
  <2> QED
    BY <1>4, <2>2 DEF S
<1> QED
  BY <1>3, <1>4 DEF Dealt, last

(* What the invariant says of the pairs is what the property says.         *)
LEMMA TablesAreComplete ==
  ASSUME EditionInv, TablesInv
  PROVE  EveryoneMeets
<1> SUFFICES ASSUME status # "registration", rules.format \in {"league", "groups_knockout"}
             PROVE  LET group == [c \in Entered |-> IF rules.format = "league" THEN 0 ELSE PoolOf(pool, c)]
                        pairs == {f \in Entered \X Entered : f[1] # f[2] /\ group[f[1]] = group[f[2]]}
                        Counting(p) == IF rules.homeAndAway THEN p ELSE {p[1], p[2]}
                        meetings == {Counting(p) : p \in pairs}
                    IN /\ {Counting(<<matches[i].home, matches[i].away>>) : i \in TableMatches} = meetings
                       /\ Cardinality(TableMatches) = Cardinality(meetings)
                       /\ rules.format = "groups_knockout" =>
                            \A c \in Entered : Cardinality({d \in Entered : group[d] = group[c]}) = GroupSize
  BY DEF EveryoneMeets
<1> DEFINE group == [c \in Entered |-> IF rules.format = "league" THEN 0 ELSE PoolOf(pool, c)]
           pairs == {f \in Entered \X Entered : f[1] # f[2] /\ group[f[1]] = group[f[2]]}
           meetings == {Meeting(p) : p \in pairs}
           met == [i \in TableMatches |-> Met(matches[i])]
<1>1. /\ AllMeet(matches, Opponents(pool)) /\ Enrolled /\ Len(matches) \in Nat
      /\ DOMAIN matches = 1 .. Len(matches)
  BY LenProperties DEF EditionInv, TypeOK, Enrolled, TablesInv
<1>2. TableMatches = InTables(matches) /\ TableMatches \subseteq 1 .. Len(matches)
  BY <1>1 DEF TableMatches, InTables
<1>3. pairs = Opponents(pool)
  <2>1. CASE rules.format = "league"
    BY <2>1 DEF Opponents
  <2>2. CASE rules.format # "league"
    <3>1. \A c \in Entered : group[c] = PoolOf(pool, c)
      BY <2>2
    <3> HIDE DEF group
    <3> QED
      BY <2>2, <3>1 DEF Opponents
  <2> QED
    BY <2>1, <2>2
<1>4. IsFiniteSet(TableMatches)
  BY <1>1, <1>2, UpTo, FS_Subset
<1> HIDE DEF pairs
<1>5. \A i \in TableMatches : Met(matches[i]) \in meetings
  <2> SUFFICES ASSUME NEW i \in TableMatches PROVE Met(matches[i]) \in meetings
    OBVIOUS
  <2>1. <<matches[i].home, matches[i].away>> \in pairs
    BY <1>1, <1>2, <1>3 DEF AllMeet
  <2> QED
    BY <2>1 DEF Met
<1>6. \A m \in meetings : \E i \in TableMatches : Met(matches[i]) = m
  BY <1>1, <1>2, <1>3 DEF AllMeet
<1> HIDE DEF meetings
<1>7. met \in [TableMatches -> meetings] /\ IsInjective(met)
  <2>1. \A i, j \in TableMatches : Met(matches[i]) = Met(matches[j]) => i = j
    BY <1>1, <1>2 DEF AllMeet
  <2> QED
    BY <1>5, <2>1 DEF IsInjective
<1>8. Range(met) = meetings
  BY <1>5, <1>6 DEF Range
<1>9. Cardinality(meetings) = Cardinality(TableMatches)
  <2> HIDE DEF met
  <2> QED
    BY <1>4, <1>7, <1>8, FiniteRange
<1>10. {Met(matches[i]) : i \in TableMatches} = meetings
  BY <1>5, <1>6
<1>11. ASSUME rules.format = "groups_knockout", NEW c \in Entered
       PROVE  Cardinality({d \in Entered : group[d] = group[c]}) = GroupSize
  <2>1. Full /\ Dealt(pool)
    BY <1>11 DEF EditionInv, TypeOK, Sizes, Full
  <2>2. \A d \in Entered : group[d] = PoolOf(pool, d)
    BY <1>11
  <2> HIDE DEF group
  <2>3. {d \in Entered : group[d] = group[c]} = {d \in Entered : PoolOf(pool, d) = PoolOf(pool, c)}
    BY <2>2
  <2> QED
    BY <1>1, <2>1, <2>3, GroupsAreEqual
<1> QED
  BY <1>9, <1>10, <1>11 DEF meetings, pairs, Met, Meeting

-----------------------------------------------------------------------------
(* The invariant of an edition, whatever its format and size, and however  *)
(* results, walkovers and punishments follow each other.                   *)
THEOREM EditionInvariant == Spec => []EditionInv
<1> QED
  BY EditionInit, EditionStep, PTL DEF Spec

(* While it is in progress an edition has a match to play, and every match *)
(* to play is between two different clubs that are not disqualified: the   *)
(* loop of progress_championship ends, and never leaves the edition stuck. *)
THEOREM PlayAlwaysGoesOn == Spec => []PlayGoesOn
<1>1. EditionInv => PlayGoesOn
  <2> SUFFICES ASSUME EditionInv PROVE PlayGoesOn
    OBVIOUS
  <2>1. DOMAIN matches = 1 .. Len(matches)
    BY LenProperties DEF EditionInv, TypeOK
  <2> QED
    BY <2>1 DEF EditionInv, Underway, Playable, PlayGoesOn
<1> QED
  BY <1>1, EditionInvariant, PTL

(* The champion is a club of the edition that is not disqualified; only a  *)
(* cascade, whose final both sides may lose, can end without one.          *)
THEOREM TheChampionIsEligible == Spec => []ChampionIsEligible
<1>1. EditionInv => ChampionIsEligible
  BY DEF EditionInv
<1> QED
  BY <1>1, EditionInvariant, PTL

(* Nobody has two matches in a round of a league, of a knockout or of a    *)
(* cascade: not by the way fixtures are drawn, not when the place of a     *)
(* disqualified club is filled, and not when a bracket starts over with    *)
(* the clubs that are left.                                                *)
THEOREM OncePerRound == Spec => []OneMatchPerRound
<1>1. EditionInv => OneMatchPerRound
  <2> SUFFICES ASSUME EditionInv PROVE OneMatchPerRound
    OBVIOUS
  <2>1. DOMAIN matches = 1 .. Len(matches) /\ Tidy(matches)
    BY LenProperties DEF EditionInv, TypeOK, Rounds
  <2> QED
    BY <2>1 DEF Tidy, SameRound, Apart, OneMatchPerRound
<1> QED
  BY <1>1, EditionInvariant, PTL

(* A decided match is never changed, and a match of which something is on  *)
(* record never changes hands, whatever the handlers do later.             *)
THEOREM RecordsStay == Spec => RecordsAreKept
<1> DEFINE A == \A i \in DOMAIN matches :
                  /\ matches[i].decided => i \in DOMAIN matches' /\ matches'[i] = matches[i]
                  /\ matches[i].mark # "nothing" =>
                       /\ i \in DOMAIN matches'
                       /\ matches'[i].home = matches[i].home /\ matches'[i].away = matches[i].away
<1>1. EditionInv /\ [Next]_vars => [A]_vars
  <2> SUFFICES ASSUME EditionInv, [Next]_vars PROVE A
    OBVIOUS
  <2>1. EditionInv' /\ (Kept(matches, matches') \/ NothingOnRecord)
    BY EditionStep
  <2>2. CASE NothingOnRecord
    BY <2>2 DEF NothingOnRecord
  <2>3. CASE Kept(matches, matches')
    <3>1. /\ DOMAIN matches = 1 .. Len(matches) /\ DOMAIN matches' = 1 .. Len(matches')
          /\ Len(matches) \in Nat /\ Len(matches') \in Nat
      BY <2>1, LenProperties DEF EditionInv, TypeOK
    <3> QED
      BY <2>3, <3>1 DEF Kept
  <2> QED
    BY <2>1, <2>2, <2>3
<1> QED
  BY <1>1, EditionInvariant, PTL DEF Spec, RecordsAreKept

(* Whoever wins a match of a knockout and is not disqualified plays in the *)
(* next round, unless there are too few clubs left to fill it: also when   *)
(* others are disqualified by the very step that draws it.                 *)
THEOREM WinnersGoThrough == Spec => WinnersAdvance
<1> DEFINE A == status' = "in_progress" /\ NewOnes # {} /\ matches # <<>>
                  /\ Last(matches).stage = "knockout" =>
                LET round == {i \in DOMAIN matches : matches[i].stage = "knockout"
                                                    /\ matches[i].round = Last(matches).round}
                IN 2 * Cardinality(NewOnes) = Cardinality(round) =>
                     \A i \in round : matches'[i].winner \in Eligible' =>
                       \E k \in NewOnes : Plays(matches'[k], matches'[i].winner)
<1>1. EditionInv /\ [Next]_vars => [A]_vars
  <2> SUFFICES ASSUME EditionInv, [Next]_vars, status' = "in_progress", NewOnes # {}, matches # <<>>,
                      Last(matches).stage = "knockout"
               PROVE  WinnersPlayOn
    BY DEF WinnersPlayOn, LastOnes
  <2>1. ~(AssignGroups /\ status = "in_progress")
    <3> SUFFICES ASSUME AssignGroups, status = "in_progress" PROVE FALSE
      OBVIOUS
    <3>1. Staged(matches) /\ DOMAIN matches = 1 .. Len(matches) /\ Len(matches) \in Nat
      BY LenProperties DEF EditionInv, TypeOK, Underway
    <3>2. matches[1].decided /\ 1 \in DOMAIN matches
      BY <3>1 DEF Staged, AssignGroups
    <3> QED
      BY <3>2 DEF AssignGroups, NothingOnRecord
  <2>2. PICK ed : GoesOnFrom(ed)
    BY <2>1, WhenMatchesCome
  <2> QED
    BY <2>2, WinnersStep
<1> QED
  BY <1>1, EditionInvariant, PTL DEF Spec, WinnersAdvance

(* Each group sends as many of its clubs that are not disqualified to the  *)
(* knockout as it has places there, unless too few are left for all the    *)
(* places: nobody of another group takes one that a group can fill.        *)
THEOREM GroupsSendTheirBest == Spec => GroupsSendTheirs
<1> DEFINE A == status' = "in_progress" /\ matches # <<>> /\ NewOnes # {}
                /\ <<Last(matches).stage, Last(matches').stage>> = <<"groups", "knockout">> =>
                LET Of(g) == {c \in Eligible' : PoolOf(pool, c) = g}
                    groups == {PoolOf(pool, c) : c \in Entered}
                    sent == {matches'[k].home : k \in NewOnes} \cup {matches'[k].away : k \in NewOnes}
                IN 2 * Cardinality(NewOnes) = PerPool * Cardinality(groups) =>
                     \A g \in groups :
                       Cardinality(sent \cap Of(g)) >= Min({PerPool, Cardinality(Of(g))})
<1>1. EditionInv /\ [Next]_vars => [A]_vars
  <2> SUFFICES ASSUME EditionInv, [Next]_vars, status' = "in_progress", NewOnes # {}, matches # <<>>,
                      Last(matches).stage = "groups", Last(matches').stage = "knockout"
               PROVE  GroupsPlayOn
    BY DEF GroupsPlayOn, Groups
  <2>1. ~(AssignGroups /\ status = "in_progress")
    <3> SUFFICES ASSUME AssignGroups, status = "in_progress" PROVE FALSE
      OBVIOUS
    <3>1. Opening(matches', FirstStage) /\ FirstStage = "groups"
      BY AssignGroupsStep DEF AssignGroups, FirstStage
    <3>2. Len(matches') \in Nat /\ Len(matches') > 0
      BY <3>1, LenProperties DEF Opening, ToPlay
    <3> QED
      BY <3>1, <3>2 DEF Opening, Last
  <2>2. PICK ed : GoesOnFrom(ed)
    BY <2>1, WhenMatchesCome
  <2> QED
    BY <2>2, GroupsStep
<1> QED
  BY <1>1, EditionInvariant, PTL DEF Spec, GroupsSendTheirs

(* A league goes to a club that is not disqualified and that no other such *)
(* club has more points than: the table of standings, made of a set of     *)
(* matches, says what the matches one by one say, and nothing happens to   *)
(* it once the edition is closed.                                          *)
THEOREM TheBestWinsTheLeague == Spec => []BestOfTheLeague
<1>1. Init => BestOfTheLeague
  BY DEF Init, BestOfTheLeague
<1> QED
  BY <1>1, BestStep, EditionInvariant, PTL DEF Spec

(* From the start of an edition with tables on, every two clubs of the     *)
(* league, or of a group, have their matches, one or one at each home, and *)
(* nobody else has one: the rotation of initial_fixtures pairs all, for    *)
(* any number of clubs, and no later step takes or adds a match of a table. *)
THEOREM EverybodyMeets == Spec => []EveryoneMeets
<1>1. Init => TablesInv
  BY DEF Init, TablesInv
<1>2. Spec => []TablesInv
  BY <1>1, TablesStep, EditionInvariant, PTL DEF Spec
<1> QED
  BY <1>2, TablesAreComplete, EditionInvariant, PTL

(* While nobody is disqualified from a cascade, the winners' side has lost *)
(* nothing and the losers' side once: two defeats and one is out, and the  *)
(* grand final is between an unbeaten club and one beaten once.            *)
THEOREM TwoDefeatsAndOneIsOut == Spec => []TwoDefeatsAndOut
<1>1. Init => CascadeInv
  BY DEF Init, CascadeInv
<1>2. EditionInv /\ CascadeInv => TwoDefeatsAndOut
  <2> SUFFICES ASSUME EditionInv, CascadeInv, status = "in_progress", rules.format = "cascade", banned = {},
                      NEW i \in DOMAIN matches, ~matches[i].decided
               PROVE  /\ Defeats(matches[i].home) = IF matches[i].stage = "losers" THEN 1 ELSE 0
                      /\ Defeats(matches[i].away) = IF matches[i].stage = "winners" THEN 0 ELSE 1
    BY DEF TwoDefeatsAndOut
  <2>1. matches \in Seq(MatchType) /\ CascadeRuns(matches, Entered) /\ i \in 1 .. Len(matches)
    BY LenProperties DEF EditionInv, TypeOK, CascadeInv
  <2> QED
    BY <2>1, NobodyIsOut
<1> QED
  BY <1>1, <1>2, CascadeStep, EditionInvariant, PTL DEF Spec
=============================================================================
