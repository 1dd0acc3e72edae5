---------------------------- MODULE CalendarProofs ----------------------------
(***************************************************************************)
(* Proofs about the calendar of a group, for any people, events, durations *)
(* and waits, whoever looks first and whatever is committed in between.    *)
(***************************************************************************)
EXTENDS Calendar, SequenceTheorems, TLAPS

(***************************************************************************)
(* What makes the invariants of seasons inductive.  All earlier ones end   *)
(* before a season begins, not just the one before; it has begun, unless   *)
(* nobody needs it; and an archive holds matches of its period only.       *)
(***************************************************************************)
Ordered(ss) ==
  /\ \A i \in DOMAIN ss : ss[i].starts < ss[i].ends
  /\ \A i, j \in DOMAIN ss : i < j => ss[i].ends <= ss[j].starts
  /\ \A i \in DOMAIN ss : \A m \in ss[i].table : Within(m, ss[i])
  /\ \A i \in DOMAIN ss : ~ss[i].archived => ss[i].table = {}

(* The settings and the seasons of a group, as they may be at time t.      *)
Rows(set, ss, t) ==
  /\ set \in Setting /\ ss \in Seq(Season)
  /\ Ordered(ss)
  /\ \A i \in DOMAIN ss : ss[i].archived <=> (i < Len(ss) \/ ~set.enabled)
  /\ set.enabled => ss # <<>>
  /\ \A i \in DOMAIN ss : ss[i].starts <= t
  /\ ~set.enabled => \A i \in DOMAIN ss : ss[i].ends <= t

(* The archives of ss are those of rr, too.                                *)
Kept(ss, rr) == \A i \in Archived(ss) : i \in DOMAIN rr /\ rr[i] = ss[i]

-----------------------------------------------------------------------------
(* Periods *)

(* Whole periods fit into the time that has gone by.                       *)
LEMMA Quotient ==
  ASSUME NEW a \in Nat, NEW b \in Nat \ {0}
  PROVE  a \div b \in Nat /\ (a \div b) * b <= a
OBVIOUS

(* Later periods begin later, and none is empty.                           *)
LEMMA PeriodsFollow ==
  ASSUME NEW b \in Nat \ {0}, NEW x \in Nat, NEW y \in Nat, x <= y
  PROVE  /\ x * b \in Int /\ y * b \in Int /\ 0 <= x * b
         /\ x * b <= y * b /\ x * b < (x + 1) * b
OBVIOUS

(* Seasons are numbered from one, and the last one is the latest.          *)
LEMMA SeasonRows ==
  ASSUME NEW ss \in Seq(Season)
  PROVE  /\ Len(ss) \in Nat /\ DOMAIN ss = 1 .. Len(ss)
         /\ \A i \in DOMAIN ss : ss[i] \in Season
         /\ ss # <<>> => Len(ss) \in DOMAIN ss
BY LenProperties, ElementOfSeq, EmptySeq

(* An archive is of the period it ends, with matches of that period.       *)
LEMMA ArchiveRow ==
  ASSUME matches \subseteq Match, NEW s \in Season
  PROVE  /\ Archive(s) \in Season
         /\ Archive(s).starts = s.starts /\ Archive(s).ends = s.ends /\ Archive(s).archived
         /\ \A m \in Archive(s).table : Within(m, Archive(s))
BY DEF Archive, Ranking, Within, Season

(* The periods that have ended: the last of them has ended, too.           *)
LEMMA ExpiredPeriods ==
  ASSUME NEW set \in Setting, NEW ss \in Seq(Season), ss # <<>>, NEW at \in Int
  PROVE  /\ Expired(set, ss, at) \in Nat
         /\ Expired(set, ss, at) > 0 =>
              /\ ss[Len(ss)].ends <= at
              /\ set.mode = "fixed" => Expired(set, ss, at) = 1
              /\ set.mode # "fixed" => ss[Len(ss)].ends + (Expired(set, ss, at) - 1) * set.length <= at
<1> DEFINE ends == ss[Len(ss)].ends
<1>1. ends \in Int /\ set.length \in Nat \ {0}
  BY SeasonRows, TimeAssumption DEF Season, Setting
<1>2. Expired(set, ss, at) = IF ends > at THEN 0 ELSE IF set.mode = "fixed" THEN 1 ELSE 1 + (at - ends) \div set.length
  BY DEF Expired
<1> HIDE DEF ends
<1>3. CASE ends > at
  BY <1>2, <1>3
<1>4. CASE ends <= at
  <2>1. at - ends \in Nat
    BY <1>1, <1>4
  <2>2. (at - ends) \div set.length \in Nat /\ ((at - ends) \div set.length) * set.length <= at - ends
    BY <1>1, <2>1, Quotient
  <2> DEFINE q == (at - ends) \div set.length
  <2> HIDE DEF q
  <2>3. q \in Nat /\ q * set.length <= at - ends
    BY <2>2 DEF q
  <2>4. Expired(set, ss, at) = IF set.mode = "fixed" THEN 1 ELSE 1 + q
    BY <1>1, <1>2, <1>4 DEF q
  <2>5. CASE set.mode = "fixed"
    BY <1>4, <2>4, <2>5 DEF ends
  <2>6. CASE set.mode # "fixed"
    <3>1. Expired(set, ss, at) = 1 + q /\ ends + ((1 + q) - 1) * set.length <= at
      BY <1>1, <2>3, <2>4, <2>6
    <3> QED
      BY <1>4, <2>3, <2>6, <3>1 DEF ends
  <2> QED
    BY <2>5, <2>6
<1> QED
  BY <1>1, <1>3, <1>4

-----------------------------------------------------------------------------
(* The loop of synchronize *)

(* The seasons it leaves, one by one.                                      *)
LEMMA TurnedRows ==
  ASSUME matches \subseteq Match, NEW set \in Setting, NEW ss \in Seq(Season), ss # <<>>, NEW at \in Int
  PROVE  LET r    == TurnedOver(set, ss, at)
             n    == Len(ss)
             k    == Expired(set, ss, at)
             last == ss[n]
         IN /\ r \in Seq(Season) /\ Len(r) = n + (IF set.mode = "fixed" THEN 0 ELSE k)
            /\ \A i \in 1 .. n - 1 : r[i] = ss[i]
            /\ r[n] = IF k > 0 THEN Archive(last) ELSE last
            /\ \A i \in 1 .. Len(r) : i > n =>
                 /\ r[i].starts = last.ends + (i - n - 1) * set.length
                 /\ r[i].ends = last.ends + (i - n) * set.length
                 /\ r[i].archived <=> i < n + k
                 /\ \A m \in r[i].table : Within(m, r[i])
                 /\ ~r[i].archived => r[i].table = {}
<1> DEFINE n    == Len(ss)
           k    == Expired(set, ss, at)
           last == ss[n]
           len  == n + (IF set.mode = "fixed" THEN 0 ELSE k)
           Following(i) == [starts |-> last.ends + (i - 1) * set.length,
                            ends |-> last.ends + i * set.length, archived |-> FALSE, table |-> {}]
           all  == [i \in 1 .. len |-> IF i <= n THEN ss[i] ELSE Following(i - n)]
           r    == [i \in 1 .. len |-> IF i >= n /\ i < n + k THEN Archive(all[i]) ELSE all[i]]
<1>1. TurnedOver(set, ss, at) = r
  BY DEF TurnedOver
<1>2. n \in Nat \ {0} /\ last \in Season /\ last.ends \in Int /\ \A i \in 1 .. n : ss[i] \in Season
  <2>1. Len(ss) \in Nat /\ Len(ss) \in 1 .. Len(ss) /\ \A i \in 1 .. Len(ss) : ss[i] \in Season
    BY SeasonRows
  <2>2. ss[Len(ss)].ends \in Int
    BY <2>1 DEF Season
  <2> QED
    BY <2>1, <2>2
<1>3. k \in Nat /\ set.length \in Nat \ {0}
  BY ExpiredPeriods, TimeAssumption DEF Setting
<1> HIDE DEF n, k, last
<1>4. len \in Nat /\ len >= n
  BY <1>2, <1>3
<1> HIDE DEF len
<1>5. ASSUME NEW j \in Nat
      PROVE  /\ Following(j) \in Season
             /\ Following(j).starts = last.ends + (j - 1) * set.length /\ Following(j).ends = last.ends + j * set.length
             /\ ~Following(j).archived /\ Following(j).table = {}
  <2>1. last.ends + (j - 1) * set.length \in Int /\ last.ends + j * set.length \in Int
    BY <1>2, <1>3
  <2> QED
    BY <2>1 DEF Season
<1> HIDE DEF Following
<1>6. \A i \in 1 .. len : all[i] = IF i <= n THEN ss[i] ELSE Following(i - n)
  OBVIOUS
<1> HIDE DEF all
<1>7. \A i \in 1 .. len : r[i] = IF i >= n /\ i < n + k THEN Archive(all[i]) ELSE all[i]
  OBVIOUS
<1>8. ASSUME NEW i \in 1 .. len PROVE all[i] \in Season
  <2>1. CASE i <= n
    <3>1. i \in 1 .. n
      BY <1>2, <1>4, <2>1
    <3> QED
      BY <1>2, <1>6, <2>1, <3>1
  <2>2. CASE ~(i <= n)
    <3>1. i - n \in Nat
      BY <1>2, <1>4, <2>2
    <3> QED
      BY <1>5, <1>6, <2>2, <3>1
  <2> QED
    BY <2>1, <2>2
<1>9. ASSUME NEW i \in 1 .. len PROVE r[i] \in Season
  <2>1. CASE i >= n /\ i < n + k
    BY <1>7, <1>8, <2>1, ArchiveRow
  <2>2. CASE ~(i >= n /\ i < n + k)
    BY <1>7, <1>8, <2>2
  <2> QED
    BY <2>1, <2>2
<1>10. r \in [1 .. len -> Season]
  BY <1>9
<1> HIDE DEF r
<1>11. r \in Seq(Season) /\ Len(r) = len
  <2>1. r \in Seq(Season) /\ DOMAIN r = 1 .. len
    BY <1>4, <1>10, SeqDef
  <2> QED
    BY <1>4, <2>1, LenProperties
<1>12. \A i \in 1 .. n - 1 : r[i] = ss[i]
  BY <1>2, <1>4, <1>6, <1>7
<1>13. r[n] = IF k > 0 THEN Archive(last) ELSE last
  <2>1. n \in 1 .. len /\ all[n] = last
    BY <1>2, <1>4, <1>6 DEF last, n
  <2>2. n >= n /\ (n < n + k <=> k > 0)
    BY <1>2, <1>3
  <2> QED
    BY <1>7, <2>1, <2>2
<1>14. ASSUME NEW i \in 1 .. len, i > n
       PROVE  /\ r[i].starts = last.ends + (i - n - 1) * set.length
              /\ r[i].ends = last.ends + (i - n) * set.length
              /\ r[i].archived <=> i < n + k
              /\ \A m \in r[i].table : Within(m, r[i])
              /\ ~r[i].archived => r[i].table = {}
  <2> DEFINE f == Following(i - n)
  <2>1. i - n \in Nat /\ ~(i <= n) /\ i >= n
    BY <1>2, <1>4, <1>14
  <2>2. all[i] = f
    BY <1>6, <2>1
  <2>3. /\ f \in Season /\ ~f.archived /\ f.table = {}
        /\ f.starts = last.ends + (i - n - 1) * set.length /\ f.ends = last.ends + (i - n) * set.length
    BY <1>5, <2>1
  <2> HIDE DEF f
  <2>4. CASE i < n + k
    <3>1. r[i] = Archive(f)
      BY <1>7, <2>1, <2>2, <2>4
    <3>2. /\ Archive(f).starts = f.starts /\ Archive(f).ends = f.ends /\ Archive(f).archived
          /\ \A m \in Archive(f).table : Within(m, Archive(f))
      BY <2>3, ArchiveRow
    <3> QED
      BY <2>3, <2>4, <3>1, <3>2
  <2>5. CASE ~(i < n + k)
    <3>1. r[i] = f
      BY <1>7, <2>1, <2>2, <2>5
    <3> QED
      BY <2>3, <2>5, <3>1
  <2> QED
    BY <2>4, <2>5
<1>15. /\ r \in Seq(Season) /\ Len(r) = n + (IF set.mode = "fixed" THEN 0 ELSE k)
       /\ \A i \in 1 .. n - 1 : r[i] = ss[i]
       /\ r[n] = IF k > 0 THEN Archive(last) ELSE last
       /\ \A i \in 1 .. Len(r) : i > n =>
            /\ r[i].starts = last.ends + (i - n - 1) * set.length
            /\ r[i].ends = last.ends + (i - n) * set.length
            /\ r[i].archived <=> i < n + k
            /\ \A m \in r[i].table : Within(m, r[i])
            /\ ~r[i].archived => r[i].table = {}
  BY <1>11, <1>12, <1>13, <1>14 DEF len
<1> QED
  BY <1>1, <1>15 DEF n, k, last

(* After synchronize everything is as it should be, and archives stay.     *)
LEMMA SyncedRows ==
  ASSUME matches \subseteq Match, NEW at \in Int, NEW t \in Int, at <= t, Rows(settings, seasons, t)
  PROVE  Rows(Synced(at).settings, Synced(at).seasons, t) /\ Kept(seasons, Synced(at).seasons)
<1> DEFINE ss == seasons  set == settings  n == Len(ss)  k == Expired(set, ss, at)  last == ss[n]
           r  == TurnedOver(set, ss, at)
           s2 == [set EXCEPT !.enabled = set.mode = "days" \/ k = 0]
<1>0. ss \in Seq(Season) /\ set \in Setting
  BY DEF Rows
<1>1. CASE ~set.enabled
  <2>1. Synced(at).settings = set /\ Synced(at).seasons = ss
    BY <1>1 DEF Synced
  <2> QED
    BY <2>1 DEF Kept, Archived
<1>2. CASE set.enabled
  <2>1. Synced(at).settings = s2 /\ Synced(at).seasons = r
    BY <1>2 DEF Synced
  <2>2. ss # <<>>
    BY <1>2 DEF Rows
  <2>3. /\ n \in Nat /\ n \in 1 .. n /\ DOMAIN ss = 1 .. n /\ last \in Season
        /\ \A i \in 1 .. n : ss[i].starts \in Int /\ ss[i].ends \in Int
        /\ set.length \in Nat \ {0}
    BY <1>0, <2>2, SeasonRows, TimeAssumption DEF Season, Setting
  <2>4. /\ k \in Nat
        /\ k > 0 => /\ last.ends <= at
                    /\ set.mode = "fixed" => k = 1
                    /\ set.mode # "fixed" => last.ends + (k - 1) * set.length <= at
    BY <1>0, <2>2, ExpiredPeriods
  <2>5. /\ r \in Seq(Season) /\ Len(r) = n + (IF set.mode = "fixed" THEN 0 ELSE k)
        /\ \A i \in 1 .. n - 1 : r[i] = ss[i]
        /\ r[n] = IF k > 0 THEN Archive(last) ELSE last
        /\ \A i \in 1 .. Len(r) : i > n =>
             /\ r[i].starts = last.ends + (i - n - 1) * set.length
             /\ r[i].ends = last.ends + (i - n) * set.length
             /\ r[i].archived <=> i < n + k
             /\ \A m \in r[i].table : Within(m, r[i])
             /\ ~r[i].archived => r[i].table = {}
    BY <1>0, <2>2, TurnedRows
  <2>6. /\ \A i \in 1 .. n : ss[i].starts < ss[i].ends /\ ss[i].starts <= t
        /\ \A i, j \in 1 .. n : i < j => ss[i].ends <= ss[j].starts
        /\ \A i \in 1 .. n : \A m \in ss[i].table : Within(m, ss[i])
        /\ \A i \in 1 .. n : ss[i].archived <=> i < n
        /\ \A i \in 1 .. n : ~ss[i].archived => ss[i].table = {}
    BY <1>2, <2>3 DEF Rows, Ordered
  <2>7. s2 \in Setting /\ (s2.enabled <=> (set.mode = "days" \/ k = 0))
    BY <1>0 DEF Setting
  <2>8. set.mode \in {"days", "fixed"}
    BY <1>0 DEF Setting
  <2> HIDE DEF ss, set, n, k, last, r, s2
  <2>9. /\ Archive(last).starts = last.starts /\ Archive(last).ends = last.ends /\ Archive(last).archived
        /\ \A m \in Archive(last).table : Within(m, Archive(last))
    BY <2>3, ArchiveRow
  <2>10. last = ss[n]
    BY DEF last
  <2>11. /\ r[n].starts = ss[n].starts /\ r[n].ends = ss[n].ends /\ (r[n].archived <=> k > 0)
         /\ \A m \in r[n].table : Within(m, r[n])
         /\ ~r[n].archived => r[n].table = {}
    <3>1. CASE k > 0
      BY <2>5, <2>9, <2>10, <3>1
    <3>2. CASE ~(k > 0)
      BY <2>3, <2>5, <2>6, <2>10, <3>2
    <3> QED
      BY <3>1, <3>2
  <2> DEFINE len == Len(r)
  <2>12. len \in Nat /\ len = n + (IF set.mode = "fixed" THEN 0 ELSE k) /\ DOMAIN r = 1 .. len /\ len >= n
    BY <2>3, <2>4, <2>5, SeasonRows
  <2> HIDE DEF len
  <2>13. \A i \in 1 .. n : /\ r[i].starts = ss[i].starts /\ r[i].ends = ss[i].ends
                           /\ r[i].archived <=> (i < n \/ k > 0)
                           /\ \A m \in r[i].table : Within(m, r[i])
                           /\ ~r[i].archived => r[i].table = {}
    <3> TAKE i \in 1 .. n
    <3>1. CASE i = n
      BY <2>11, <3>1
    <3>2. CASE i # n
      <4>1. i \in 1 .. n - 1 /\ i < n
        BY <2>3, <3>2
      <4> QED
        BY <2>5, <2>6, <4>1
    <3> QED
      BY <3>1, <3>2
  <2>14. \A i \in 1 .. len : i > n =>
             /\ r[i].starts = last.ends + (i - n - 1) * set.length
             /\ r[i].ends = last.ends + (i - n) * set.length
             /\ r[i].archived <=> i < n + k
             /\ \A m \in r[i].table : Within(m, r[i])
             /\ ~r[i].archived => r[i].table = {}
    BY <2>5 DEF len
  <2>15. last.ends \in Int /\ last.ends = ss[n].ends
    BY <2>3, <2>10
  <2> DEFINE L == set.length
  <2>16. L \in Nat \ {0}
    BY <2>3
  <2> HIDE DEF L
  (* Periods before the last of ss end with it at most, the others after it. *)
  <2>17. \A i \in 1 .. n : r[i].ends <= last.ends /\ r[i].ends \in Int /\ r[i].starts \in Int
    <3> TAKE i \in 1 .. n
    <3>1. i = n \/ (i < n /\ ss[i].ends <= ss[n].starts /\ ss[n].starts < ss[n].ends)
      BY <2>3, <2>6
    <3> QED
      BY <2>3, <2>13, <2>15, <3>1
  <2>18. \A i \in 1 .. len : i > n =>
           /\ r[i].starts \in Int /\ r[i].ends \in Int
           /\ last.ends <= r[i].starts /\ r[i].starts < r[i].ends
    <3> SUFFICES ASSUME NEW i \in 1 .. len, i > n
                 PROVE  /\ r[i].starts \in Int /\ r[i].ends \in Int
                        /\ last.ends <= r[i].starts /\ r[i].starts < r[i].ends
      OBVIOUS
    <3> DEFINE x == i - n - 1
    <3>1. x \in Nat /\ x + 1 = i - n
      BY <2>3, <2>12
    <3>2. r[i].starts = last.ends + x * L /\ r[i].ends = last.ends + (x + 1) * L
      BY <2>14, <3>1 DEF L
    <3> HIDE DEF x
    <3>3. x * L \in Int /\ 0 <= x * L /\ x * L < (x + 1) * L /\ (x + 1) * L \in Int
      BY <2>16, <3>1, PeriodsFollow
    <3> QED
      BY <2>15, <3>2, <3>3
  <2>19. \A i, j \in 1 .. len : i > n /\ i < j => r[i].ends <= r[j].starts
    <3> SUFFICES ASSUME NEW i \in 1 .. len, NEW j \in 1 .. len, i > n, i < j
                 PROVE  r[i].ends <= r[j].starts
      OBVIOUS
    <3> DEFINE x == i - n  y == j - n - 1
    <3>1. x \in Nat /\ y \in Nat /\ x <= y /\ j > n
      BY <2>3, <2>12
    <3>2. r[i].ends = last.ends + x * L /\ r[j].starts = last.ends + y * L
      BY <2>14, <3>1 DEF L
    <3> HIDE DEF x, y
    <3>3. x * L \in Int /\ y * L \in Int /\ x * L <= y * L
      BY <2>16, <3>1, PeriodsFollow
    <3> QED
      BY <2>15, <3>2, <3>3
  <2>20. Ordered(r)
    <3>1. \A i \in 1 .. len : r[i].starts < r[i].ends
      BY <2>3, <2>6, <2>12, <2>13, <2>18
    <3>2. \A i, j \in 1 .. len : i < j => r[i].ends <= r[j].starts
      <4> TAKE i, j \in 1 .. len
      <4>1. CASE i > n
        BY <2>19, <4>1
      <4>2. CASE i \in 1 .. n /\ j \in 1 .. n
        BY <2>6, <2>13, <4>2
      <4>3. CASE i \in 1 .. n /\ j > n
        BY <2>15, <2>17, <2>18, <4>3
      <4> QED
        BY <2>3, <2>12, <4>1, <4>2, <4>3
    <3>3. \A i \in 1 .. len : (\A m \in r[i].table : Within(m, r[i])) /\ (~r[i].archived => r[i].table = {})
      BY <2>3, <2>12, <2>13, <2>14
    <3> QED
      BY <2>12, <3>1, <3>2, <3>3 DEF Ordered
  <2>21. \A i \in 1 .. len : r[i].starts <= t
    <3> TAKE i \in 1 .. len
    <3>1. CASE i \in 1 .. n
      BY <2>6, <2>13, <3>1
    <3>2. CASE i > n
      <4> DEFINE x == i - n - 1  y == k - 1
      <4>1. set.mode # "fixed" /\ k > 0 /\ x \in Nat /\ y \in Nat /\ x <= y
        BY <2>3, <2>4, <2>12, <3>2
      <4>2. r[i].starts = last.ends + x * L /\ last.ends + y * L <= at
        BY <2>4, <2>14, <3>2, <4>1 DEF L
      <4> HIDE DEF x, y
      <4>3. x * L \in Int /\ y * L \in Int /\ x * L <= y * L
        BY <2>16, <4>1, PeriodsFollow
      <4> QED
        BY <2>15, <4>2, <4>3
    <3> QED
      BY <2>3, <2>12, <3>1, <3>2
  <2>22. \/ s2.enabled /\ len = n + k
         \/ ~s2.enabled /\ len = n /\ k > 0 /\ last.ends <= at
    <3>1. CASE set.mode = "days"
      BY <2>7, <2>12, <3>1
    <3>2. CASE set.mode = "fixed" /\ k = 0
      BY <2>3, <2>7, <2>12, <3>2
    <3>3. CASE set.mode = "fixed" /\ k > 0
      BY <2>3, <2>4, <2>7, <2>12, <3>3
    <3> QED
      BY <2>4, <2>8, <3>1, <3>2, <3>3
  <2>23. /\ \A i \in 1 .. len : r[i].archived <=> (i < len \/ ~s2.enabled)
         /\ ~s2.enabled => \A i \in 1 .. len : r[i].ends <= t
    <3>1. \A i \in 1 .. len : i \in 1 .. n \/ i > n
      BY <2>3, <2>12
    <3>2. \A i \in 1 .. len : r[i].archived <=> (i < n \/ (k > 0 /\ i < n + k))
      BY <2>3, <2>4, <2>12, <2>13, <2>14, <3>1
    <3>3. CASE s2.enabled /\ len = n + k
      <4>1. \A i \in 1 .. len : r[i].archived <=> i < len
        BY <2>3, <2>4, <3>2, <3>3
      <4> QED
        BY <3>3, <4>1
    <3>4. CASE ~s2.enabled /\ len = n /\ k > 0 /\ last.ends <= at
      <4>1. \A i \in 1 .. len : r[i].archived
        BY <2>3, <2>4, <3>2, <3>4
      <4>2. \A i \in 1 .. len : r[i].ends <= t
        BY <2>15, <2>17, <3>4
      <4> QED
        BY <3>4, <4>1, <4>2
    <3> QED
      BY <2>22, <3>3, <3>4
  <2>24. Rows(s2, r, t)
    <3>1. r # <<>>
      BY <2>3, <2>12
    <3> QED
      BY <2>5, <2>7, <2>12, <2>20, <2>21, <2>23, <3>1 DEF Rows, len
  <2>25. Kept(ss, r)
    <3> SUFFICES ASSUME NEW i \in DOMAIN ss, ss[i].archived PROVE i \in DOMAIN r /\ r[i] = ss[i]
      BY DEF Kept, Archived
    <3>1. i \in 1 .. n - 1 /\ i \in 1 .. len
      BY <2>3, <2>6, <2>12
    <3> QED
      BY <2>5, <2>12, <3>1
  <2> QED
    BY <2>1, <2>24, <2>25 DEF ss
<1> QED
  BY <1>1, <1>2

-----------------------------------------------------------------------------
(* Settings that change *)

(* A season that is put in place of the last one.                          *)
LEMMA LastReplaced ==
  ASSUME NEW ss \in Seq(Season), ss # <<>>, NEW s \in Season
  PROVE  LET n == Len(ss)  r == [ss EXCEPT ![n] = s]
         IN /\ r \in Seq(Season) /\ Len(r) = n /\ DOMAIN r = 1 .. n /\ n \in Nat /\ n \in 1 .. n
            /\ \A i \in 1 .. n : r[i] = IF i = n THEN s ELSE ss[i]
<1>1. Len(ss) \in Nat /\ DOMAIN ss = 1 .. Len(ss) /\ Len(ss) \in 1 .. Len(ss)
  BY SeasonRows
<1>2. /\ [ss EXCEPT ![Len(ss)] = s] \in Seq(Season) /\ Len([ss EXCEPT ![Len(ss)] = s]) = Len(ss)
      /\ \A i \in 1 .. Len(ss) : [ss EXCEPT ![Len(ss)] = s][i] = IF i = Len(ss) THEN s ELSE ss[i]
  BY <1>1, ExceptSeq
<1> QED
  BY <1>1, <1>2, SeasonRows

(***************************************************************************)
(* The last season gets another end.  It stays after the earlier ones; its *)
(* ranking, if it is archived now, is of the period it has then.           *)
(***************************************************************************)
LEMMA LastEnds ==
  ASSUME NEW was \in Setting, NEW set \in Setting, NEW ss, NEW t \in Int, Rows(was, ss, t), was.enabled,
         NEW s \in Season, s.starts = ss[Len(ss)].starts, s.starts < s.ends,
         s.archived <=> ~set.enabled, ~set.enabled => s.ends <= t + 1,
         \A m \in s.table : Within(m, s), ~s.archived => s.table = {}
  PROVE  Rows(set, [ss EXCEPT ![Len(ss)] = s], t + 1) /\ Kept(ss, [ss EXCEPT ![Len(ss)] = s])
<1> DEFINE n == Len(ss)  r == [ss EXCEPT ![n] = s]
<1>1. ss \in Seq(Season) /\ ss # <<>>
  BY DEF Rows
<1>2. /\ r \in Seq(Season) /\ Len(r) = n /\ DOMAIN r = 1 .. n /\ n \in Nat /\ n \in 1 .. n
      /\ \A i \in 1 .. n : r[i] = IF i = n THEN s ELSE ss[i]
  BY <1>1, LastReplaced
<1>3. DOMAIN ss = 1 .. n /\ \A i \in 1 .. n : ss[i].starts \in Int /\ ss[i].ends \in Int
  BY <1>1, SeasonRows DEF Season
<1>4. /\ \A i \in 1 .. n : ss[i].starts < ss[i].ends /\ ss[i].starts <= t
      /\ \A i, j \in 1 .. n : i < j => ss[i].ends <= ss[j].starts
      /\ \A i \in 1 .. n : (\A m \in ss[i].table : Within(m, ss[i])) /\ (~ss[i].archived => ss[i].table = {})
      /\ \A i \in 1 .. n : ss[i].archived <=> i < n
  BY <1>3 DEF Rows, Ordered
<1>5. s.starts = ss[n].starts
  OBVIOUS
<1> HIDE DEF r, n
<1>6. Ordered(r)
  <2>1. \A i \in 1 .. n : r[i].starts < r[i].ends
    BY <1>2, <1>4
  <2>2. \A i, j \in 1 .. n : i < j => r[i].ends <= r[j].starts
    <3> TAKE i, j \in 1 .. n
    <3> HAVE i < j
    <3>1. i # n /\ r[i] = ss[i] /\ ss[i].ends <= ss[j].starts
      BY <1>2, <1>4
    <3>2. r[j].starts = ss[j].starts
      BY <1>2, <1>5
    <3> QED
      BY <3>1, <3>2
  <2>3. \A i \in 1 .. n : (\A m \in r[i].table : Within(m, r[i])) /\ (~r[i].archived => r[i].table = {})
    BY <1>2, <1>4
  <2> QED
    BY <1>2, <2>1, <2>2, <2>3 DEF Ordered
<1>7. \A i \in 1 .. n : r[i].archived <=> (i < n \/ ~set.enabled)
  <2> TAKE i \in 1 .. n
  <2>1. CASE i = n
    BY <1>2, <2>1
  <2>2. CASE i # n
    <3>1. i < n /\ r[i] = ss[i] /\ ss[i].archived
      BY <1>2, <1>4, <2>2
    <3> QED
      BY <3>1
  <2> QED
    BY <2>1, <2>2
<1>8. \A i \in 1 .. n : r[i].starts <= t + 1
  BY <1>2, <1>3, <1>4, <1>5
<1>9. ~set.enabled => \A i \in 1 .. n : r[i].ends <= t + 1
  <2> SUFFICES ASSUME ~set.enabled, NEW i \in 1 .. n PROVE r[i].ends <= t + 1
    OBVIOUS
  <2>1. CASE i = n
    BY <1>2, <2>1
  <2>2. CASE i # n
    <3>1. r[i] = ss[i] /\ ss[i].ends <= ss[n].starts /\ ss[n].starts <= t
      BY <1>2, <1>4, <2>2
    <3> QED
      BY <1>2, <1>3, <3>1
  <2> QED
    BY <2>1, <2>2
<1>10. Rows(set, r, t + 1)
  <2>1. r # <<>>
    BY <1>2
  <2> QED
    BY <1>2, <1>6, <1>7, <1>8, <1>9, <2>1 DEF Rows
<1>11. Kept(ss, r)
  BY <1>2, <1>3, <1>4 DEF Kept, Archived
<1> QED
  BY <1>10, <1>11 DEF r, n

(* Switched on, a season opens after the last one.                         *)
LEMMA AnotherOpens ==
  ASSUME NEW was \in Setting, NEW set \in Setting, NEW ss, NEW t \in Int, Rows(was, ss, t), ~was.enabled, set.enabled,
         NEW s \in Season, s.starts = t, s.starts < s.ends, ~s.archived, s.table = {}
  PROVE  Rows(set, Append(ss, s), t + 1) /\ Kept(ss, Append(ss, s))
<1> DEFINE n == Len(ss)  r == Append(ss, s)
<1>1. ss \in Seq(Season)
  BY DEF Rows
<1>2. /\ r \in Seq(Season) /\ Len(r) = n + 1 /\ n \in Nat /\ r # <<>> /\ DOMAIN r = 1 .. n + 1
      /\ \A i \in 1 .. n : r[i] = ss[i]
      /\ r[n + 1] = s
  BY <1>1, AppendProperties, LenProperties
<1>3. DOMAIN ss = 1 .. n /\ \A i \in 1 .. n : ss[i].starts \in Int /\ ss[i].ends \in Int
  BY <1>1, SeasonRows DEF Season
<1>4. /\ \A i \in 1 .. n : ss[i].starts < ss[i].ends /\ ss[i].ends <= t /\ ss[i].archived
      /\ \A i, j \in 1 .. n : i < j => ss[i].ends <= ss[j].starts
      /\ \A i \in 1 .. n : \A m \in ss[i].table : Within(m, ss[i])
  BY <1>3 DEF Rows, Ordered
<1> HIDE DEF r, n
<1>5. \A i \in 1 .. n + 1 : i \in 1 .. n \/ i = n + 1
  BY <1>2
<1>6. /\ \A i \in 1 .. n : r[i].starts < r[i].ends /\ r[i].ends <= t /\ r[i].archived
      /\ \A i, j \in 1 .. n : i < j => r[i].ends <= r[j].starts
      /\ \A i \in 1 .. n : \A m \in r[i].table : Within(m, r[i])
      /\ \A i \in 1 .. n : r[i].starts \in Int /\ r[i].ends \in Int
  BY <1>2, <1>3, <1>4
<1>7. Ordered(r)
  <2>1. \A i, j \in 1 .. n + 1 : i < j => r[i].ends <= r[j].starts
    BY <1>2, <1>5, <1>6
  <2> QED
    BY <1>2, <1>5, <1>6, <2>1 DEF Ordered
<1>8. \A i \in 1 .. n + 1 : r[i].archived <=> i < n + 1
  BY <1>2, <1>5, <1>6
<1>9. \A i \in 1 .. n + 1 : r[i].starts <= t + 1
  BY <1>2, <1>5, <1>6
<1>10. Rows(set, r, t + 1)
  BY <1>2, <1>7, <1>8, <1>9 DEF Rows
<1>11. Kept(ss, r)
  BY <1>2, <1>3 DEF Kept, Archived
<1> QED
  BY <1>10, <1>11 DEF r

(* New settings leave the seasons in order and the archives as they are.   *)
LEMMA ResetRows ==
  ASSUME matches \subseteq Match, now \in Int, NEW was, NEW ss, Rows(was, ss, now), NEW set \in Setting,
         set.enabled /\ set.mode = "fixed" => set.fixedEnd > now
  PROVE  Rows(set, Reset(was, set, ss), now + 1) /\ Kept(ss, Reset(was, set, ss))
<1> DEFINE n == Len(ss)  last == ss[n]
<1>0. was \in Setting /\ ss \in Seq(Season)
  BY DEF Rows
<1>1. set.enabled => PeriodEnd(set, now) \in Int /\ PeriodEnd(set, now) > now
  <2>1. set.length \in Nat \ {0} /\ set.fixedEnd \in Int
    BY TimeAssumption DEF Setting
  <2>2. CASE set.mode = "fixed"
    BY <2>1, <2>2 DEF PeriodEnd
  <2>3. CASE set.mode # "fixed"
    BY <2>1, <2>3 DEF PeriodEnd
  <2> QED
    BY <2>2, <2>3
<1>2. was.enabled => /\ ss # <<>> /\ last \in Season /\ last.starts \in Int /\ last.starts <= now
                     /\ ~last.archived /\ last.table = {}
  <2> SUFFICES ASSUME was.enabled
               PROVE  /\ ss # <<>> /\ last \in Season /\ last.starts \in Int /\ last.starts <= now
                      /\ ~last.archived /\ last.table = {}
    OBVIOUS
  <2>1. ss # <<>>
    BY DEF Rows
  <2>2. n \in DOMAIN ss /\ n \in Nat /\ last \in Season
    BY <1>0, <2>1, SeasonRows
  <2>3. last.starts <= now /\ ~last.archived
    BY <2>2 DEF Rows
  <2>4. last.table = {}
    BY <2>2, <2>3 DEF Rows, Ordered
  <2> QED
    BY <2>1, <2>2, <2>3, <2>4 DEF Season
<1>3. CASE was.enabled /\ ~set.enabled
  <2> DEFINE base == [last EXCEPT !.ends = IF now > last.starts THEN now ELSE last.starts + 1]
             s    == ClosedNow(last)
  <2>1. base \in Season /\ base.starts = last.starts /\ base.starts < base.ends /\ base.ends <= now + 1
    BY <1>2, <1>3 DEF Season
  <2>2. s = Archive(base)
    BY DEF ClosedNow
  <2> HIDE DEF base
  <2>3. /\ s \in Season /\ s.starts = last.starts /\ s.starts < s.ends /\ s.ends <= now + 1 /\ s.archived
        /\ \A m \in s.table : Within(m, s)
    BY <2>1, <2>2, ArchiveRow
  <2>4. Reset(was, set, ss) = [ss EXCEPT ![n] = s]
    BY <1>3 DEF Reset
  <2> HIDE DEF s
  <2>5. (s.archived <=> ~set.enabled) /\ (~set.enabled => s.ends <= now + 1) /\ (~s.archived => s.table = {})
    BY <1>3, <2>3
  <2>6. s.starts = ss[Len(ss)].starts /\ s.starts < s.ends /\ s \in Season /\ \A m \in s.table : Within(m, s)
    BY <2>3
  <2>7. Rows(set, [ss EXCEPT ![Len(ss)] = s], now + 1) /\ Kept(ss, [ss EXCEPT ![Len(ss)] = s])
    BY <1>0, <1>3, <2>5, <2>6, LastEnds
  <2> QED
    BY <2>4, <2>7
<1>4. CASE ~was.enabled /\ set.enabled
  <2> DEFINE s == Opened(set, now)
  <2>1. s \in Season /\ s.starts = now /\ s.starts < s.ends /\ ~s.archived /\ s.table = {}
    BY <1>1, <1>4 DEF Opened, Season
  <2>2. Reset(was, set, ss) = Append(ss, s)
    BY <1>4 DEF Reset
  <2> HIDE DEF s
  <2> QED
    BY <1>0, <1>4, <2>1, <2>2, AnotherOpens
<1>5. CASE was.enabled /\ set.enabled /\ (was.mode # set.mode \/ was.fixedEnd # set.fixedEnd)
  <2> DEFINE s == [last EXCEPT !.ends = PeriodEnd(set, now)]
  <2>1. s \in Season /\ s.starts = last.starts /\ s.starts < s.ends /\ ~s.archived /\ s.table = {}
    BY <1>1, <1>2, <1>5 DEF Season
  <2>2. Reset(was, set, ss) = [ss EXCEPT ![n] = s]
    BY <1>5 DEF Reset
  <2> HIDE DEF s
  <2>3. (s.archived <=> ~set.enabled) /\ (~set.enabled => s.ends <= now + 1) /\ (~s.archived => s.table = {})
    BY <1>5, <2>1
  <2>4. s.starts = ss[Len(ss)].starts /\ s.starts < s.ends /\ s \in Season /\ \A m \in s.table : Within(m, s)
    BY <2>1
  <2>5. Rows(set, [ss EXCEPT ![Len(ss)] = s], now + 1) /\ Kept(ss, [ss EXCEPT ![Len(ss)] = s])
    BY <1>0, <1>5, <2>3, <2>4, LastEnds
  <2> QED
    BY <2>2, <2>5
<1>6. CASE /\ was.enabled <=> set.enabled
           /\ ~(set.enabled /\ (was.mode # set.mode \/ was.fixedEnd # set.fixedEnd))
  <2>1. Reset(was, set, ss) = ss
    BY <1>6 DEF Reset
  <2>2. \A i \in DOMAIN ss : ss[i].starts \in Int /\ ss[i].ends \in Int
    BY <1>0, SeasonRows DEF Season
  <2>3. Rows(set, ss, now + 1)
    <3>1. \A i \in DOMAIN ss : ss[i].starts <= now + 1
      BY <2>2 DEF Rows
    <3>2. ~set.enabled => \A i \in DOMAIN ss : ss[i].ends <= now + 1
      BY <1>6, <2>2 DEF Rows
    <3> QED
      BY <1>6, <3>1, <3>2 DEF Rows
  <2> QED
    BY <2>1, <2>3 DEF Kept, Archived
<1> QED
  BY <1>3, <1>4, <1>5, <1>6

-----------------------------------------------------------------------------
(* Titles *)

(* Trophies of the old archives and of the new ones are those of all.      *)
LEMMA AwardedAgain ==
  ASSUME NEW ss, NEW rr, Kept(ss, rr)
  PROVE  /\ Awarded(ss, Archived(ss)) \cup Awarded(rr, Archived(rr) \ Archived(ss)) = Awarded(rr, Archived(rr))
         /\ Awarded(ss, Archived(ss)) \cup Awarded(rr, Archived(rr)) = Awarded(rr, Archived(rr))
<1>1. Archived(ss) \subseteq Archived(rr) /\ \A i \in Archived(ss) : rr[i] = ss[i]
  BY DEF Kept, Archived
<1>2. Awarded(ss, Archived(ss)) = UNION {Titles(i, rr[i]) : i \in Archived(ss)}
  BY <1>1 DEF Awarded
<1> QED
  BY <1>1, <1>2 DEF Awarded

(* Titles are for those who played, if they have a profile.                *)
LEMMA TitlesType ==
  ASSUME NEW ss \in Seq(Season)
  PROVE  Awarded(ss, Archived(ss)) \subseteq [season : Nat, person : Player \ Guest]
<1> SUFFICES ASSUME NEW i \in Archived(ss), NEW x \in Titles(i, ss[i])
             PROVE  x \in [season : Nat, person : Player \ Guest]
  BY DEF Awarded
<1>1. i \in DOMAIN ss /\ DOMAIN ss = 1 .. Len(ss) /\ Len(ss) \in Nat /\ ss[i] \in Season
  BY SeasonRows DEF Archived
<1>2. i \in Nat /\ ss[i].table \subseteq Match
  BY <1>1 DEF Season
<1>3. Champions(ss[i].table) \subseteq Player \ Guest
  BY <1>2 DEF Champions, Played, Match
<1> QED
  BY <1>2, <1>3 DEF Titles

-----------------------------------------------------------------------------
(* The seasons of a group *)

SeasonInv ==
  /\ now \in Time
  /\ matches \subseteq Match
  /\ Rows(settings, seasons, now)
  /\ TitlesFollowTheArchive

(* Those who look leave the seasons in order, and the archives as they are. *)
LEMMA LookStep ==
  ASSUME SeasonInv, NEW at \in Time, Synchronize(at) \/ MyTrophies(at)
  PROVE  SeasonInv' /\ Kept(seasons, seasons') /\ UNCHANGED <<now, matches, ending, eventVars>>
<1>1. now \in Int /\ at \in Int /\ matches \subseteq Match /\ Rows(settings, seasons, now)
  BY TimeAssumption DEF SeasonInv, Time
<1>2. /\ at <= now /\ settings' = Synced(at).settings /\ seasons' = Synced(at).seasons
      /\ UNCHANGED <<now, matches, ending, eventVars>>
  BY DEF Synchronize, MyTrophies
<1>3. Rows(settings', seasons', now) /\ Kept(seasons, seasons')
  BY <1>1, <1>2, SyncedRows
<1>4. trophies' = Awarded(seasons', Archived(seasons'))
  BY <1>3, AwardedAgain DEF SeasonInv, TitlesFollowTheArchive, Synchronize, MyTrophies
<1> QED
  BY <1>2, <1>3, <1>4 DEF SeasonInv, TitlesFollowTheArchive

(* A change of settings leaves seasons, matches and events in order.       *)
LEMMA SettingsStep ==
  ASSUME SeasonInv, NEW set \in Choices, UpdateSettings(set)
  PROVE  SeasonInv' /\ Kept(seasons, seasons') /\ UNCHANGED <<matches, ending, eventVars>>
<1>1. now \in Int /\ now \in Time /\ matches \subseteq Match /\ Rows(settings, seasons, now)
  BY TimeAssumption DEF SeasonInv, Time
<1> DEFINE found == Synced(now)
<1>2. /\ set.enabled /\ set.mode = "fixed" => set.fixedEnd > now
      /\ seasons' = Reset(found.settings, set, found.seasons) /\ settings' = set
      /\ now < MaxTime /\ now' = now + 1
      /\ trophies' = trophies \cup Awarded(seasons', Archived(seasons') \ Archived(seasons))
      /\ UNCHANGED <<matches, ending, eventVars>>
  BY DEF UpdateSettings
<1>3. Rows(found.settings, found.seasons, now) /\ Kept(seasons, found.seasons)
  BY <1>1, SyncedRows
<1>4. set \in Setting
  BY TimeAssumption DEF Choices, Setting, Time
<1> HIDE DEF found
<1>5. Rows(set, seasons', now + 1) /\ Kept(found.seasons, seasons')
  BY <1>1, <1>2, <1>3, <1>4, ResetRows
<1>6. Kept(seasons, seasons')
  BY <1>3, <1>5 DEF Kept, Archived
<1>7. trophies' = Awarded(seasons', Archived(seasons'))
  BY <1>2, <1>6, AwardedAgain DEF SeasonInv, TitlesFollowTheArchive
<1>8. now' \in Time
  BY <1>1, <1>2, TimeAssumption DEF Time
<1>9. Rows(settings', seasons', now')
  BY <1>2, <1>5
<1> QED
  BY <1>1, <1>2, <1>6, <1>7, <1>8, <1>9 DEF SeasonInv, TitlesFollowTheArchive

-----------------------------------------------------------------------------
(* Events and those that follow them *)

EventRows == {NoSuchEvent} \cup [there : {TRUE}, at : Nat, weekly : BOOLEAN, over : BOOLEAN]
Endings == {Nothing} \cup [going : {TRUE}, match : Match, close : BOOLEAN]

(* No event follows itself or one that is not there.                       *)
PlansMet ==
  \A e \in Event : plan[e] # NoEvent => plan[e] # e /\ event[e].there /\ event[plan[e]].there

EventInv ==
  /\ event \in [Event -> EventRows]
  /\ plan \in [Event -> Event \cup {NoEvent}]
  /\ ending \in [Event -> Endings]
  /\ \A e \in Event : ending[e].going => Open(e)
  /\ PlansMet
  /\ OneSuccessor

(* What an event's row holds, before it is over and after.                 *)
LEMMA PlannedRow ==
  ASSUME NEW r \in EventRows, r.there
  PROVE  /\ r.at \in Nat /\ r.weekly \in BOOLEAN /\ r.over \in BOOLEAN
         /\ [r EXCEPT !.over = TRUE] \in EventRows
         /\ [r EXCEPT !.over = TRUE].there /\ [r EXCEPT !.over = TRUE].over
         /\ [r EXCEPT !.over = TRUE].at = r.at /\ [r EXCEPT !.over = TRUE].weekly = r.weekly
<1>1. r # NoSuchEvent
  BY DEF NoSuchEvent
<1> QED
  BY <1>1 DEF EventRows

(* A new event is planned and not over.                                    *)
LEMMA NewRow ==
  ASSUME NEW at \in Nat, NEW weekly \in BOOLEAN
  PROVE  /\ Planned(at, weekly) \in EventRows /\ Planned(at, weekly).there /\ ~Planned(at, weekly).over
         /\ Planned(at, weekly).at = at /\ Planned(at, weekly).weekly = weekly
BY DEF Planned, EventRows

(* An event that is not there has no part in any plan, nor any match.      *)
LEMMA FreeEvent ==
  ASSUME EventInv, NEW f \in Event, ~event[f].there
  PROVE  /\ plan[f] = NoEvent /\ \A g \in Event : plan[g] # f
         /\ ~ending[f].going
BY EventAssumption DEF EventInv, PlansMet, Open

(* A weekly event that ends gets its successor, another one does not.      *)
LEMMA FollowStep ==
  ASSUME EventInv, NEW e \in Event, Open(e), Follow(e)
  PROVE  /\ event' \in [Event -> EventRows] /\ plan' \in [Event -> Event \cup {NoEvent}]
         /\ PlansMet' /\ OneSuccessor'
         /\ \A g \in Event : g # e /\ Open(g) => Open(g)'
<1>1. /\ event \in [Event -> EventRows] /\ plan \in [Event -> Event \cup {NoEvent}] /\ PlansMet /\ OneSuccessor
      /\ event[e].there /\ ~event[e].over /\ event[e] \in EventRows
  BY DEF EventInv, Open
<1> DEFINE done == [event[e] EXCEPT !.over = TRUE]
<1>2. done \in EventRows /\ done.there /\ done.over /\ done.at = event[e].at /\ done.weekly = event[e].weekly /\ done.at \in Nat
  BY <1>1, PlannedRow
<1>3. \A g \in Event : plan[g] # e
  BY <1>1 DEF OneSuccessor
<1>4. CASE event[e].weekly
  <2>1. PICK f \in Event :
          /\ ~event[f].there
          /\ event' = [event EXCEPT ![e].over = TRUE, ![f] = Planned(event[e].at + Week, TRUE)]
          /\ plan' = [plan EXCEPT ![f] = e]
    BY <1>3, <1>4 DEF Follow
  <2> DEFINE next == Planned(event[e].at + Week, TRUE)
  <2>2. next \in EventRows /\ next.there /\ ~next.over /\ next.at = done.at + Week /\ next.weekly
    <3>1. event[e].at + Week \in Nat /\ done.at = event[e].at
      BY <1>2, TimeAssumption
    <3>2. /\ next \in EventRows /\ next.there /\ ~next.over /\ next.at = event[e].at + Week
          /\ next.weekly = TRUE
      BY <3>1, NewRow
    <3> QED
      BY <3>1, <3>2
  <2>3. f # e /\ plan[f] = NoEvent /\ \A g \in Event : plan[g] # f
    BY <1>1, <2>1, FreeEvent
  <2>4. event' = [[event EXCEPT ![e] = done] EXCEPT ![f] = next]
    BY <2>1
  <2> HIDE DEF done, next
  <2>5. /\ event' \in [Event -> EventRows] /\ event'[e] = done /\ event'[f] = next
        /\ \A g \in Event : g # e /\ g # f => event'[g] = event[g]
    BY <1>1, <1>2, <2>2, <2>3, <2>4
  <2>6. /\ plan' \in [Event -> Event \cup {NoEvent}] /\ plan'[f] = e
        /\ \A g \in Event : g # f => plan'[g] = plan[g]
    BY <1>1, <2>1
  <2>7. PlansMet'
    <3> SUFFICES ASSUME NEW g \in Event, plan'[g] # NoEvent
                 PROVE  plan'[g] # g /\ event'[g].there /\ event'[plan'[g]].there
      BY DEF PlansMet
    <3>1. CASE g = f
      BY <1>2, <2>2, <2>3, <2>5, <2>6, <3>1
    <3>2. CASE g # f
      <4>1. plan'[g] = plan[g] /\ plan[g] \in Event /\ plan[g] # g /\ event[g].there /\ event[plan[g]].there /\ plan[g] # f
        BY <1>1, <2>3, <2>6, <3>2 DEF PlansMet
      <4>2. \A x \in Event : event[x].there /\ x # f => event'[x].there
        BY <1>2, <2>5
      <4> QED
        BY <3>2, <4>1, <4>2
    <3> QED
      BY <3>1, <3>2
  <2>8. OneSuccessor'
    <3> SUFFICES ASSUME NEW x \in Event
                 PROVE  LET after == {g \in Event : plan'[g] = x}
                        IN IF event'[x].there /\ event'[x].over /\ event'[x].weekly
                           THEN \E g \in Event : after = {g} /\ event'[g].at = event'[x].at + Week /\ event'[g].weekly
                           ELSE after = {}
      BY DEF OneSuccessor
    <3>1. CASE x = e
      <4>1. {g \in Event : plan'[g] = x} = {f}
        BY <1>3, <2>6, <3>1
      <4>2. event'[f].at = event'[x].at + Week /\ event'[f].weekly
        BY <2>2, <2>5, <3>1
      <4>3. event'[x].there /\ event'[x].over /\ event'[x].weekly
        BY <1>2, <1>4, <2>5, <3>1
      <4> QED
        BY <4>1, <4>2, <4>3
    <3>2. CASE x = f
      <4>1. {g \in Event : plan'[g] = x} = {}
        BY <2>3, <2>6, <3>2
      <4>2. ~event'[x].over
        BY <2>2, <2>5, <3>2
      <4> QED
        BY <4>1, <4>2
    <3>3. CASE x # e /\ x # f
      <4>1. {g \in Event : plan'[g] = x} = {g \in Event : plan[g] = x}
        BY <2>3, <2>6, <3>3, EventAssumption
      <4>2. event'[x] = event[x]
        BY <2>5, <3>3
      <4>3. \A g \in Event : plan[g] = x => g # f
        BY <2>3, <3>3, EventAssumption
      <4>4. CASE event[x].there /\ event[x].over /\ event[x].weekly
        <5>1. PICK g \in Event : {h \in Event : plan[h] = x} = {g} /\ event[g].at = event[x].at + Week /\ event[g].weekly
          BY <1>1, <4>4 DEF OneSuccessor
        <5>2. plan[g] = x /\ g # f
          BY <4>3, <5>1
        <5>3. event'[g].at = event[g].at /\ event'[g].weekly
          BY <1>2, <2>5, <5>1, <5>2
        <5> QED
          BY <4>1, <4>2, <4>4, <5>1, <5>3
      <4>5. CASE ~(event[x].there /\ event[x].over /\ event[x].weekly)
        <5>1. {g \in Event : plan[g] = x} = {}
          BY <1>1, <4>5 DEF OneSuccessor
        <5> QED
          BY <4>1, <4>2, <4>5, <5>1
      <4> QED
        BY <4>4, <4>5
    <3> QED
      BY <3>1, <3>2, <3>3
  <2>9. \A g \in Event : g # e /\ Open(g) => Open(g)'
    BY <2>1, <2>5 DEF Open
  <2> QED
    BY <2>5, <2>6, <2>7, <2>8, <2>9
<1>5. CASE ~event[e].weekly
  <2>1. event' = [event EXCEPT ![e].over = TRUE] /\ plan' = plan
    BY <1>5 DEF Follow
  <2> HIDE DEF done
  <2>2. event' = [event EXCEPT ![e] = done]
    BY <2>1 DEF done
  <2>3. event' \in [Event -> EventRows] /\ event'[e] = done /\ \A g \in Event : g # e => event'[g] = event[g]
    BY <1>1, <1>2, <2>2
  <2>4. \A g \in Event : /\ event'[g].there <=> event[g].there
                         /\ event'[g].at = event[g].at /\ event'[g].weekly = event[g].weekly
    BY <1>1, <1>2, <2>3
  <2>5. PlansMet'
    BY <1>1, <2>1, <2>4 DEF PlansMet
  <2>6. OneSuccessor'
    <3> SUFFICES ASSUME NEW x \in Event
                 PROVE  LET after == {g \in Event : plan'[g] = x}
                        IN IF event'[x].there /\ event'[x].over /\ event'[x].weekly
                           THEN \E g \in Event : after = {g} /\ event'[g].at = event'[x].at + Week /\ event'[g].weekly
                           ELSE after = {}
      BY DEF OneSuccessor
    <3>1. CASE x = e
      BY <1>1, <1>3, <1>5, <2>1, <2>4, <3>1 DEF OneSuccessor
    <3>2. CASE x # e
      <4>1. event'[x] = event[x] /\ plan' = plan
        BY <2>1, <2>3, <3>2
      <4>2. CASE event[x].there /\ event[x].over /\ event[x].weekly
        <5>1. PICK g \in Event : {h \in Event : plan[h] = x} = {g} /\ event[g].at = event[x].at + Week /\ event[g].weekly
          BY <1>1, <4>2 DEF OneSuccessor
        <5>2. event'[g].at = event[g].at /\ event'[g].weekly
          BY <2>4, <5>1
        <5> QED
          BY <4>1, <4>2, <5>1, <5>2
      <4>3. CASE ~(event[x].there /\ event[x].over /\ event[x].weekly)
        <5>1. {g \in Event : plan[g] = x} = {}
          BY <1>1, <4>3 DEF OneSuccessor
        <5> QED
          BY <4>1, <4>3, <5>1
      <4> QED
        BY <4>2, <4>3
    <3> QED
      BY <3>1, <3>2
  <2>7. \A g \in Event : g # e /\ Open(g) => Open(g)'
    BY <2>3 DEF Open
  <2> QED
    BY <1>1, <2>1, <2>3, <2>5, <2>6, <2>7
<1> QED
  BY <1>4, <1>5

(* What a step of events leaves of the seasons, and the other way round.   *)
LEMMA EventStepKeeps ==
  ASSUME EventInv, SeasonInv, EventStep
  PROVE  EventInv' /\ matches' \subseteq Match /\ UNCHANGED <<now, seasonVars>>
<1> PICK e \in Event :
      \/ \E at \in Time, weekly \in BOOLEAN : Schedule(e, at, weekly)
      \/ \E w, l \in Player, close \in BOOLEAN : BeginFinish(e, w, l, close)
      \/ FinishMatch(e)
      \/ FinishFails(e)
      \/ FinishEvent(e)
  BY DEF EventStep
<1>1. /\ event \in [Event -> EventRows] /\ plan \in [Event -> Event \cup {NoEvent}] /\ ending \in [Event -> Endings]
      /\ \A f \in Event : ending[f].going => Open(f)
      /\ PlansMet /\ OneSuccessor
  BY DEF EventInv
<1>2. matches \subseteq Match /\ now \in Time /\ Time \subseteq Nat
  BY TimeAssumption DEF SeasonInv, Time
<1>3. Nothing \in Endings /\ ~Nothing.going
  BY DEF Nothing, Endings
<1>4. ASSUME NEW at \in Time, NEW weekly \in BOOLEAN, Schedule(e, at, weekly)
      PROVE  EventInv' /\ matches' \subseteq Match /\ UNCHANGED <<now, seasonVars>>
  <2>1. /\ ~event[e].there /\ event' = [event EXCEPT ![e] = Planned(at, weekly)]
        /\ UNCHANGED <<now, seasonVars, matches, ending, plan>>
    BY <1>4 DEF Schedule
  <2>2. Planned(at, weekly) \in EventRows /\ Planned(at, weekly).there /\ ~Planned(at, weekly).over
    BY <1>2, NewRow
  <2>3. /\ event' \in [Event -> EventRows] /\ event'[e].there /\ ~event'[e].over
        /\ \A f \in Event : f # e => event'[f] = event[f]
    BY <1>1, <2>1, <2>2
  <2>4. plan[e] = NoEvent /\ (\A g \in Event : plan[g] # e) /\ ~ending[e].going
    BY <2>1, FreeEvent
  <2>5. \A f \in Event : ending'[f].going => Open(f)'
    BY <1>1, <2>1, <2>3, <2>4 DEF Open
  <2>6. PlansMet'
    BY <1>1, <2>1, <2>3, <2>4 DEF PlansMet
  <2>7. OneSuccessor'
    <3> SUFFICES ASSUME NEW x \in Event
                 PROVE  LET after == {g \in Event : plan'[g] = x}
                        IN IF event'[x].there /\ event'[x].over /\ event'[x].weekly
                           THEN \E g \in Event : after = {g} /\ event'[g].at = event'[x].at + Week /\ event'[g].weekly
                           ELSE after = {}
      BY DEF OneSuccessor
    <3>1. CASE x = e
      BY <2>1, <2>3, <2>4, <3>1
    <3>2. CASE x # e
      <4>1. event'[x] = event[x] /\ plan' = plan
        BY <2>1, <2>3, <3>2
      <4>2. CASE event[x].there /\ event[x].over /\ event[x].weekly
        <5>1. PICK g \in Event : {h \in Event : plan[h] = x} = {g} /\ event[g].at = event[x].at + Week /\ event[g].weekly
          BY <1>1, <4>2 DEF OneSuccessor
        <5>2. plan[g] = x /\ g # e
          BY <2>4, <5>1, EventAssumption
        <5>3. event'[g] = event[g]
          BY <2>3, <5>2
        <5> QED
          BY <4>1, <4>2, <5>1, <5>3
      <4>3. CASE ~(event[x].there /\ event[x].over /\ event[x].weekly)
        <5>1. {g \in Event : plan[g] = x} = {}
          BY <1>1, <4>3 DEF OneSuccessor
        <5> QED
          BY <4>1, <4>3, <5>1
      <4> QED
        BY <4>2, <4>3
    <3> QED
      BY <3>1, <3>2
  <2> QED
    BY <1>1, <1>2, <2>1, <2>3, <2>5, <2>6, <2>7 DEF EventInv
<1>5. ASSUME NEW x \in Endings, x.going => Open(e), ending' = [ending EXCEPT ![e] = x], UNCHANGED <<event, plan>>
      PROVE  EventInv'
  <2>1. ending' \in [Event -> Endings] /\ \A f \in Event : ending'[f] = IF f = e THEN x ELSE ending[f]
    BY <1>1, <1>5
  <2>2. \A f \in Event : ending'[f].going => Open(f)'
    BY <1>1, <1>5, <2>1 DEF Open
  <2>3. PlansMet' /\ OneSuccessor'
    BY <1>1, <1>5 DEF PlansMet, OneSuccessor
  <2> QED
    BY <1>1, <1>5, <2>1, <2>2, <2>3 DEF EventInv
<1>6. ASSUME NEW w \in Player, NEW l \in Player, NEW close \in BOOLEAN, BeginFinish(e, w, l, close)
      PROVE  EventInv' /\ matches' \subseteq Match /\ UNCHANGED <<now, seasonVars>>
  <2>1. PICK id \in 1 .. MaxMatches :
          ending' = [ending EXCEPT ![e] = Finishing([id |-> id, ended |-> now, winner |-> w, loser |-> l], close)]
    BY <1>6 DEF BeginFinish
  <2> DEFINE x == Finishing([id |-> id, ended |-> now, winner |-> w, loser |-> l], close)
  <2>2. id \in Nat /\ now \in Int
    BY <1>2, TimeAssumption
  <2>3. x \in Endings
    BY <2>2 DEF Finishing, Endings, Match
  <2>4. Open(e) /\ UNCHANGED <<now, seasonVars, matches, eventVars>>
    BY <1>6 DEF BeginFinish
  <2> HIDE DEF x
  <2>5. ending' = [ending EXCEPT ![e] = x]
    BY <2>1 DEF x
  <2> QED
    BY <1>2, <1>5, <2>3, <2>4, <2>5 DEF eventVars
<1>7. CASE FinishFails(e)
  BY <1>2, <1>3, <1>5, <1>7 DEF FinishFails, eventVars
<1>8. ASSUME Open(e), Follow(e),
             ending' = [ending EXCEPT ![e] = Nothing] \/ (ending' = ending /\ ~ending[e].going)
      PROVE  EventInv'
  <2>1. /\ event' \in [Event -> EventRows] /\ plan' \in [Event -> Event \cup {NoEvent}]
        /\ PlansMet' /\ OneSuccessor'
        /\ \A g \in Event : g # e /\ Open(g) => Open(g)'
    BY <1>8, FollowStep
  <2>2. /\ ending' \in [Event -> Endings] /\ ~ending'[e].going
        /\ \A f \in Event : f # e => ending'[f] = ending[f]
    BY <1>1, <1>3, <1>8
  <2>3. \A f \in Event : ending'[f].going => Open(f)'
    BY <1>1, <2>1, <2>2
  <2> QED
    BY <2>1, <2>2, <2>3 DEF EventInv
<1>9. CASE FinishMatch(e)
  <2>1. /\ ending[e].going /\ Open(e) /\ ending' = [ending EXCEPT ![e] = Nothing]
        /\ matches' = matches \cup {ending[e].match} /\ UNCHANGED <<now, seasonVars>>
    BY <1>1, <1>9 DEF FinishMatch
  <2>2. ending[e].match \in Match
    <3>1. ending[e] \in Endings /\ ending[e] # Nothing
      BY <1>1, <1>3, <2>1
    <3> QED
      BY <3>1 DEF Endings
  <2>3. CASE ending[e].close
    <3>1. Follow(e)
      BY <1>9, <2>3 DEF FinishMatch
    <3>2. EventInv'
      <4>1. Open(e)
        BY <2>1
      <4>2. ending' = [ending EXCEPT ![e] = Nothing]
        BY <2>1
      <4> QED
        BY <1>8, <3>1, <4>1, <4>2
    <3>3. matches' \subseteq Match
      BY <1>2, <2>1, <2>2
    <3> QED
      BY <2>1, <3>2, <3>3
  <2>4. CASE ~ending[e].close
    <3>1. UNCHANGED <<event, plan>>
      BY <1>9, <2>4 DEF FinishMatch, eventVars
    <3> QED
      BY <1>2, <1>3, <1>5, <2>1, <2>2, <3>1
  <2> QED
    BY <2>3, <2>4
<1>10. CASE FinishEvent(e)
  BY <1>2, <1>8, <1>10 DEF FinishEvent
<1> QED
  BY <1>4, <1>6, <1>7, <1>9, <1>10

-----------------------------------------------------------------------------
(* Every step keeps it all *)

CalendarInv == SeasonInv /\ EventInv

(* At first there is no season, and nothing is planned.                    *)
LEMMA CalendarInit == Init => CalendarInv
<1> SUFFICES ASSUME Init PROVE CalendarInv
  OBVIOUS
<1>1. SeasonInv
  <2>1. now \in Time /\ matches \subseteq Match
    BY TimeAssumption DEF Init, Time
  <2>2. settings \in Setting /\ ~settings.enabled
    <3>1. PICK n \in Length : settings = [enabled |-> FALSE, mode |-> "days", length |-> n, fixedEnd |-> 0]
      BY DEF Init
    <3> QED
      BY <3>1 DEF Setting
  <2>3. seasons = <<>> /\ seasons \in Seq(Season) /\ DOMAIN seasons = {}
    BY DEF Init
  <2>4. Rows(settings, seasons, now)
    BY <2>2, <2>3 DEF Rows, Ordered
  <2>5. TitlesFollowTheArchive
    BY <2>3 DEF Init, TitlesFollowTheArchive, Awarded, Archived
  <2> QED
    BY <2>1, <2>4, <2>5 DEF SeasonInv
<1>2. EventInv
  <2>1. NoSuchEvent \in EventRows /\ ~NoSuchEvent.there /\ Nothing \in Endings /\ ~Nothing.going
    BY DEF NoSuchEvent, EventRows, Nothing, Endings
  <2>2. \A e \in Event : event[e] = NoSuchEvent /\ ending[e] = Nothing /\ plan[e] = NoEvent
    BY DEF Init
  <2>3. event \in [Event -> EventRows] /\ ending \in [Event -> Endings] /\ plan \in [Event -> Event \cup {NoEvent}]
    BY <2>1 DEF Init
  <2>4. OneSuccessor
    BY <2>1, <2>2, EventAssumption DEF OneSuccessor
  <2> QED
    BY <2>1, <2>2, <2>3, <2>4 DEF EventInv, PlansMet
<1> QED
  BY <1>1, <1>2 DEF CalendarInv

(* Every step keeps the invariant and the seasons that are archived.       *)
LEMMA CalendarStep ==
  ASSUME CalendarInv, [Next]_vars
  PROVE  CalendarInv' /\ Kept(seasons, seasons')
<1>0. SeasonInv /\ EventInv
  BY DEF CalendarInv
<1>1. ASSUME UNCHANGED <<ending, eventVars>> PROVE EventInv'
  BY <1>0, <1>1 DEF EventInv, eventVars, PlansMet, OneSuccessor, Open
<1>2. ASSUME UNCHANGED seasons PROVE Kept(seasons, seasons')
  BY <1>2 DEF Kept, Archived
<1>3. ASSUME UNCHANGED <<now, seasonVars>>, matches' \subseteq Match PROVE SeasonInv'
  BY <1>0, <1>3 DEF SeasonInv, seasonVars, TitlesFollowTheArchive
<1>4. CASE Tick
  <2>1. now < MaxTime /\ now' = now + 1 /\ UNCHANGED <<seasonVars, matches, ending, eventVars>>
    BY <1>4 DEF Tick
  <2>2. now \in Int /\ now' \in Time
    BY <1>0, <2>1, TimeAssumption DEF SeasonInv, Time
  <2>3. Rows(settings, seasons, now) /\ \A i \in DOMAIN seasons : seasons[i].starts \in Int /\ seasons[i].ends \in Int
    BY <1>0, SeasonRows DEF SeasonInv, Rows, Season
  <2>4. Rows(settings, seasons, now + 1)
    <3>1. \A i \in DOMAIN seasons : seasons[i].starts <= now + 1
      BY <2>2, <2>3 DEF Rows
    <3>2. ~settings.enabled => \A i \in DOMAIN seasons : seasons[i].ends <= now + 1
      BY <2>2, <2>3 DEF Rows
    <3> QED
      BY <2>3, <3>1, <3>2 DEF Rows
  <2>5. SeasonInv'
    BY <1>0, <2>1, <2>2, <2>4 DEF SeasonInv, seasonVars, TitlesFollowTheArchive
  <2> QED
    BY <1>1, <1>2, <2>1, <2>5 DEF CalendarInv, seasonVars
<1>5. ASSUME NEW at \in Time, Synchronize(at) \/ MyTrophies(at) PROVE CalendarInv' /\ Kept(seasons, seasons')
  BY <1>0, <1>1, <1>5, LookStep DEF CalendarInv
<1>6. ASSUME NEW set \in Choices, UpdateSettings(set) PROVE CalendarInv' /\ Kept(seasons, seasons')
  BY <1>0, <1>1, <1>6, SettingsStep DEF CalendarInv
<1>7. CASE EventStep
  BY <1>0, <1>2, <1>3, <1>7, EventStepKeeps DEF CalendarInv, seasonVars
<1>8. CASE UNCHANGED vars
  BY <1>0, <1>1, <1>2, <1>3, <1>8 DEF vars, CalendarInv, seasonVars, eventVars, SeasonInv
<1> QED
  BY <1>4, <1>5, <1>6, <1>7, <1>8 DEF Next

(* So the invariant always holds.                                          *)
LEMMA CalendarAlways == Spec => []CalendarInv
<1>1. CalendarInv /\ [Next]_vars => CalendarInv'
  BY CalendarStep
<1> QED
  BY <1>1, CalendarInit, PTL DEF Spec

-----------------------------------------------------------------------------
(***************************************************************************)
(* Rows keep their types, and no event follows itself or one that is not   *)
(* there.                                                                  *)
(***************************************************************************)
THEOREM CalendarIsWellFormed == Spec => []TypeOK
<1>1. ASSUME CalendarInv PROVE TypeOK
  <2>1. /\ now \in Time /\ matches \subseteq Match /\ settings \in Setting /\ seasons \in Seq(Season)
    BY <1>1 DEF CalendarInv, SeasonInv, Rows
  <2>2. trophies \subseteq [season : Nat, person : Player \ Guest]
    BY <1>1, <2>1, TitlesType DEF CalendarInv, SeasonInv, TitlesFollowTheArchive
  <2>3. ASSUME NEW e \in Event
        PROVE  /\ ending[e] = Nothing \/ (ending[e].match \in Match /\ ending[e].close \in BOOLEAN /\ Open(e))
               /\ event[e] = NoSuchEvent \/ (event[e].at \in Nat /\ event[e].weekly \in BOOLEAN /\ event[e].over \in BOOLEAN)
               /\ plan[e] # NoEvent => plan[e] \in Event \ {e} /\ event[e].there /\ event[plan[e]].there
    <3>1. event[e] \in EventRows /\ ending[e] \in Endings /\ plan[e] \in Event \cup {NoEvent} /\ PlansMet
          /\ (ending[e].going => Open(e))
      BY <1>1 DEF CalendarInv, EventInv
    <3>2. ending[e] = Nothing \/ (ending[e].going /\ ending[e].match \in Match /\ ending[e].close \in BOOLEAN)
      BY <3>1 DEF Endings
    <3>3. event[e] = NoSuchEvent \/ (event[e].at \in Nat /\ event[e].weekly \in BOOLEAN /\ event[e].over \in BOOLEAN)
      BY <3>1 DEF EventRows
    <3>4. plan[e] # NoEvent => plan[e] \in Event \ {e} /\ event[e].there /\ event[plan[e]].there
      BY <3>1 DEF PlansMet
    <3> QED
      BY <3>1, <3>2, <3>3, <3>4
  <2> QED
    BY <2>1, <2>2, <2>3 DEF TypeOK
<1> QED
  BY <1>1, CalendarAlways, PTL

(***************************************************************************)
(* Whoever looks, and whatever is set: seasons follow one another, and all *)
(* but the running one are archived.                                       *)
(***************************************************************************)
THEOREM SeasonsAlwaysFollow == Spec => []SeasonsFollow
<1>1. ASSUME CalendarInv PROVE SeasonsFollow
  <2>1. seasons \in Seq(Season) /\ Rows(settings, seasons, now)
    BY <1>1 DEF CalendarInv, SeasonInv, Rows
  <2>2. DOMAIN seasons = 1 .. Len(seasons) /\ Len(seasons) \in Nat
    BY <2>1, SeasonRows
  <2>3. \A i \in DOMAIN seasons : i > 1 => i - 1 \in DOMAIN seasons /\ i - 1 < i
    BY <2>2
  <2> QED
    BY <2>1, <2>3 DEF SeasonsFollow, Rows, Ordered
<1> QED
  BY <1>1, CalendarAlways, PTL

(***************************************************************************)
(* No match is in the archives of two seasons.                             *)
(***************************************************************************)
THEOREM MatchesCountOnce == Spec => []NoMatchTwice
<1>1. ASSUME CalendarInv PROVE NoMatchTwice
  <2>1. seasons \in Seq(Season) /\ Ordered(seasons)
    BY <1>1 DEF CalendarInv, SeasonInv, Rows
  <2>2. DOMAIN seasons = 1 .. Len(seasons) /\ Len(seasons) \in Nat /\ \A i \in DOMAIN seasons : seasons[i] \in Season
    BY <2>1, SeasonRows
  <2>3. ASSUME NEW i \in DOMAIN seasons, NEW j \in DOMAIN seasons, i < j, NEW m \in seasons[i].table, m \in seasons[j].table
        PROVE  FALSE
    <3>1. m \in Match /\ seasons[i].ends \in Int /\ seasons[j].starts \in Int
      BY <2>2 DEF Season
    <3>2. m.ended \in Int
      BY <3>1 DEF Match
    <3>3. m.ended < seasons[i].ends /\ seasons[j].starts <= m.ended /\ seasons[i].ends <= seasons[j].starts
      BY <2>1, <2>3 DEF Ordered, Within
    <3> QED
      BY <3>1, <3>2, <3>3
  <2>4. ASSUME NEW i \in DOMAIN seasons, NEW j \in DOMAIN seasons, i # j PROVE i < j \/ j < i
    BY <2>2, <2>4
  <2> QED
    BY <2>3, <2>4 DEF NoMatchTwice
<1> QED
  BY <1>1, CalendarAlways, PTL

(***************************************************************************)
(* The titles are those of the archives, and of all of them.               *)
(***************************************************************************)
THEOREM TitlesAreOfTheArchive == Spec => []TitlesFollowTheArchive
<1>1. CalendarInv => TitlesFollowTheArchive
  BY DEF CalendarInv, SeasonInv
<1> QED
  BY <1>1, CalendarAlways, PTL

(***************************************************************************)
(* A weekly event that is over has one successor, the others have none.    *)
(***************************************************************************)
THEOREM WeeksFollow == Spec => []OneSuccessor
<1>1. CalendarInv => OneSuccessor
  BY DEF CalendarInv, EventInv
<1> QED
  BY <1>1, CalendarAlways, PTL

(***************************************************************************)
(* An archived season is never changed again.                              *)
(***************************************************************************)
THEOREM ArchivesStay == Spec => ArchiveIsFinal
<1>1. ASSUME CalendarInv, [Next]_vars
      PROVE  [ \A i \in Archived(seasons) : i \in DOMAIN seasons' /\ seasons'[i] = seasons[i] ]_vars
  BY <1>1, CalendarStep DEF Kept
<1> QED
  BY <1>1, CalendarAlways, PTL DEF Spec, ArchiveIsFinal
=============================================================================
