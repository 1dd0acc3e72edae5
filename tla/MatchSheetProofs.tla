--------------------------- MODULE MatchSheetProofs ---------------------------
(***************************************************************************)
(* Proofs about the sheets of the matches, for any people, any launches    *)
(* and any number of matches.                                              *)
(***************************************************************************)
EXTENDS MatchSheet, FiniteSetTheorems, TLAPS

Sheets == [Launch -> Entry \cup {NoEntry}]

(* The launches of sheet s that score for side t of match m. *)
GoalsIn(s, m, t) == {id \in Entries(s, m) : ScoresFor(s[id]) = t}

Yellows(s, m, p) == Cardinality(Cards(s, m, p, "yellow_card"))
Reds(s, m, p)    == Cardinality(Cards(s, m, p, "red_card"))

(* Cards somebody may have: two yellow ones, or a red one, or less. *)
Allowed(s, m, p) ==
  /\ Yellows(s, m, p) <= 2
  /\ Reds(s, m, p) <= 1
  /\ Yellows(s, m, p) = 2 => Reds(s, m, p) = 0

(* Is match m still to be finished?  And if not, what must its result be? *)
Open(m) == m > current \/ (m = current /\ playing)

Verdict(s, m, t) ==
  LET mine   == Cardinality(GoalsIn(s, m, t))
      theirs == Cardinality(GoalsIn(s, m, Other(t)))
  IN IF mine > theirs THEN "win" ELSE IF mine < theirs THEN "loss" ELSE "draw"

(* No launch is on the sheet of a match that has not begun. *)
NothingAhead == \A id \in Launch : sheet[id] # NoEntry => sheet[id].match <= current

SheetInv ==
  /\ TypeOK
  /\ ScoreMatchesSheet
  /\ ExpulsionsAreExact
  /\ ResultsMatchSheets
  /\ OnlyThoseWhoPlayed
  /\ NothingAhead

-----------------------------------------------------------------------------
(* An empty row is no entry. *)
LEMMA NoEntryIsNone == NoEntry \notin Entry
<1>1. \A e \in Entry : e.match \in 1 .. MaxMatches
  BY DEF Entry, Match
<1>2. NoEntry.match = 0
  BY DEF NoEntry
<1> QED
  BY <1>1, <1>2, MaxMatchesAssumption

(* Launches can be counted. *)
LEMMA CountedLaunches ==
  ASSUME NEW S \in SUBSET Launch
  PROVE  IsFiniteSet(S) /\ Cardinality(S) \in Nat
BY PeopleAssumption, FS_Subset, FS_CardinalityType

(* Cards are rows of the sheet,                                            *)
LEMMA CardsAreLaunches ==
  ASSUME NEW s, NEW m, NEW p, NEW k
  PROVE  Cards(s, m, p, k) \in SUBSET Launch
BY DEF Cards, Entries

(* and so are goals.                                                       *)
LEMMA GoalsAreLaunches ==
  ASSUME NEW s, NEW m, NEW t
  PROVE  GoalsIn(s, m, t) \in SUBSET Launch
BY DEF GoalsIn, Entries

(* The rows of sheet s2 are those of s and entry e, as id, which s lacks. *)
OneMore(s, s2, id, e) ==
  /\ \A m \in Match : id \notin Entries(s, m)
  /\ \A m \in Match : \A x :
       x \in Entries(s2, m) <=> x \in Entries(s, m) \/ (x = id /\ m = e.match)
  /\ \A m \in Match, t \in Side : \A x :
       x \in GoalsIn(s2, m, t) <=>
         x \in GoalsIn(s, m, t) \/ (x = id /\ m = e.match /\ ScoresFor(e) = t)
  /\ \A m \in Match, p \in Player, k \in Kind : \A x :
       x \in Cards(s2, m, p, k) <=>
         x \in Cards(s, m, p, k) \/ (x = id /\ m = e.match /\ p = e.who /\ k = e.kind)

(* Writing a free row adds one entry to the sheet.                         *)
LEMMA OneMoreEntry ==
  ASSUME NEW s \in Sheets, NEW id \in Launch, NEW e \in Entry, s[id] = NoEntry,
         NEW s2 \in Sheets, s2 = [s EXCEPT ![id] = e]
  PROVE  OneMore(s, s2, id, e)
<1>1. /\ s2[id] = e /\ e # NoEntry
      /\ \A x \in Launch \ {id} : s2[x] = s[x]
  BY NoEntryIsNone DEF Sheets
<1>2. \A m \in Match : id \notin Entries(s, m)
  BY DEF Entries
<1>3. ASSUME NEW m \in Match, NEW x
      PROVE  x \in Entries(s2, m) <=> x \in Entries(s, m) \/ (x = id /\ m = e.match)
  BY <1>1 DEF Entries
<1>4. \A m \in Match : \A x \in Entries(s, m) : s2[x] = s[x]
  BY <1>1, <1>2 DEF Entries
<1>5. ASSUME NEW m \in Match, NEW t \in Side, NEW x
      PROVE  x \in GoalsIn(s2, m, t) <=>
               x \in GoalsIn(s, m, t) \/ (x = id /\ m = e.match /\ ScoresFor(e) = t)
  BY <1>1, <1>2, <1>3, <1>4 DEF GoalsIn
<1>6. ASSUME NEW m \in Match, NEW p \in Player, NEW k \in Kind, NEW x
      PROVE  x \in Cards(s2, m, p, k) <=>
               x \in Cards(s, m, p, k) \/ (x = id /\ m = e.match /\ p = e.who /\ k = e.kind)
  BY <1>1, <1>2, <1>3, <1>4 DEF Cards
<1> QED
  BY <1>2, <1>3, <1>5, <1>6 DEF OneMore

(* What that makes of the numbers of goals and of cards. *)
OneMoreCount(s, s2, e) ==
  /\ \A m \in Match, t \in Side :
       /\ Cardinality(GoalsIn(s, m, t)) \in Nat
       /\ Cardinality(GoalsIn(s2, m, t)) =
            Cardinality(GoalsIn(s, m, t)) + (IF m = e.match /\ ScoresFor(e) = t THEN 1 ELSE 0)
  /\ \A m \in Match, p \in Player :
       /\ Yellows(s, m, p) \in Nat /\ Reds(s, m, p) \in Nat
       /\ Yellows(s2, m, p) =
            Yellows(s, m, p) + (IF m = e.match /\ p = e.who /\ e.kind = "yellow_card" THEN 1 ELSE 0)
       /\ Reds(s2, m, p) =
            Reds(s, m, p) + (IF m = e.match /\ p = e.who /\ e.kind = "red_card" THEN 1 ELSE 0)

(* A set that gains one member, or does not, counts as many.               *)
LEMMA CountOneMore ==
  ASSUME NEW S \in SUBSET Launch, NEW T \in SUBSET Launch, NEW id, NEW c \in BOOLEAN,
         id \notin S, \A x : x \in T <=> x \in S \/ (x = id /\ c)
  PROVE  /\ Cardinality(S) \in Nat
         /\ Cardinality(T) = Cardinality(S) + (IF c THEN 1 ELSE 0)
<1>1. IsFiniteSet(S) /\ Cardinality(S) \in Nat
  BY CountedLaunches
<1>2. CASE c
  <2>1. T = S \cup {id}
    BY <1>2
  <2>2. Cardinality(S \cup {id}) = Cardinality(S) + 1
    BY <1>1, FS_AddElement
  <2> QED
    BY <1>1, <1>2, <2>1, <2>2
<1>3. CASE ~c
  <2>1. T = S
    BY <1>3
  <2> QED
    BY <1>1, <1>3, <2>1
<1> QED
  BY <1>2, <1>3

(* So one more entry counts once, for its match, its side and its player.  *)
LEMMA OneMoreCounted ==
  ASSUME NEW s, NEW s2, NEW id, NEW e, OneMore(s, s2, id, e)
  PROVE  OneMoreCount(s, s2, e)
<1>1. ASSUME NEW m \in Match, NEW t \in Side
      PROVE  /\ Cardinality(GoalsIn(s, m, t)) \in Nat
             /\ Cardinality(GoalsIn(s2, m, t)) =
                  Cardinality(GoalsIn(s, m, t)) + (IF m = e.match /\ ScoresFor(e) = t THEN 1 ELSE 0)
  <2>1. id \notin GoalsIn(s, m, t)
    BY DEF OneMore, GoalsIn
  <2>2. \A x : x \in GoalsIn(s2, m, t) <=>
                 x \in GoalsIn(s, m, t) \/ (x = id /\ (m = e.match /\ ScoresFor(e) = t))
    BY DEF OneMore
  <2> QED
    BY <2>1, <2>2, GoalsAreLaunches, CountOneMore
<1>2. ASSUME NEW m \in Match, NEW p \in Player, NEW k \in {"yellow_card", "red_card"}
      PROVE  /\ Cardinality(Cards(s, m, p, k)) \in Nat
             /\ Cardinality(Cards(s2, m, p, k)) =
                  Cardinality(Cards(s, m, p, k)) + (IF m = e.match /\ p = e.who /\ e.kind = k THEN 1 ELSE 0)
  <2>1. id \notin Cards(s, m, p, k)
    BY DEF OneMore, Cards
  <2>2. k \in Kind
    BY DEF Kind
  <2>3. \A x : x \in Cards(s2, m, p, k) <=>
                 x \in Cards(s, m, p, k) \/ (x = id /\ (m = e.match /\ p = e.who /\ e.kind = k))
    BY <2>2 DEF OneMore
  <2> QED
    BY <2>1, <2>3, CardsAreLaunches, CountOneMore
<1> QED
  BY <1>1, <1>2 DEF OneMoreCount, Yellows, Reds

-----------------------------------------------------------------------------
(* ExpulsionsAreExact, for one person, in terms of the numbers above. *)
LEMMA InTermsOfCounts ==
  ASSUME NEW s, NEW m, NEW p, NEW auto \in BOOLEAN
  PROVE  (/\ auto <=> Cardinality(Cards(s, m, p, "yellow_card")) = 2
          /\ Cardinality(Cards(s, m, p, "yellow_card")) <= 2
          /\ Cardinality(Cards(s, m, p, "red_card")) <= 1
          /\ ~(auto /\ Cardinality(Cards(s, m, p, "red_card")) = 1))
         <=> Allowed(s, m, p) /\ (auto <=> Yellows(s, m, p) = 2)
<1>1. Yellows(s, m, p) \in Nat /\ Reds(s, m, p) \in Nat
  BY CountedLaunches, CardsAreLaunches DEF Yellows, Reds
<1> QED
  BY <1>1 DEF Allowed, Yellows, Reds

(***************************************************************************)
(* sync_player_cards keeps the automatic red cards exact, for the person   *)
(* whose cards have just changed and for everybody else.                   *)
(***************************************************************************)
LEMMA SyncKeepsExact ==
  ASSUME TypeOK, TypeOK', ExpulsionsAreExact,
         NEW m \in Match, NEW p \in Player,
         SyncPlayerCards(m, p),
         Allowed(sheet', m, p),
         \A n \in Match, q \in Player : <<n, q>> # <<m, p>> =>
           /\ Yellows(sheet', n, q) = Yellows(sheet, n, q)
           /\ Reds(sheet', n, q) = Reds(sheet, n, q)
  PROVE  ExpulsionsAreExact'
<1>1. ASSUME NEW n \in Match, NEW q \in Player
      PROVE  /\ Allowed(sheet', n, q)
             /\ <<n, q>> \in autoRed' <=> Yellows(sheet', n, q) = 2
  <2>1. CASE <<n, q>> = <<m, p>>
    <3>1. n = m /\ q = p
      BY <2>1
    <3>2. IsFiniteSet(Cards(sheet', m, p, "red_card"))
      BY CountedLaunches, CardsAreLaunches
    <3>3. Cards(sheet', m, p, "red_card") # {} <=> Reds(sheet', m, p) # 0
      BY <3>2, FS_EmptySet DEF Reds
    <3>4. Yellows(sheet', m, p) \in Nat /\ Reds(sheet', m, p) \in Nat
      BY CountedLaunches, CardsAreLaunches DEF Yellows, Reds
    <3>5. autoRed' = IF Yellows(sheet', m, p) < 2 \/ Reds(sheet', m, p) # 0
                     THEN autoRed \ {<<m, p>>} ELSE autoRed \cup {<<m, p>>}
      BY <3>3 DEF SyncPlayerCards, Yellows
    <3>6. <<m, p>> \in autoRed' <=> ~(Yellows(sheet', m, p) < 2 \/ Reds(sheet', m, p) # 0)
      BY <3>5
    <3> QED
      BY <3>1, <3>4, <3>6 DEF Allowed
  <2>2. CASE <<n, q>> # <<m, p>>
    <3>1. <<n, q>> \in autoRed' <=> <<n, q>> \in autoRed
      BY <2>2 DEF SyncPlayerCards
    <3>2. Allowed(sheet, n, q) /\ (<<n, q>> \in autoRed <=> Yellows(sheet, n, q) = 2)
      BY InTermsOfCounts DEF ExpulsionsAreExact
    <3> QED
      BY <2>2, <3>1, <3>2 DEF Allowed
  <2> QED
    BY <2>1, <2>2
<1>2. ASSUME NEW n \in Match, NEW q \in Player
      PROVE  /\ <<n, q>> \in autoRed' <=> Cardinality(Cards(sheet', n, q, "yellow_card")) = 2
             /\ Cardinality(Cards(sheet', n, q, "yellow_card")) <= 2
             /\ Cardinality(Cards(sheet', n, q, "red_card")) <= 1
             /\ ~(<<n, q>> \in autoRed' /\ Cardinality(Cards(sheet', n, q, "red_card")) = 1)
  <2>1. Yellows(sheet', n, q) \in Nat /\ Reds(sheet', n, q) \in Nat
    BY CountedLaunches, CardsAreLaunches DEF Yellows, Reds
  <2> QED
    BY <1>1, <2>1 DEF Allowed, Yellows, Reds
<1> QED
  BY <1>2 DEF ExpulsionsAreExact

(* apply_score moves the score of the side that the entry scores for.      *)
LEMMA ScoreMoves ==
  ASSUME TypeOK, NEW e \in Entry, NEW delta \in {1, -1}, ApplyScore(e, delta)
  PROVE  /\ goals' \in [Match -> [Side -> Nat]]
         /\ \A m \in Match, t \in Side :
              goals'[m][t] = goals[m][t] + (IF m = e.match /\ ScoresFor(e) = t THEN delta ELSE 0)
<1>1. /\ goals \in [Match -> [Side -> Nat]]
      /\ e.match \in Match /\ ScoresFor(e) \in Side \cup {NoSide}
      /\ NoSide \notin Side
  BY DEF TypeOK, Entry, ScoresFor, Other, Side, NoSide
<1>2. CASE ScoresFor(e) = NoSide
  <2>1. goals' = goals
    BY <1>2 DEF ApplyScore
  <2>2. \A t \in Side : ScoresFor(e) # t
    BY <1>1, <1>2
  <2>3. \A m \in Match, t \in Side : goals[m][t] \in Nat
    BY <1>1
  <2> QED
    BY <1>1, <2>1, <2>2, <2>3
<1>3. CASE ScoresFor(e) # NoSide
  <2> DEFINE t0 == ScoresFor(e)
  <2>1. /\ t0 \in Side
        /\ goals[e.match][t0] + delta >= 0
        /\ goals' = [goals EXCEPT ![e.match][t0] = goals[e.match][t0] + delta]
    BY <1>1, <1>3 DEF ApplyScore
  <2> HIDE DEF t0
  <2>2. goals[e.match][t0] + delta \in Nat
    BY <1>1, <2>1
  <2>3. goals' \in [Match -> [Side -> Nat]]
    BY <1>1, <2>1, <2>2
  <2>4. \A m \in Match, t \in Side :
          goals'[m][t] = goals[m][t] + (IF m = e.match /\ t0 = t THEN delta ELSE 0)
    BY <1>1, <2>1
  <2> QED
    BY <2>3, <2>4 DEF t0
<1> QED
  BY <1>2, <1>3

(* While a match is in progress its result is open, and those of the other *)
(* matches depend on their sheets only.                                    *)
LEMMA ResultsStay ==
  ASSUME ResultsMatchSheets, playing, UNCHANGED <<current, playing, result>>,
         \A m \in Match, t \in Side : m # current =>
           Cardinality(GoalsIn(sheet', m, t)) = Cardinality(GoalsIn(sheet, m, t))
  PROVE  ResultsMatchSheets'
<1>1. \A t \in Side : Other(t) \in Side
  BY DEF Other, Side
<1>2. \A m \in Match, t \in Side : ~Open(m) => result[m][t] = Verdict(sheet, m, t)
  BY DEF ResultsMatchSheets, GoalsFor, GoalsIn, Open, Verdict
<1>3. \A m \in Match, t \in Side : Open(m) => result[m][t] = "none"
  BY DEF ResultsMatchSheets, Open
<1>4. \A m \in Match, t \in Side : ~Open(m) => Verdict(sheet', m, t) = Verdict(sheet, m, t)
  BY <1>1 DEF Open, Verdict
<1>5. ASSUME NEW m \in Match, NEW t \in Side
      PROVE  /\ Open(m)' => result'[m][t] = "none"
             /\ ~Open(m)' => result'[m][t] = Verdict(sheet', m, t)
  BY <1>2, <1>3, <1>4 DEF Open
<1> QED
  BY <1>5 DEF ResultsMatchSheets, GoalsFor, GoalsIn, Open, Verdict

(* The conjuncts of the invariant that the counts decide, after a launch   *)
(* is added or removed.                                                    *)
LEMMA CountsKeepInvariant ==
  ASSUME SheetInv, TypeOK', NEW e \in Entry, NEW delta \in {1, -1},
         playing, e.match = current, UNCHANGED <<current, playing, result>>,
         ApplyScore(e, delta), SyncPlayerCards(e.match, e.who),
         Allowed(sheet', e.match, e.who),
         \A m \in Match, t \in Side :
           Cardinality(GoalsIn(sheet', m, t)) =
             Cardinality(GoalsIn(sheet, m, t)) + (IF m = e.match /\ ScoresFor(e) = t THEN delta ELSE 0),
         \A m \in Match, p \in Player : <<m, p>> # <<e.match, e.who>> =>
           /\ Yellows(sheet', m, p) = Yellows(sheet, m, p)
           /\ Reds(sheet', m, p) = Reds(sheet, m, p)
  PROVE  ScoreMatchesSheet' /\ ExpulsionsAreExact' /\ ResultsMatchSheets'
<1>1. e.match \in Match /\ e.who \in Player /\ TypeOK
  BY DEF Entry, SheetInv
<1>2. \A m \in Match, t \in Side : Cardinality(GoalsIn(sheet, m, t)) \in Nat
  BY CountedLaunches, GoalsAreLaunches
<1>3. \A m \in Match, t \in Side : goals[m][t] = Cardinality(GoalsIn(sheet, m, t))
  BY DEF SheetInv, ScoreMatchesSheet, GoalsFor, GoalsIn
<1>4. \A m \in Match, t \in Side : goals'[m][t] = Cardinality(GoalsIn(sheet', m, t))
  BY <1>1, <1>3, ScoreMoves
<1>5. ScoreMatchesSheet'
  BY <1>4 DEF ScoreMatchesSheet, GoalsFor, GoalsIn
<1>6. ExpulsionsAreExact'
  BY <1>1, SyncKeepsExact DEF SheetInv
<1>7. \A m \in Match, t \in Side : m # current =>
        Cardinality(GoalsIn(sheet', m, t)) = Cardinality(GoalsIn(sheet, m, t))
  BY <1>2
<1>8. ResultsMatchSheets'
  BY <1>7, ResultsStay DEF SheetInv
<1> QED
  BY <1>5, <1>6, <1>8

-----------------------------------------------------------------------------
(* add_action *)
LEMMA AddKeepsInvariant ==
  ASSUME SheetInv, NEW id \in Launch, NEW e \in Entry, AddAction(id, e)
  PROVE  /\ SheetInv'
         /\ OneMore(sheet, sheet', id, e)
<1> DEFINE m0 == e.match
           p0 == e.who
<1>1. /\ TypeOK /\ m0 \in Match /\ p0 \in Player /\ e.kind \in Kind
      /\ sheet[id] = NoEntry /\ sheet \in Sheets
      /\ playing /\ m0 = current
      /\ sheet' = [sheet EXCEPT ![id] = e]
      /\ UNCHANGED <<current, playing, side, active, result>>
      /\ ApplyScore(e, 1) /\ SyncPlayerCards(m0, p0)
  BY DEF SheetInv, TypeOK, Sheets, AddAction, Record, Entry
<1>2. sheet' \in Sheets
  BY <1>1 DEF Sheets
<1>3. TypeOK'
  <2>1. autoRed' \in SUBSET (Match \X Player)
    BY <1>1 DEF SyncPlayerCards, TypeOK
  <2>2. goals' \in [Match -> [Side -> Nat]]
    BY <1>1, ScoreMoves
  <2> QED
    BY <1>1, <1>2, <2>1, <2>2 DEF TypeOK, Sheets
<1>4. OneMore(sheet, sheet', id, e)
  BY <1>1, <1>2, OneMoreEntry
<1>5. OneMoreCount(sheet, sheet', e)
  BY <1>4, OneMoreCounted
<1>6. Allowed(sheet', m0, p0)
  <2>1. /\ Allowed(sheet, m0, p0)
        /\ <<m0, p0>> \in autoRed <=> Yellows(sheet, m0, p0) = 2
    BY <1>1, InTermsOfCounts DEF SheetInv, ExpulsionsAreExact
  <2>2. /\ Yellows(sheet, m0, p0) \in Nat /\ Reds(sheet, m0, p0) \in Nat
        /\ Yellows(sheet', m0, p0) = Yellows(sheet, m0, p0) + (IF e.kind = "yellow_card" THEN 1 ELSE 0)
        /\ Reds(sheet', m0, p0) = Reds(sheet, m0, p0) + (IF e.kind = "red_card" THEN 1 ELSE 0)
    BY <1>1, <1>5 DEF OneMoreCount
  <2>3. IsFiniteSet(Cards(sheet, m0, p0, "red_card"))
    BY CountedLaunches, CardsAreLaunches
  <2>4. Cards(sheet, m0, p0, "red_card") = {} <=> Reds(sheet, m0, p0) = 0
    BY <2>3, FS_EmptySet DEF Reds
  <2>5. e.kind \in {"yellow_card", "red_card"} =>
          Reds(sheet, m0, p0) = 0 /\ Yellows(sheet, m0, p0) < 2
    BY <2>2, <2>4 DEF AddAction, Record, Expelled, Yellows
  <2> QED
    BY <2>1, <2>2, <2>5 DEF Allowed
<1>7. /\ \A m \in Match, t \in Side :
           Cardinality(GoalsIn(sheet', m, t)) =
             Cardinality(GoalsIn(sheet, m, t)) + (IF m = m0 /\ ScoresFor(e) = t THEN 1 ELSE 0)
      /\ \A m \in Match, p \in Player : <<m, p>> # <<m0, p0>> =>
           /\ Yellows(sheet', m, p) = Yellows(sheet, m, p)
           /\ Reds(sheet', m, p) = Reds(sheet, m, p)
  BY <1>5 DEF OneMoreCount
<1>8. ScoreMatchesSheet' /\ ExpulsionsAreExact' /\ ResultsMatchSheets'
  BY <1>1, <1>3, <1>6, <1>7, CountsKeepInvariant
<1>9. OnlyThoseWhoPlayed' /\ NothingAhead'
  <2>1. \A x \in Launch : sheet'[x] = IF x = id THEN e ELSE sheet[x]
    BY <1>1 DEF Sheets
  <2>2. side[current][e.who] = e.side /\ current \in Nat
    BY <1>1 DEF AddAction, LinedUp, TypeOK, Match
  <2> QED
    BY <1>1, <2>1, <2>2 DEF SheetInv, OnlyThoseWhoPlayed, NothingAhead
<1> QED
  BY <1>3, <1>4, <1>8, <1>9 DEF SheetInv

(* remove_action *)
LEMMA RemoveKeepsInvariant ==
  ASSUME SheetInv, NEW id \in Launch, RemoveAction(id)
  PROVE  /\ SheetInv'
         /\ sheet[id] \in Entry /\ OneMore(sheet', sheet, id, sheet[id])
<1> DEFINE e == sheet[id]
           m0 == e.match
           p0 == e.who
<1>1. /\ TypeOK /\ e \in Entry /\ e.kind \in Kind /\ m0 \in Match /\ p0 \in Player
      /\ sheet \in Sheets
      /\ playing /\ m0 = current
      /\ sheet' = [sheet EXCEPT ![id] = NoEntry]
      /\ UNCHANGED <<current, playing, side, active, result>>
      /\ ApplyScore(e, -1) /\ SyncPlayerCards(m0, p0)
  BY DEF SheetInv, TypeOK, Sheets, RemoveAction, Entry
<1>2. /\ sheet' \in Sheets /\ sheet'[id] = NoEntry
      /\ sheet = [sheet' EXCEPT ![id] = e]
  BY <1>1 DEF Sheets
<1>3. TypeOK'
  <2>1. autoRed' \in SUBSET (Match \X Player)
    BY <1>1 DEF SyncPlayerCards, TypeOK
  <2>2. goals' \in [Match -> [Side -> Nat]]
    BY <1>1, ScoreMoves
  <2> QED
    BY <1>1, <1>2, <2>1, <2>2 DEF TypeOK, Sheets
<1>4. OneMore(sheet', sheet, id, e)
  BY <1>1, <1>2, OneMoreEntry
<1>5. OneMoreCount(sheet', sheet, e)
  BY <1>4, OneMoreCounted
<1>6. Allowed(sheet', m0, p0)
  <2>1. /\ Allowed(sheet, m0, p0)
    BY <1>1, InTermsOfCounts DEF SheetInv, ExpulsionsAreExact
  <2>2. /\ Yellows(sheet', m0, p0) \in Nat /\ Reds(sheet', m0, p0) \in Nat
        /\ Yellows(sheet, m0, p0) = Yellows(sheet', m0, p0) + (IF e.kind = "yellow_card" THEN 1 ELSE 0)
        /\ Reds(sheet, m0, p0) = Reds(sheet', m0, p0) + (IF e.kind = "red_card" THEN 1 ELSE 0)
    BY <1>1, <1>5 DEF OneMoreCount
  <2> QED
    BY <2>1, <2>2 DEF Allowed
<1>7. /\ \A m \in Match, t \in Side :
           Cardinality(GoalsIn(sheet', m, t)) =
             Cardinality(GoalsIn(sheet, m, t)) + (IF m = m0 /\ ScoresFor(e) = t THEN -1 ELSE 0)
      /\ \A m \in Match, p \in Player : <<m, p>> # <<m0, p0>> =>
           /\ Yellows(sheet', m, p) = Yellows(sheet, m, p)
           /\ Reds(sheet', m, p) = Reds(sheet, m, p)
  BY <1>5 DEF OneMoreCount
<1>8. ScoreMatchesSheet' /\ ExpulsionsAreExact' /\ ResultsMatchSheets'
  BY <1>1, <1>3, <1>6, <1>7, CountsKeepInvariant
<1>9. OnlyThoseWhoPlayed' /\ NothingAhead'
  <2>1. \A x \in Launch : sheet'[x] = IF x = id THEN NoEntry ELSE sheet[x]
    BY <1>1 DEF Sheets
  <2> QED
    BY <1>1, <2>1 DEF SheetInv, OnlyThoseWhoPlayed, NothingAhead
<1> QED
  BY <1>1, <1>3, <1>4, <1>8, <1>9 DEF SheetInv

(* What nobody writes on stays right. *)
LEMMA SameSheet ==
  ASSUME ScoreMatchesSheet, ExpulsionsAreExact, UNCHANGED <<sheet, goals, autoRed>>
  PROVE  ScoreMatchesSheet' /\ ExpulsionsAreExact'
<1>1. ScoreMatchesSheet'
  BY DEF ScoreMatchesSheet, GoalsFor, Entries
<1>2. ExpulsionsAreExact'
  BY DEF ExpulsionsAreExact, Cards, Entries
<1> QED
  BY <1>1, <1>2

(* add_temporary_player *)
LEMMA SubstituteKeepsInvariant ==
  ASSUME SheetInv, NEW in \in Player, NEW out \in Player, Substitute(in, out)
  PROVE  SheetInv'
<1>1. /\ TypeOK /\ current \in Match
      /\ side' = [side EXCEPT ![current][in] = side[current][out]]
      /\ side[current][in] = NoSide
      /\ active' = (active \ {out}) \cup {in}
      /\ UNCHANGED <<current, playing, sheet, autoRed, goals, result>>
  BY DEF SheetInv, TypeOK, Substitute
<1>2. TypeOK'
  BY <1>1 DEF TypeOK
<1>3. OnlyThoseWhoPlayed'
  <2>1. ASSUME NEW x \in Launch, sheet[x] # NoEntry
        PROVE  side'[sheet[x].match][sheet[x].who] = sheet[x].side
    <3>1. /\ sheet[x].match \in Match /\ sheet[x].who \in Player /\ sheet[x].side \in Side
          /\ side[sheet[x].match][sheet[x].who] = sheet[x].side
      BY <1>1, <2>1 DEF TypeOK, Entry, SheetInv, OnlyThoseWhoPlayed
    <3>2. ~(sheet[x].match = current /\ sheet[x].who = in)
      BY <1>1, <3>1 DEF Side, NoSide
    <3> QED
      BY <1>1, <3>1, <3>2 DEF TypeOK
  <2> QED
    BY <1>1, <2>1 DEF OnlyThoseWhoPlayed
<1>4. ScoreMatchesSheet' /\ ExpulsionsAreExact'
  BY <1>1, SameSheet DEF SheetInv
<1>5. ResultsMatchSheets'
  BY <1>1 DEF SheetInv, ResultsMatchSheets, GoalsFor, Entries
<1>6. NothingAhead'
  BY <1>1 DEF SheetInv, NothingAhead
<1> QED
  BY <1>2, <1>3, <1>4, <1>5, <1>6 DEF SheetInv

(* The result that finish_match gives is the one on the sheet. *)
LEMMA FinishGivesVerdict ==
  ASSUME SheetInv, NEW w \in Side, FinishMatch(w)
  PROVE  /\ current \in Match /\ playing
         /\ result' \in [Match -> [Side -> {"none", "win", "loss", "draw"}]]
         /\ \A t \in Side : result'[current][t] = Verdict(sheet, current, t)
         /\ \A m \in Match : m # current => result'[m] = result[m]
<1>1. /\ current \in Match /\ playing
      /\ result \in [Match -> [Side -> {"none", "win", "loss", "draw"}]]
      /\ result' = [result EXCEPT ![current] = Outcome(w)]
      /\ goals[current][w] >= goals[current][Other(w)]
  BY DEF SheetInv, TypeOK, FinishMatch
<1>2. Outcome(w) \in [Side -> {"none", "win", "loss", "draw"}]
  BY DEF Outcome
<1>3. \A t \in Side : /\ goals[current][t] = Cardinality(GoalsIn(sheet, current, t))
                      /\ Cardinality(GoalsIn(sheet, current, t)) \in Nat
  BY <1>1, CountedLaunches, GoalsAreLaunches DEF SheetInv, ScoreMatchesSheet, GoalsFor, GoalsIn
<1>4. Side = {w, Other(w)} /\ w # Other(w) /\ Other(Other(w)) = w
  BY DEF Side, Other
<1>5. ASSUME NEW t \in Side PROVE Outcome(w)[t] = Verdict(sheet, current, t)
  <2>1. CASE goals[current]["a"] = goals[current]["b"]
    <3>1. goals[current][t] = goals[current][Other(t)]
      BY <2>1 DEF Other, Side
    <3>2. Verdict(sheet, current, t) = "draw"
      BY <1>3, <1>4, <3>1 DEF Verdict
    <3> QED
      BY <2>1, <3>2 DEF Outcome
  <2>2. CASE goals[current]["a"] # goals[current]["b"]
    <3>1. goals[current][w] > goals[current][Other(w)]
      BY <1>1, <1>3, <1>4, <2>2 DEF Side, Other
    <3>2. CASE t = w
      BY <1>3, <1>4, <2>2, <3>1, <3>2 DEF Outcome, Verdict
    <3>3. CASE t = Other(w)
      BY <1>3, <1>4, <2>2, <3>1, <3>3 DEF Outcome, Verdict
    <3> QED
      BY <1>4, <3>2, <3>3
  <2> QED
    BY <2>1, <2>2
<1> QED
  BY <1>1, <1>2, <1>5

(* finish_match, whether another match follows or not. *)
LEMMA FinishKeepsInvariant ==
  ASSUME SheetInv, NEW w \in Side,
         (\E l \in Lineups : FinishAndContinue(w, l)) \/ FinishAndClose(w)
  PROVE  SheetInv'
<1>1. /\ TypeOK /\ FinishMatch(w)
      /\ UNCHANGED <<sheet, autoRed, goals>>
      /\ current \in Nat /\ MaxMatches \in Nat
  BY MaxMatchesAssumption DEF SheetInv, TypeOK, FinishAndContinue, FinishAndClose, Match
<1>2. /\ current \in Match /\ playing
      /\ result' \in [Match -> [Side -> {"none", "win", "loss", "draw"}]]
      /\ \A t \in Side : result'[current][t] = Verdict(sheet, current, t)
      /\ \A m \in Match : m # current => result'[m] = result[m]
  BY <1>1, FinishGivesVerdict
<1>3. \/ /\ current' = current + 1 /\ current < MaxMatches /\ playing'
         /\ \E l \in Lineups :
              /\ side' = [side EXCEPT ![current + 1] = l]
              /\ active' = {p \in Player : l[p] \in Side}
      \/ current' = current /\ ~playing' /\ UNCHANGED <<side, active>>
  BY <1>2 DEF FinishAndContinue, FinishAndClose, LineUp
<1>4. TypeOK'
  <2>1. current' \in Match
    BY <1>1, <1>2, <1>3 DEF Match
  <2>2. playing' \in BOOLEAN
    <3>1. playing' = playing \/ playing' = FALSE
      BY DEF FinishAndContinue, FinishAndClose
    <3> QED
      BY <1>1, <3>1 DEF TypeOK
  <2>3. /\ side' \in [Match -> [Player -> Side \cup {NoSide}]]
        /\ active' \in SUBSET Player
    BY <1>1, <1>3 DEF TypeOK, Lineups
  <2> QED
    BY <1>1, <1>2, <2>1, <2>2, <2>3 DEF TypeOK
<1>5. ResultsMatchSheets'
  <2>1. ASSUME NEW m \in Match, NEW t \in Side
        PROVE  /\ Open(m) => result[m][t] = "none"
               /\ ~Open(m) => result[m][t] = Verdict(sheet, m, t)
    BY DEF SheetInv, ResultsMatchSheets, GoalsFor, GoalsIn, Open, Verdict
  <2>2. ASSUME NEW m \in Match, NEW t \in Side
        PROVE  /\ Open(m)' => result'[m][t] = "none"
               /\ ~Open(m)' => result'[m][t] = Verdict(sheet, m, t)
    <3>1. m \in Nat
      BY <1>1 DEF Match
    <3>2. CASE m = current
      BY <1>1, <1>2, <1>3, <3>2 DEF Open
    <3>3. CASE m # current
      <4>1. Open(m)' <=> Open(m)
        BY <1>1, <1>2, <1>3, <3>1, <3>3 DEF Open
      <4> QED
        BY <1>2, <2>1, <3>3, <4>1
    <3> QED
      BY <3>2, <3>3
  <2> QED
    BY <1>1, <2>2 DEF ResultsMatchSheets, GoalsFor, GoalsIn, Open, Verdict
<1>6. OnlyThoseWhoPlayed' /\ NothingAhead'
  <2>1. \A x \in Launch : sheet[x] # NoEntry =>
          sheet[x].match \in Match /\ sheet[x].match \in Nat /\ sheet[x].match <= current
    BY <1>1 DEF SheetInv, NothingAhead, TypeOK, Entry, Match
  <2> QED
    BY <1>1, <1>3, <2>1 DEF SheetInv, OnlyThoseWhoPlayed, NothingAhead, TypeOK
<1>7. ScoreMatchesSheet' /\ ExpulsionsAreExact'
  BY <1>1, SameSheet DEF SheetInv
<1> QED
  BY <1>4, <1>5, <1>6, <1>7 DEF SheetInv

-----------------------------------------------------------------------------
(* One step, whatever it is. *)
LEMMA StepKeepsInvariant == SheetInv /\ [Next]_vars => SheetInv'
<1> SUFFICES ASSUME SheetInv, [Next]_vars PROVE SheetInv'
  OBVIOUS
<1>1. ASSUME NEW id \in Launch, NEW e \in Entry, AddAction(id, e) PROVE SheetInv'
  BY <1>1, AddKeepsInvariant
<1>2. ASSUME NEW id \in Launch, RemoveAction(id) PROVE SheetInv'
  BY <1>2, RemoveKeepsInvariant
<1>3. ASSUME NEW in \in Player, NEW out \in Player, Substitute(in, out) PROVE SheetInv'
  BY <1>3, SubstituteKeepsInvariant
<1>4. ASSUME NEW w \in Side, NEW l \in Lineups, FinishAndContinue(w, l) PROVE SheetInv'
  BY <1>4, FinishKeepsInvariant
<1>5. ASSUME NEW w \in Side, FinishAndClose(w) PROVE SheetInv'
  BY <1>5, FinishKeepsInvariant
<1>6. CASE UNCHANGED vars
  <2>1. UNCHANGED <<sheet, goals, autoRed>>
    BY <1>6 DEF vars
  <2>2. ScoreMatchesSheet' /\ ExpulsionsAreExact'
    BY <2>1, SameSheet DEF SheetInv
  <2>3. TypeOK' /\ OnlyThoseWhoPlayed' /\ NothingAhead'
    BY <1>6 DEF vars, SheetInv, TypeOK, OnlyThoseWhoPlayed, NothingAhead
  <2>4. ResultsMatchSheets'
    BY <1>6 DEF vars, SheetInv, ResultsMatchSheets, GoalsFor, Entries
  <2> QED
    BY <2>2, <2>3, <2>4 DEF SheetInv
<1> QED
  BY <1>1, <1>2, <1>3, <1>4, <1>5, <1>6 DEF Next

(* The first match has an empty sheet. *)
LEMMA InitHasInvariant == Init => SheetInv
<1> SUFFICES ASSUME Init PROVE SheetInv
  OBVIOUS
<1>1. /\ current = 1 /\ playing = TRUE /\ 1 \in Match
      /\ sheet = [id \in Launch |-> NoEntry]
      /\ autoRed = {}
      /\ goals = [m \in Match |-> [t \in Side |-> 0]]
      /\ result = [m \in Match |-> [t \in Side |-> "none"]]
  BY MaxMatchesAssumption DEF Init, Match
<1>2. TypeOK
  <2>1. /\ side \in [Match -> [Player -> Side \cup {NoSide}]]
        /\ active \in SUBSET Player
    BY DEF Init, Lineups
  <2> QED
    BY <1>1, <2>1 DEF TypeOK
<1>3. \A m \in Match : Entries(sheet, m) = {}
  BY <1>1 DEF Entries
<1>4. Cardinality({}) = 0
  BY FS_EmptySet
<1>5. ScoreMatchesSheet
  <2>1. \A m \in Match, t \in Side : GoalsFor(m, t) = {}
    BY <1>3 DEF GoalsFor
  <2> QED
    BY <1>1, <1>4, <2>1 DEF ScoreMatchesSheet
<1>6. ExpulsionsAreExact
  <2>1. \A m \in Match, p \in Player, k \in Kind : Cards(sheet, m, p, k) = {}
    BY <1>3 DEF Cards
  <2>2. "yellow_card" \in Kind /\ "red_card" \in Kind
    BY DEF Kind
  <2>3. \A m \in Match, p \in Player :
          /\ Cardinality(Cards(sheet, m, p, "yellow_card")) = 0
          /\ Cardinality(Cards(sheet, m, p, "red_card")) = 0
    BY <1>4, <2>1, <2>2
  <2> QED
    BY <1>1, <2>3 DEF ExpulsionsAreExact
<1>7. ResultsMatchSheets
  <2>1. \A m \in Match : m = current \/ m > current
    BY <1>1 DEF Match
  <2>2. \A m \in Match, t \in Side : result[m][t] = "none"
    BY <1>1
  <2> QED
    BY <1>1, <2>1, <2>2 DEF ResultsMatchSheets
<1> QED
  BY <1>1, <1>2, <1>5, <1>6, <1>7 DEF SheetInv, OnlyThoseWhoPlayed, NothingAhead

(* The invariant of the sheets always holds.                               *)
LEMMA SheetInvariant == Spec => []SheetInv
BY InitHasInvariant, StepKeepsInvariant, PTL DEF Spec

(* The rows of the sheets have their types. *)
THEOREM SheetsAreWellFormed == Spec => []TypeOK
<1>1. SheetInv => TypeOK
  BY DEF SheetInv
<1> QED
  BY <1>1, SheetInvariant, PTL

(***************************************************************************)
(* The score of every match is the number of goals on its sheet, for any   *)
(* people, launches and number of matches (apply_score).                   *)
(***************************************************************************)
THEOREM ScoreAlwaysMatches == Spec => []ScoreMatchesSheet
<1>1. SheetInv => ScoreMatchesSheet
  BY DEF SheetInv
<1> QED
  BY <1>1, SheetInvariant, PTL

(* Two yellow cards make exactly one automatic red one (sync_player_cards). *)
THEOREM ExpulsionsStayExact == Spec => []ExpulsionsAreExact
<1>1. SheetInv => ExpulsionsAreExact
  BY DEF SheetInv
<1> QED
  BY <1>1, SheetInvariant, PTL

(* The result of a finished match is the one its sheet gives (finish_match). *)
THEOREM ResultsAlwaysMatch == Spec => []ResultsMatchSheets
<1>1. SheetInv => ResultsMatchSheets
  BY DEF SheetInv
<1> QED
  BY <1>1, SheetInvariant, PTL

(* Whoever is on a sheet played that match, on that side (player_lineup). *)
THEOREM SheetsNamePlayers == Spec => []OnlyThoseWhoPlayed
<1>1. SheetInv => OnlyThoseWhoPlayed
  BY DEF SheetInv
<1> QED
  BY <1>1, SheetInvariant, PTL

-----------------------------------------------------------------------------
(* What a step must leave alone of match m, and a sheet that does. *)
Untouched(m) ==
  /\ Entries(sheet', m) = Entries(sheet, m)
  /\ \A id \in Entries(sheet, m) : sheet'[id] = sheet[id]
  /\ \A p \in Player : <<m, p>> \in autoRed' <=> <<m, p>> \in autoRed
  /\ goals'[m] = goals[m] /\ result'[m] = result[m]

(* A launch that is written or erased touches the match in progress only.  *)
LEMMA OneLaunchTouchesOneMatch ==
  ASSUME TypeOK, NEW id \in Launch, NEW e \in Entry, NEW x, NEW delta,
         sheet' = [sheet EXCEPT ![id] = x],
         sheet[id] \in {e, NoEntry}, x \in {e, NoEntry},
         e.match = current, ApplyScore(e, delta), SyncPlayerCards(current, e.who),
         UNCHANGED result,
         NEW m \in Match, m # current
  PROVE  Untouched(m)
<1>1. /\ sheet \in Sheets /\ goals \in [Match -> [Side -> Nat]]
  BY DEF TypeOK, Sheets
<1>2. \A y \in Launch \ {id} : sheet'[y] = sheet[y]
  BY <1>1 DEF Sheets
<1>3. sheet'[id] \in {e, NoEntry}
  BY <1>1 DEF Sheets
<1>4. id \notin Entries(sheet, m) /\ id \notin Entries(sheet', m)
  BY <1>3 DEF Entries
<1>5. \A y : y \in Entries(sheet', m) <=> y \in Entries(sheet, m)
  BY <1>2, <1>4 DEF Entries
<1>6. /\ Entries(sheet', m) = Entries(sheet, m)
      /\ \A y \in Entries(sheet, m) : sheet'[y] = sheet[y]
  <2>1. Entries(sheet, m) \subseteq Launch
    BY DEF Entries
  <2>2. Entries(sheet', m) = Entries(sheet, m)
    BY <1>5
  <2> QED
    BY <1>2, <1>4, <2>1, <2>2
<1>7. \A p \in Player : <<m, p>> \in autoRed' <=> <<m, p>> \in autoRed
  BY DEF SyncPlayerCards
<1>8. goals'[m] = goals[m]
  BY <1>1 DEF ApplyScore
<1> QED
  BY <1>6, <1>7, <1>8 DEF Untouched

(***************************************************************************)
(* A match that is over is for reading only, whatever launch or correction *)
(* arrives late (active_match).                                            *)
(***************************************************************************)
THEOREM FinishedSheetsStayFrozen == Spec => FinishedSheetsAreFrozen
<1>1. ASSUME SheetInv, [Next]_vars, NEW m \in Match, result[m]["a"] # "none"
      PROVE  Untouched(m)
  <2>1. TypeOK /\ ~Open(m)
    BY <1>1 DEF SheetInv, ResultsMatchSheets, Open, Side
  <2>2. ASSUME NEW id \in Launch, NEW e \in Entry, AddAction(id, e) PROVE Untouched(m)
    <3>1. /\ sheet' = [sheet EXCEPT ![id] = e] /\ sheet[id] = NoEntry
          /\ e.match = current /\ ApplyScore(e, 1) /\ SyncPlayerCards(current, e.who)
          /\ UNCHANGED result /\ m # current
      BY <2>1, <2>2 DEF AddAction, Record, Open
    <3> QED
      BY <2>1, <3>1, OneLaunchTouchesOneMatch
  <2>3. ASSUME NEW id \in Launch, RemoveAction(id) PROVE Untouched(m)
    <3>1. /\ sheet' = [sheet EXCEPT ![id] = NoEntry] /\ sheet[id] \in Entry
          /\ sheet[id].match = current
          /\ ApplyScore(sheet[id], -1) /\ SyncPlayerCards(current, sheet[id].who)
          /\ UNCHANGED result /\ m # current
      BY <2>1, <2>3 DEF RemoveAction, Open, TypeOK
    <3> QED
      BY <2>1, <3>1, OneLaunchTouchesOneMatch
  <2>4. ASSUME NEW in \in Player, NEW out \in Player, Substitute(in, out) PROVE Untouched(m)
    BY <2>4 DEF Substitute, Untouched, Entries
  <2>5. ASSUME NEW w \in Side, (\E l \in Lineups : FinishAndContinue(w, l)) \/ FinishAndClose(w)
        PROVE  Untouched(m)
    <3>1. FinishMatch(w) /\ UNCHANGED <<sheet, autoRed, goals>>
      BY <2>5 DEF FinishAndContinue, FinishAndClose
    <3>2. m # current /\ result'[m] = result[m]
      <4>1. playing
        BY <3>1 DEF FinishMatch
      <4>2. m # current
        BY <2>1, <4>1 DEF Open
      <4> QED
        BY <1>1, <3>1, <4>2, FinishGivesVerdict
    <3> QED
      BY <3>1, <3>2 DEF Untouched, Entries
  <2>6. CASE UNCHANGED vars
    BY <2>6 DEF vars, Untouched, Entries
  <2> QED
    BY <1>1, <2>2, <2>3, <2>4, <2>5, <2>6 DEF Next
<1>2. SheetInv /\ [Next]_vars =>
        [\A m \in Match : result[m]["a"] # "none" =>
           /\ Entries(sheet', m) = Entries(sheet, m)
           /\ \A id \in Entries(sheet, m) : sheet'[id] = sheet[id]
           /\ \A p \in Player : <<m, p>> \in autoRed' <=> <<m, p>> \in autoRed
           /\ goals'[m] = goals[m] /\ result'[m] = result[m]]_vars
  BY <1>1 DEF Untouched
<1> QED
  BY <1>2, SheetInvariant, PTL DEF Spec, FinishedSheetsAreFrozen
=============================================================================
