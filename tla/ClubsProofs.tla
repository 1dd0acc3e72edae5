------------------------------ MODULE ClubsProofs ------------------------------
(***************************************************************************)
(* Proofs about clubs, their goalkeepers and the editions they enter, for  *)
(* any clubs, editions, people and requests that run at a time, whatever   *)
(* the order in which their locks are taken.                               *)
(***************************************************************************)
EXTENDS Clubs, SequenceTheorems, TLAPS

(***************************************************************************)
(* Two more facts make the invariants inductive: there are no matches      *)
(* before an edition starts, so that entries come and go under none; and   *)
(* a request names its club, and no row before it has looked which.        *)
(***************************************************************************)
NoGamesYet == \A e \in Edition : status[e] = "registration" => games[e] = <<>>

NothingToLock ==
  \A k \in Call : /\ call[k].op \in {"idle", "looking"} => call[k].rows = {}
                  /\ call[k].op # "idle" => call[k].club \in Club

TypeInv == TypeOK /\ NothingToLock

ClubInv ==
  /\ TypeInv
  /\ NoGamesYet
  /\ KeepersBelong
  /\ OneClubPerPlayer
  /\ MatchesFollowTheEntry

-----------------------------------------------------------------------------
(* Matches and their goalkeepers *)

(* A change of the goalkeeper reaches one match.                           *)
LEMMA FollowedMatch ==
  ASSUME NEW g \in Game, NEW c \in Club, NEW p \in Keeper
  PROVE  /\ Followed(g, c, p) \in Game
         /\ Followed(g, c, p).club = g.club
         /\ Followed(g, c, p).chosen = g.chosen
         /\ Followed(g, c, p).state = g.state
         /\ \A s \in Side : Followed(g, c, p).keeper[s] =
              IF g.state = "pending" /\ g.club[s] = c /\ ~g.chosen[s] THEN p ELSE g.keeper[s]
BY DEF Followed, Game

(* The matches of an edition are a sequence; each goes on being one.       *)
LEMMA MatchesMapped ==
  ASSUME NEW q \in Seq(Game), NEW c \in Club, NEW p \in Keeper
  PROVE  [i \in DOMAIN q |-> Followed(q[i], c, p)] \in Seq(Game)
<1>1. Len(q) \in Nat /\ DOMAIN q = 1 .. Len(q) /\ \A i \in 1 .. Len(q) : q[i] \in Game
  BY LenProperties, ElementOfSeq
<1>2. [i \in 1 .. Len(q) |-> Followed(q[i], c, p)] \in [1 .. Len(q) -> Game]
  BY <1>1, FollowedMatch
<1> QED
  BY <1>1, <1>2, SeqDef

(* What the home side and the away side have is a function of the sides.    *)
LEMMA HomeAndAway ==
  ASSUME NEW S, NEW x \in S, NEW y \in S
  PROVE  <<x, y>> \in [Side -> S]
<1>1. <<x, y>> \in Seq(S) /\ Len(<<x, y>>) = 2
  OBVIOUS
<1>2. 1 .. 2 = Side
  BY DEF Side
<1> QED
  BY <1>1, <1>2, LenProperties

(* A match starts with the goalkeepers of the two entries.                 *)
LEMMA NewMatch ==
  ASSUME TypeOK, NEW e \in Edition, NEW h \in Club, NEW a \in Club
  PROVE  /\ NewGame(e, h, a) \in Game
         /\ \A s \in Side :
              /\ NewGame(e, h, a).club[s] \in {h, a}
              /\ NewGame(e, h, a).keeper[s] = entryKeeper[e][NewGame(e, h, a).club[s]]
<1>1. <<h, a>> \in [Side -> Club] /\ <<FALSE, FALSE>> \in [Side -> BOOLEAN]
  BY HomeAndAway
<1>2. <<entryKeeper[e][h], entryKeeper[e][a]>> \in [Side -> Keeper]
  <2>1. entryKeeper[e][h] \in Keeper /\ entryKeeper[e][a] \in Keeper
    BY DEF TypeOK
  <2> QED
    BY <2>1, HomeAndAway
<1> QED
  BY <1>1, <1>2 DEF NewGame, Game, Side

(* A result takes goalkeepers off, or leaves them.                         *)
LEMMA DecidedMatch ==
  ASSUME NEW g \in Game, NEW d \in Decided(g)
  PROVE  /\ d \in Game /\ d.state = "decided" /\ d.club = g.club
         /\ \A s \in Side : d.keeper[s] \in {g.keeper[s], Nobody}
<1>1. <<Nobody, Nobody>> \in [Side -> Keeper] /\ \A s \in Side : <<Nobody, Nobody>>[s] = Nobody
  BY HomeAndAway DEF Side, Keeper
<1> QED
  BY <1>1 DEF Decided, Game

-----------------------------------------------------------------------------
(* Requests and locks *)

(* A request that ends gives its rows back and is idle; the others go on.  *)
LEMMA EndsType ==
  ASSUME TypeInv, NEW k \in Call, Ends(k)
  PROVE  /\ call' \in [Call -> Request] /\ lock' \in [Row -> Call \cup {Free}]
         /\ call'[k] = Idle
         /\ \A j \in Call : j # k => call'[j] = call[j]
         /\ \A r \in Row : lock'[r] # k /\ (lock'[r] # Free => lock'[r] = lock[r])
<1>1. Idle \in Request
  BY DEF Idle, Request, Op, Keeper
<1>2. call \in [Call -> Request] /\ lock \in [Row -> Call \cup {Free}]
  BY DEF TypeInv, TypeOK
<1> QED
  BY <1>1, <1>2, CallAssumption DEF Ends

(* The locks that are held, and the rows still to be locked.               *)
LocksInv ==
  /\ call \in [Call -> Request] /\ lock \in [Row -> Call \cup {Free}]
  /\ \A k \in Call : /\ call[k].rows \subseteq call[k].editions \cup {call[k].club}
                     /\ \A r \in Row : lock[r] = k => call[k].op \notin {"idle", "looking"} /\ r \notin call[k].rows
  /\ NothingToLock

(* What types and locks say together.                                      *)
LEMMA LocksGiven == ASSUME TypeInv PROVE LocksInv
BY DEF TypeInv, TypeOK, LocksInv

(* What is known of one request.                                           *)
LEMMA RequestType ==
  ASSUME TypeInv, NEW k \in Call
  PROVE  /\ call[k] \in Request
         /\ call[k].op # "idle" => call[k].club \in Club
         /\ call[k].rows # {} => call[k].op \notin {"idle", "looking"}
<1>1. call[k] \in Request
  BY DEF TypeInv, TypeOK
<1>2. /\ call[k].op \in {"idle", "looking"} => call[k].rows = {}
      /\ call[k].op # "idle" => call[k].club \in Club
  BY DEF TypeInv, NothingToLock
<1> QED
  BY <1>1, <1>2

(* A request that ends gives all its locks back.                           *)
LEMMA LocksEnd == ASSUME TypeInv, NEW k \in Call, Ends(k) PROVE LocksInv'
<1>1. Idle.op = "idle" /\ Idle.rows = {}
  BY DEF Idle
<1>2. /\ call' \in [Call -> Request] /\ lock' \in [Row -> Call \cup {Free}]
      /\ call'[k] = Idle
      /\ \A j \in Call : j # k => call'[j] = call[j]
      /\ \A r \in Row : lock'[r] # k /\ (lock'[r] # Free => lock'[r] = lock[r])
  BY EndsType
<1> QED
  BY <1>1, <1>2, LocksGiven, CallAssumption DEF LocksInv, NothingToLock

(* Locks stay as they are while no request does anything.                  *)
LEMMA LocksKept == ASSUME TypeInv, UNCHANGED <<call, lock>> PROVE LocksInv'
BY LocksGiven DEF LocksInv, NothingToLock

(* A request that begins holds no lock yet.                                *)
LEMMA LocksAsked ==
  ASSUME TypeInv, NEW k \in Call, OwnerAsks(k) \/ LookUp(k)
  PROVE  LocksInv'
<1> USE DEF LocksInv, NothingToLock
<1>0. LocksInv
  BY LocksGiven
<1>1. ASSUME NEW new \in Request, new.op # "idle", new.op = "looking" => new.rows = {},
             new.rows \subseteq new.editions \cup {new.club}, new.club \in Club,
             call[k].op \in {"idle", "looking"}, lock' = lock, call' = [call EXCEPT ![k] = new]
      PROVE  LocksInv'
  <2>1. call'[k] = new /\ \A j \in Call : j # k => call'[j] = call[j]
    BY <1>0, <1>1
  <2>2. \A r \in Row : lock[r] # k
    BY <1>0, <1>1
  <2> QED
    BY <1>0, <1>1, <2>1, <2>2
<1>2. ASSUME NEW op \in {"register", "withdraw", "entry"}, NEW c \in Club, NEW e \in Edition, NEW p \in Keeper,
             Asked(k, op, c, {e}, p, Nobody, {e, c})
      PROVE  LocksInv'
  <2> DEFINE new == [op |-> op, club |-> c, editions |-> {e}, keeper |-> p, seen |-> Nobody, rows |-> {e, c}]
  <2>1. Nobody \in Keeper /\ {e, c} \in SUBSET Row
    BY DEF Keeper, Row
  <2>2. new \in Request /\ new.op = op /\ new.rows = {e, c} /\ new.editions = {e} /\ new.club = c
    BY <2>1 DEF Request, Op
  <2>3. call[k].op = "idle" /\ lock' = lock /\ call' = [call EXCEPT ![k] = new]
    BY <1>2 DEF Asked
  <2> HIDE DEF new
  <2>4. new.op \notin {"idle", "looking"}
    BY <2>2
  <2> QED
    BY <1>1, <2>2, <2>3, <2>4
<1>3. CASE OwnerAsks(k)
  <2>1. ASSUME NEW c \in Club, NEW e \in Edition, AskRegister(k, c, e) PROVE LocksInv'
    <3>1. Asked(k, "register", c, {e}, Nobody, Nobody, {e, c}) /\ Nobody \in Keeper
      BY <2>1 DEF AskRegister, Keeper
    <3> QED
      BY <1>2, <3>1
  <2>2. ASSUME NEW c \in Club, NEW e \in Edition, AskWithdraw(k, c, e) PROVE LocksInv'
    <3>1. Asked(k, "withdraw", c, {e}, Nobody, Nobody, {e, c}) /\ Nobody \in Keeper
      BY <2>2 DEF AskWithdraw, Keeper
    <3> QED
      BY <1>2, <3>1
  <2>3. ASSUME NEW c \in Club, NEW e \in Edition, NEW p \in Keeper, AskEntry(k, c, e, p) PROVE LocksInv'
    <3>1. Asked(k, "entry", c, {e}, p, Nobody, {e, c}) /\ Nobody \in Keeper
      BY <2>3 DEF AskEntry, Keeper
    <3> QED
      BY <1>2, <3>1
  <2>4. ASSUME NEW c \in Club, NEW p \in Keeper, AskClub(k, c, p) PROVE LocksInv'
    <3>1. clubKeeper[c] \in Keeper
      BY DEF TypeInv, TypeOK
    <3> DEFINE new == [op |-> "looking", club |-> c, editions |-> {}, keeper |-> p, seen |-> clubKeeper[c], rows |-> {}]
    <3>2. new \in Request /\ new.op = "looking" /\ new.rows = {} /\ new.editions = {} /\ new.club = c
      BY <3>1 DEF Request, Op
    <3>3. call[k].op = "idle" /\ lock' = lock /\ call' = [call EXCEPT ![k] = new]
      BY <2>4 DEF AskClub, Asked
    <3> HIDE DEF new
    <3> QED
      BY <1>1, <3>2, <3>3
  <2> QED
    BY <1>3, <2>1, <2>2, <2>3, <2>4 DEF OwnerAsks
<1>4. CASE LookUp(k)
  <2> DEFINE c    == call[k].club
             open == {e \in Edition : status[e] # "finished" /\ c \in Entries(e)}
             new  == [call[k] EXCEPT !.op = "club", !.editions = open, !.rows = open \cup {c}]
  <2>1. call[k].op = "looking" /\ lock' = lock /\ call' = [call EXCEPT ![k] = new]
    <3>1. call' = [call EXCEPT ![k].op = "club", ![k].editions = open, ![k].rows = open \cup {c}]
      BY <1>4 DEF LookUp
    <3>2. call \in [Call -> Request]
      BY <1>0
    <3> QED
      BY <1>4, <3>1, <3>2 DEF LookUp, Request
  <2>2. c \in Club /\ open \in SUBSET Edition /\ call[k] \in Request
    <3>1. call[k].op = "looking"
      BY <2>1
    <3>2. c \in Club /\ call[k] \in Request
      BY <3>1, RequestType
    <3>3. open \in SUBSET Edition
      OBVIOUS
    <3> QED
      BY <3>2, <3>3
  <2>3. new \in Request /\ new.op = "club" /\ new.club = c /\ new.editions = open /\ new.rows = open \cup {c}
    BY <2>2 DEF Request, Op, Row
  <2> HIDE DEF new, open, c
  <2> QED
    BY <1>1, <2>1, <2>2, <2>3
<1> QED
  BY <1>3, <1>4

(* An organiser's step touches an edition that nobody has locked.          *)
LEMMA OrganiserWrites ==
  ASSUME OrganiserStep
  PROVE  /\ UNCHANGED <<clubVars, roster, entryKeeper, call, lock>>
         /\ \E e \in Edition : lock[e] = Free
<1> PICK e \in Edition :
      \/ Start(e)
      \/ \E i \in DOMAIN games[e] :
           KickoffMatch(e, i) \/ Score(e, i) \/ \E s \in Side, p \in Keeper : SetGoalkeepers(e, i, s, p)
  BY DEF OrganiserStep
<1>1. ASSUME NEW i \in DOMAIN games[e], KickoffMatch(e, i) PROVE Written(e)
  BY <1>1 DEF KickoffMatch
<1>2. ASSUME NEW i \in DOMAIN games[e], Score(e, i) PROVE Written(e)
  BY <1>2 DEF Score
<1>3. ASSUME NEW i \in DOMAIN games[e], NEW s \in Side, NEW p \in Keeper, SetGoalkeepers(e, i, s, p) PROVE Written(e)
  BY <1>3 DEF SetGoalkeepers
<1>4. Written(e)
  BY <1>1, <1>2, <1>3 DEF Start
<1> QED
  BY <1>4 DEF Written

(* Every step leaves each row locked by one request that runs.             *)
LEMMA LocksStep == ASSUME TypeInv, [Next]_vars PROVE LocksInv'
<1> USE DEF LocksInv, NothingToLock
<1>0. LocksInv
  BY LocksGiven
<1>1. ASSUME NEW k \in Call, Acquire(k) PROVE LocksInv'
  <2>1. PICK r \in call[k].rows :
          lock[r] = Free /\ lock' = [lock EXCEPT ![r] = k] /\ call' = [call EXCEPT ![k].rows = call[k].rows \ {r}]
    BY <1>1 DEF Acquire
  <2>2. call[k] \in Request /\ r \in Row
    BY <1>0, <2>1 DEF Request
  <2>3. call[k].op \notin {"idle", "looking"}
    BY RequestType
  <2> DEFINE new == [call[k] EXCEPT !.rows = call[k].rows \ {r}]
  <2>4. /\ new \in Request /\ new.op = call[k].op /\ new.club = call[k].club /\ new.editions = call[k].editions
        /\ new.rows = call[k].rows \ {r}
    BY <2>2 DEF Request
  <2>5. call' = [call EXCEPT ![k] = new]
    BY <1>0, <2>1
  <2> HIDE DEF new
  <2>6. call'[k] = new /\ \A j \in Call : j # k => call'[j] = call[j]
    BY <1>0, <2>5
  <2>7. /\ lock' \in [Row -> Call \cup {Free}] /\ lock'[r] = k /\ \A q \in Row : q # r => lock'[q] = lock[q]
    BY <1>0, <2>1, <2>2
  <2>8. call' \in [Call -> Request]
    BY <1>0, <2>4, <2>5
  <2>9. ASSUME NEW j \in Call, NEW q \in Row, lock'[q] = j
        PROVE  call'[j].op \notin {"idle", "looking"} /\ q \notin call'[j].rows
    <3>1. CASE q = r
      BY <2>3, <2>4, <2>6, <2>7, <2>9, <3>1
    <3>2. CASE q # r
      BY <1>0, <2>3, <2>4, <2>6, <2>7, <2>9, <3>2
    <3> QED
      BY <3>1, <3>2
  <2> QED
    BY <1>0, <2>3, <2>4, <2>6, <2>7, <2>8, <2>9
<1>2. ASSUME NEW k \in Call, Finish(k) PROVE LocksInv'
  <2>1. Ends(k)
    BY <1>2 DEF Finish, Register, Withdraw, SetEntryGoalkeeper, SetClubGoalkeeper, Refused
  <2> QED
    BY <2>1, LocksEnd
<1>3. CASE MemberStep
  BY <1>3, LocksKept DEF MemberStep, Invite, JoinClub, Respond, ApproveClubMember, Answered
<1>4. CASE OrganiserStep
  BY <1>4, OrganiserWrites, LocksKept
<1>5. CASE UNCHANGED vars
  BY <1>5, LocksKept DEF vars
<1> QED
  BY <1>1, <1>2, <1>3, <1>4, <1>5, LocksAsked DEF Next

-----------------------------------------------------------------------------
(* Entries and their matches *)

(* The match g of the edition e has goalkeepers as it should.              *)
Fits(e, g) ==
  \A s \in Side :
    /\ g.keeper[s] \in roster[e][g.club[s]] \cup {Nobody}
    /\ g.state = "pending" /\ ~g.chosen[s] => g.keeper[s] = entryKeeper[e][g.club[s]]

(* Everything about one edition, and everything about the clubs.           *)
EditionInv(e) ==
  /\ status[e] = "registration" => games[e] = <<>>
  /\ \A c \in Club : entryKeeper[e][c] \in roster[e][c] \cup {Nobody}
  /\ \A c, d \in Club : c # d => roster[e][c] \cap roster[e][d] = {}
  /\ \A i \in DOMAIN games[e] : Fits(e, games[e][i])

EditionType ==
  /\ status \in [Edition -> Stage]
  /\ roster \in [Edition -> [Club -> SUBSET Person]]
  /\ entryKeeper \in [Edition -> [Club -> Keeper]]
  /\ games \in [Edition -> Seq(Game)]

MemberInv ==
  /\ member \in [Club -> [Person -> Answer]]
  /\ clubKeeper \in [Club -> Keeper]
  /\ \A c \in Club : clubKeeper[c] \in Accepted(c) \cup {Nobody}

PartsInv == LocksInv /\ MemberInv /\ EditionType /\ \A e \in Edition : EditionInv(e)

(* The invariant is the conjunction of its parts, edition by edition.      *)
LEMMA InParts == ClubInv <=> PartsInv
<1>1. ASSUME ClubInv PROVE PartsInv
  BY <1>1 DEF ClubInv, PartsInv, TypeInv, TypeOK, LocksInv, MemberInv, EditionType, EditionInv, Fits,
              NoGamesYet, KeepersBelong, OneClubPerPlayer, MatchesFollowTheEntry
<1>2. ASSUME PartsInv PROVE ClubInv
  BY <1>2 DEF ClubInv, PartsInv, TypeInv, TypeOK, LocksInv, MemberInv, EditionType, EditionInv, Fits,
              NoGamesYet, KeepersBelong, OneClubPerPlayer, MatchesFollowTheEntry
<1> QED
  BY <1>1, <1>2

(* A match of a sequence of matches.                                       *)
LEMMA OneOfMatches ==
  ASSUME NEW q \in Seq(Game), NEW i \in DOMAIN q
  PROVE  q[i] \in Game
BY LenProperties, ElementOfSeq

(* One match takes the place of another.                                   *)
LEMMA OneReplaced ==
  ASSUME NEW q \in Seq(Game), NEW i \in DOMAIN q, NEW g \in Game
  PROVE  /\ [q EXCEPT ![i] = g] \in Seq(Game)
         /\ DOMAIN [q EXCEPT ![i] = g] = DOMAIN q
         /\ \A j \in DOMAIN q : [q EXCEPT ![i] = g][j] = IF j = i THEN g ELSE q[j]
BY ExceptSeq, LenProperties

(* The matches of one edition change, in play.                             *)
LEMMA EditionPlays ==
  ASSUME PartsInv, NEW e \in Edition, NEW q \in Seq(Game), NEW t \in Stage,
         UNCHANGED <<roster, entryKeeper>>, t # "registration",
         games' = [games EXCEPT ![e] = q], status' = [status EXCEPT ![e] = t],
         \A i \in DOMAIN q : Fits(e, q[i])
  PROVE  EditionType' /\ \A f \in Edition : EditionInv(f)'
<1>1. EditionType'
  BY DEF PartsInv, EditionType
<1>2. ASSUME NEW f \in Edition PROVE EditionInv(f)'
  <2>1. EditionInv(f)
    BY DEF PartsInv
  <2>2. CASE f = e
    <3>1. games'[f] = q /\ status'[f] = t
      BY <2>2 DEF PartsInv, EditionType
    <3> QED
      BY <2>1, <2>2, <3>1 DEF EditionInv, Fits
  <2>3. CASE f # e
    <3>1. games'[f] = games[f] /\ status'[f] = status[f]
      BY <2>3 DEF PartsInv, EditionType
    <3> QED
      BY <2>1, <3>1 DEF EditionInv, Fits
  <2> QED
    BY <2>2, <2>3
<1> QED
  BY <1>1, <1>2

(* A club enters an edition or leaves it, before it starts.                *)
LEMMA EntryChanges ==
  ASSUME PartsInv, NEW e \in Edition, NEW c \in Club, NEW squad \in SUBSET Person, NEW p \in squad \cup {Nobody},
         UNCHANGED <<status, games>>, status[e] = "registration",
         \A d \in Club \ {c} : squad \cap roster[e][d] = {},
         roster' = [roster EXCEPT ![e][c] = squad], entryKeeper' = [entryKeeper EXCEPT ![e][c] = p]
  PROVE  EditionType' /\ \A f \in Edition : EditionInv(f)'
<1>1. /\ status \in [Edition -> Stage] /\ roster \in [Edition -> [Club -> SUBSET Person]]
      /\ entryKeeper \in [Edition -> [Club -> Keeper]] /\ games \in [Edition -> Seq(Game)]
  BY DEF PartsInv, EditionType
<1>2. p \in Keeper
  BY DEF Keeper
<1>3. EditionType'
  BY <1>1, <1>2 DEF EditionType
<1>4. ASSUME NEW f \in Edition PROVE EditionInv(f)'
  <2>1. EditionInv(f)
    BY DEF PartsInv
  <2>2. CASE f = e
    <3>1. games'[f] = <<>>
      BY <2>1, <2>2 DEF EditionInv
    <3>2. /\ roster'[f][c] = squad /\ entryKeeper'[f][c] = p
          /\ \A d \in Club \ {c} : roster'[f][d] = roster[f][d] /\ entryKeeper'[f][d] = entryKeeper[f][d]
      BY <1>1, <2>2
    <3>3. \A i \in DOMAIN games'[f] : Fits(f, games[f][i])'
      BY <3>1
    <3>4. \A d \in Club : entryKeeper'[f][d] \in roster'[f][d] \cup {Nobody}
      BY <2>1, <3>2 DEF EditionInv
    <3>5. \A d, x \in Club : d # x => roster'[f][d] \cap roster'[f][x] = {}
      BY <2>1, <2>2, <3>2 DEF EditionInv
    <3> QED
      BY <3>1, <3>3, <3>4, <3>5 DEF EditionInv
  <2>3. CASE f # e
    <3>1. roster'[f] = roster[f] /\ entryKeeper'[f] = entryKeeper[f]
      BY <1>1, <2>3
    <3> QED
      BY <2>1, <3>1 DEF EditionInv, Fits
  <2> QED
    BY <2>2, <2>3
<1> QED
  BY <1>3, <1>4

(* The goalkeeper of a club changes in some editions.                      *)
LEMMA KeeperChanges ==
  ASSUME PartsInv, NEW some \in SUBSET Edition, NEW c \in Club, NEW p \in Keeper,
         UNCHANGED <<status, roster>>, EntriesUpdated(some, c, p),
         \A e \in some : p \in roster[e][c] \cup {Nobody}
  PROVE  EditionType' /\ \A f \in Edition : EditionInv(f)'
<1>1. /\ status \in [Edition -> Stage] /\ roster \in [Edition -> [Club -> SUBSET Person]]
      /\ entryKeeper \in [Edition -> [Club -> Keeper]] /\ games \in [Edition -> Seq(Game)]
  BY DEF PartsInv, EditionType
<1>2. \A e \in Edition : games[e] \in Seq(Game)
  BY <1>1
<1>3. /\ entryKeeper' = [e \in Edition |-> IF e \in some THEN [entryKeeper[e] EXCEPT ![c] = p] ELSE entryKeeper[e]]
      /\ games' = [e \in Edition |-> IF e \in some THEN [i \in DOMAIN games[e] |-> Followed(games[e][i], c, p)] ELSE games[e]]
  BY DEF EntriesUpdated
<1>4. games' \in [Edition -> Seq(Game)]
  BY <1>2, <1>3, MatchesMapped
<1>5. entryKeeper' \in [Edition -> [Club -> Keeper]]
  BY <1>1, <1>3
<1>6. EditionType'
  BY <1>1, <1>4, <1>5 DEF EditionType
<1>7. ASSUME NEW f \in Edition PROVE EditionInv(f)'
  <2>1. EditionInv(f)
    BY DEF PartsInv
  <2>2. CASE f \in some
    <3>1. /\ entryKeeper'[f] = [entryKeeper[f] EXCEPT ![c] = p]
          /\ games'[f] = [i \in DOMAIN games[f] |-> Followed(games[f][i], c, p)]
      BY <1>3, <2>2
    <3>2. \A d \in Club : entryKeeper'[f][d] = IF d = c THEN p ELSE entryKeeper[f][d]
      BY <1>1, <3>1
    <3>3. status[f] = "registration" => games'[f] = <<>>
      BY <2>1, <3>1 DEF EditionInv
    <3>4. ASSUME NEW i \in DOMAIN games'[f] PROVE Fits(f, games[f][i])'
      <4> DEFINE g == games[f][i]
      <4>1. i \in DOMAIN games[f] /\ games'[f][i] = Followed(g, c, p)
        BY <3>1
      <4>2. g \in Game /\ Fits(f, g)
        BY <1>2, <2>1, <4>1, OneOfMatches DEF EditionInv
      <4>3. \A s \in Side : g.club[s] \in Club
        BY <4>2 DEF Game
      <4> HIDE DEF g
      <4>4. ASSUME NEW s \in Side
            PROVE  /\ Followed(g, c, p).keeper[s] \in roster[f][Followed(g, c, p).club[s]] \cup {Nobody}
                   /\ Followed(g, c, p).state = "pending" /\ ~Followed(g, c, p).chosen[s] =>
                        Followed(g, c, p).keeper[s] = entryKeeper'[f][Followed(g, c, p).club[s]]
        <5>1. /\ Followed(g, c, p).club[s] = g.club[s] /\ Followed(g, c, p).chosen[s] = g.chosen[s]
              /\ Followed(g, c, p).state = g.state
              /\ Followed(g, c, p).keeper[s] =
                   IF g.state = "pending" /\ g.club[s] = c /\ ~g.chosen[s] THEN p ELSE g.keeper[s]
          BY <4>2, FollowedMatch
        <5>2. entryKeeper'[f][g.club[s]] = IF g.club[s] = c THEN p ELSE entryKeeper[f][g.club[s]]
          BY <3>2, <4>3
        <5>3. p \in roster[f][c] \cup {Nobody}
          BY <2>2
        <5> QED
          BY <4>2, <5>1, <5>2, <5>3 DEF Fits
      <4> QED
        BY <4>1, <4>4 DEF Fits
    <3>5. \A d \in Club : entryKeeper'[f][d] \in roster'[f][d] \cup {Nobody}
      BY <2>1, <2>2, <3>2 DEF EditionInv
    <3> QED
      BY <2>1, <3>3, <3>4, <3>5 DEF EditionInv
  <2>3. CASE f \notin some
    <3>1. games'[f] = games[f] /\ entryKeeper'[f] = entryKeeper[f]
      BY <1>3, <2>3
    <3> QED
      BY <2>1, <3>1 DEF EditionInv, Fits
  <2> QED
    BY <2>2, <2>3
<1> QED
  BY <1>6, <1>7

-----------------------------------------------------------------------------
(* Every step keeps it *)

(* An entry with its squad, or its goalkeeper, is put in and taken out.    *)
LEMMA OwnerFinishes ==
  ASSUME PartsInv, TypeInv, NEW k \in Call, Finish(k)
  PROVE  MemberInv' /\ EditionType' /\ \A f \in Edition : EditionInv(f)'
<1>0. call[k] \in Request /\ (call[k].op # "idle" => call[k].club \in Club)
  BY RequestType
<1>1. call[k].keeper \in Keeper /\ call[k].editions \in SUBSET Edition
  BY <1>0 DEF Request
<1>2. MemberInv /\ \A e \in Edition : EditionInv(e)
  BY DEF PartsInv
<1>3. ASSUME UNCHANGED clubVars PROVE MemberInv'
  BY <1>2, <1>3 DEF MemberInv, clubVars, Accepted
<1>4. ASSUME NEW e \in Edition, Register(k, e) PROVE MemberInv' /\ EditionType' /\ \A f \in Edition : EditionInv(f)'
  <2> DEFINE c == call[k].club
             p == IF clubKeeper[c] \in Accepted(c) THEN clubKeeper[c] ELSE Nobody
  <2>1. c \in Club
    BY <1>0, <1>4 DEF Register, Ready
  <2>2. /\ status[e] = "registration" /\ Accepted(c) \cap Registered(e) = {}
        /\ roster' = [roster EXCEPT ![e][c] = Accepted(c)] /\ entryKeeper' = [entryKeeper EXCEPT ![e][c] = p]
        /\ UNCHANGED <<clubVars, status, games>>
    BY <1>4 DEF Register
  <2>3. Accepted(c) \in SUBSET Person /\ p \in Accepted(c) \cup {Nobody}
    BY DEF Accepted
  <2>4. \A d \in Club \ {c} : Accepted(c) \cap roster[e][d] = {}
    BY <2>2 DEF Registered
  <2> HIDE DEF c, p
  <2> QED
    BY <1>3, <2>1, <2>2, <2>3, <2>4, EntryChanges
<1>5. ASSUME NEW e \in Edition, Withdraw(k, e) PROVE MemberInv' /\ EditionType' /\ \A f \in Edition : EditionInv(f)'
  <2> DEFINE c == call[k].club
  <2>1. c \in Club
    BY <1>0, <1>5 DEF Withdraw, Ready
  <2>2. /\ status[e] = "registration"
        /\ roster' = [roster EXCEPT ![e][c] = {}] /\ entryKeeper' = [entryKeeper EXCEPT ![e][c] = Nobody]
        /\ UNCHANGED <<clubVars, status, games>>
    BY <1>5 DEF Withdraw
  <2> HIDE DEF c
  <2>3. {} \in SUBSET Person /\ Nobody \in {} \cup {Nobody} /\ \A d \in Club \ {c} : {} \cap roster[e][d] = {}
    OBVIOUS
  <2> QED
    BY <1>3, <2>1, <2>2, <2>3, EntryChanges
<1>6. ASSUME NEW e \in Edition, SetEntryGoalkeeper(k, e) PROVE MemberInv' /\ EditionType' /\ \A f \in Edition : EditionInv(f)'
  <2> DEFINE c == call[k].club  p == call[k].keeper
  <2>1. c \in Club
    BY <1>0, <1>6 DEF SetEntryGoalkeeper, Ready
  <2>2. (p # Nobody => p \in roster[e][c]) /\ EntriesUpdated({e}, c, p) /\ UNCHANGED <<clubVars, status, roster>>
    BY <1>6 DEF SetEntryGoalkeeper
  <2>3. {e} \in SUBSET Edition /\ \A f \in {e} : p \in roster[f][c] \cup {Nobody}
    BY <2>2
  <2>4. p \in Keeper
    BY <1>1
  <2> HIDE DEF c, p
  <2> QED
    BY <1>3, <2>1, <2>2, <2>3, <2>4, KeeperChanges
<1>7. CASE SetClubGoalkeeper(k)
  <2> DEFINE c    == call[k].club  p == call[k].keeper
             open == {e \in call[k].editions : status[e] # "finished"}
             some == {e \in open : p = Nobody \/ p \in roster[e][c]}
  <2>1. c \in Club
    BY <1>0, <1>7 DEF SetClubGoalkeeper, Ready
  <2>2. /\ p # Nobody => p \in Accepted(c)
        /\ clubKeeper' = clubKeeper \/ clubKeeper' = [clubKeeper EXCEPT ![c] = p]
        /\ EntriesUpdated(some, c, p) /\ UNCHANGED <<member, status, roster>>
    BY <1>7 DEF SetClubGoalkeeper
  <2>3. p \in Keeper /\ some \in SUBSET Edition /\ \A e \in some : p \in roster[e][c] \cup {Nobody}
    BY <1>1
  <2> HIDE DEF c, p, some
  <2>4. MemberInv'
    BY <1>2, <2>1, <2>2, <2>3 DEF MemberInv, Accepted
  <2> QED
    BY <2>1, <2>2, <2>3, <2>4, KeeperChanges
<1>8. CASE Refused(k)
  BY <1>2, <1>3, <1>8 DEF Refused, PartsInv, editionVars, EditionType, EditionInv, Fits
<1> QED
  BY <1>4, <1>5, <1>6, <1>7, <1>8 DEF Finish

(* The answers of members: nobody who has accepted leaves.                 *)
LEMMA MembersAnswer ==
  ASSUME MemberInv, MemberStep
  PROVE  MemberInv' /\ UNCHANGED <<editionVars, lock, call>>
<1>1. PICK c \in Club, p \in Person, a \in Answer :
        member[c][p] # "accepted" /\ Answered(c, p, a)
  BY DEF MemberStep, Invite, JoinClub, Respond, ApproveClubMember, Answer
<1>2. member' = [member EXCEPT ![c][p] = a] /\ UNCHANGED <<clubKeeper, editionVars, lock, call>>
  BY <1>1 DEF Answered
<1>3. \A d \in Club : Accepted(d) \subseteq Accepted(d)'
  BY <1>1, <1>2 DEF Accepted, MemberInv
<1>4. member' \in [Club -> [Person -> Answer]]
  BY <1>2 DEF MemberInv
<1> QED
  BY <1>2, <1>3, <1>4 DEF MemberInv

(* An edition begins, and its matches are played and decided.              *)
LEMMA OrganiserPlays ==
  ASSUME PartsInv, TypeInv, OrganiserStep
  PROVE  EditionType' /\ \A f \in Edition : EditionInv(f)'
<1>0. /\ UNCHANGED <<roster, entryKeeper>> /\ EditionType /\ TypeOK
      /\ \A e \in Edition : games[e] \in Seq(Game) /\ EditionInv(e)
  BY OrganiserWrites DEF PartsInv, EditionType, TypeInv
<1>1. ASSUME NEW e \in Edition, NEW h \in Entries(e), NEW a \in Entries(e)
      PROVE  NewGame(e, h, a) \in Game /\ Fits(e, NewGame(e, h, a))
  <2>1. h \in Club /\ a \in Club
    BY DEF Entries
  <2>2. /\ NewGame(e, h, a) \in Game
        /\ \A s \in Side : /\ NewGame(e, h, a).club[s] \in {h, a}
                           /\ NewGame(e, h, a).keeper[s] = entryKeeper[e][NewGame(e, h, a).club[s]]
    BY <1>0, <2>1, NewMatch
  <2>3. \A c \in Club : entryKeeper[e][c] \in roster[e][c] \cup {Nobody}
    BY <1>0 DEF EditionInv
  <2> QED
    BY <2>1, <2>2, <2>3 DEF Fits
<1>2. ASSUME NEW e \in Edition, Start(e) PROVE EditionType' /\ \A f \in Edition : EditionInv(f)'
  <2>0. PICK n \in 1 .. MaxGames : \E f \in [1 .. n -> Pairs(e)] :
          games' = [games EXCEPT ![e] = [i \in 1 .. n |-> NewGame(e, f[i][1], f[i][2])]]
    BY <1>2 DEF Start
  <2>1. PICK f \in [1 .. n -> Pairs(e)] :
          games' = [games EXCEPT ![e] = [i \in 1 .. n |-> NewGame(e, f[i][1], f[i][2])]]
    BY <2>0
  <2> DEFINE q == [i \in 1 .. n |-> NewGame(e, f[i][1], f[i][2])]
  <2>2. \A i \in 1 .. n : f[i][1] \in Entries(e) /\ f[i][2] \in Entries(e)
    BY DEF Pairs
  <2>3. \A i \in 1 .. n : q[i] \in Game /\ Fits(e, q[i])
    BY <1>1, <2>2
  <2>4. q \in [1 .. n -> Game] /\ DOMAIN q = 1 .. n
    BY <2>3
  <2> HIDE DEF q
  <2>5. q \in Seq(Game)
    BY <2>4, CallAssumption, SeqDef
  <2>6. "in_progress" \in Stage /\ status' = [status EXCEPT ![e] = "in_progress"]
    BY <1>2 DEF Start, Stage
  <2>7. games' = [games EXCEPT ![e] = q]
    BY <2>1 DEF q
  <2> QED
    BY <1>0, <2>3, <2>4, <2>5, <2>6, <2>7, EditionPlays
<1>3. ASSUME NEW e \in Edition, NEW i \in DOMAIN games[e], NEW g \in Game,
             Editable(e, i), Fits(e, g), NEW t \in Stage, t # "registration",
             status' = [status EXCEPT ![e] = t],
             games' = [games EXCEPT ![e] = [games[e] EXCEPT ![i] = g]]
      PROVE  EditionType' /\ \A f \in Edition : EditionInv(f)'
  <2> DEFINE q == [games[e] EXCEPT ![i] = g]
  <2>1. q \in Seq(Game) /\ DOMAIN q = DOMAIN games[e] /\ \A j \in DOMAIN q : q[j] = g \/ q[j] = games[e][j]
    BY <1>0, OneReplaced
  <2>2. \A j \in DOMAIN q : Fits(e, q[j])
    BY <1>0, <1>3, <2>1 DEF EditionInv
  <2> HIDE DEF q
  <2>3. games' = [games EXCEPT ![e] = q]
    BY <1>3 DEF q
  <2> QED
    BY <1>0, <1>3, <2>1, <2>2, <2>3, EditionPlays
<1>4. ASSUME NEW e \in Edition, NEW i \in DOMAIN games[e], Editable(e, i)
      PROVE  /\ games[e][i] \in Game /\ Fits(e, games[e][i])
             /\ status[e] = "in_progress" /\ status = [status EXCEPT ![e] = status[e]]
  BY <1>0, <1>4, OneOfMatches DEF Editable, EditionInv, EditionType
<1>5. ASSUME NEW e \in Edition, NEW i \in DOMAIN games[e], KickoffMatch(e, i)
      PROVE  EditionType' /\ \A f \in Edition : EditionInv(f)'
  <2> DEFINE g == [games[e][i] EXCEPT !.state = "begun"]
  <2>1. Editable(e, i) /\ games' = [games EXCEPT ![e][i].state = "begun"] /\ status' = status
    BY <1>5 DEF KickoffMatch
  <2>2. g \in Game /\ Fits(e, g)
    BY <1>4, <2>1 DEF Game, Fits
  <2>3. games' = [games EXCEPT ![e] = [games[e] EXCEPT ![i] = g]]
    BY <1>0, <2>1
  <2> HIDE DEF g
  <2>4. /\ status' = [status EXCEPT ![e] = "in_progress"]
        /\ "in_progress" \in Stage /\ "in_progress" # "registration"
    BY <1>4, <2>1 DEF Stage
  <2>5. Editable(e, i)
    BY <2>1
  <2> QED
    BY <1>3, <2>2, <2>3, <2>4, <2>5
<1>6. ASSUME NEW e \in Edition, NEW i \in DOMAIN games[e], NEW s \in Side, NEW p \in Keeper, SetGoalkeepers(e, i, s, p)
      PROVE  EditionType' /\ \A f \in Edition : EditionInv(f)'
  <2> DEFINE old == games[e][i]
             g   == [old EXCEPT !.keeper = [old.keeper EXCEPT ![s] = p], !.chosen = [old.chosen EXCEPT ![s] = TRUE]]
  <2>1. /\ Editable(e, i) /\ games' = [games EXCEPT ![e][i] = [@ EXCEPT !.keeper[s] = p, !.chosen[s] = TRUE]]
        /\ status' = status /\ p \in roster[e][games[e][i].club[s]] \cup {Nobody}
    BY <1>6 DEF SetGoalkeepers
  <2>2. g \in Game /\ Fits(e, g)
    <3>1. old \in Game /\ Fits(e, old) /\ p \in roster[e][old.club[s]] \cup {Nobody}
      BY <1>4, <2>1
    <3> HIDE DEF old
    <3>2. /\ g \in Game /\ g.club = old.club /\ g.state = old.state
          /\ g.keeper = [old.keeper EXCEPT ![s] = p] /\ g.chosen = [old.chosen EXCEPT ![s] = TRUE]
      BY <3>1 DEF Game
    <3>3. \A r \in Side : /\ g.keeper[r] = IF r = s THEN p ELSE old.keeper[r]
                          /\ g.chosen[r] = IF r = s THEN TRUE ELSE old.chosen[r]
      BY <3>1, <3>2 DEF Game
    <3> HIDE DEF g
    <3> QED
      BY <3>1, <3>2, <3>3 DEF Fits
  <2>3. games' = [games EXCEPT ![e] = [games[e] EXCEPT ![i] = g]]
    <3>1. old \in Game
      BY <1>4, <2>1
    <3>2. games' = [games EXCEPT ![e] = [games[e] EXCEPT ![i] = [old EXCEPT !.keeper[s] = p, !.chosen[s] = TRUE]]]
      BY <2>1
    <3> HIDE DEF old
    <3>3. [old EXCEPT !.keeper[s] = p, !.chosen[s] = TRUE] = g
      BY <3>1 DEF Game
    <3> QED
      BY <3>2, <3>3
  <2> HIDE DEF g
  <2>4. /\ status' = [status EXCEPT ![e] = "in_progress"]
        /\ "in_progress" \in Stage /\ "in_progress" # "registration"
    BY <1>4, <2>1 DEF Stage
  <2>5. Editable(e, i)
    BY <2>1
  <2> QED
    BY <1>3, <2>2, <2>3, <2>4, <2>5
<1>7. ASSUME NEW e \in Edition, NEW i \in DOMAIN games[e], Score(e, i)
      PROVE  EditionType' /\ \A f \in Edition : EditionInv(f)'
  <2>1. Editable(e, i)
    BY <1>7 DEF Score
  <2>2. PICK g \in Decided(games[e][i]) :
          LET now == [games[e] EXCEPT ![i] = g]
          IN \/ /\ games' = [games EXCEPT ![e] = now]
                /\ UNCHANGED status
             \/ \E p \in Pairs(e) :
                  /\ Len(now) < MaxGames
                  /\ games' = [games EXCEPT ![e] = Append(now, NewGame(e, p[1], p[2]))]
                  /\ UNCHANGED status
             \/ /\ \A j \in DOMAIN now : now[j].state = "decided"
                /\ games' = [games EXCEPT ![e] = now]
                /\ status' = [status EXCEPT ![e] = "finished"]
    BY <1>7 DEF Score
  <2> DEFINE now == [games[e] EXCEPT ![i] = g]
  <2>3. g \in Game /\ Fits(e, g)
    <3>1. games[e][i] \in Game /\ Fits(e, games[e][i])
      BY <1>4, <2>1
    <3>2. /\ g \in Game /\ g.state = "decided" /\ g.club = games[e][i].club
          /\ \A s \in Side : g.keeper[s] \in {games[e][i].keeper[s], Nobody}
      BY <3>1, DecidedMatch
    <3> QED
      BY <3>1, <3>2 DEF Fits
  <2>4. CASE games' = [games EXCEPT ![e] = now] /\ UNCHANGED status
    BY <1>3, <1>4, <2>1, <2>3, <2>4 DEF Stage
  <2>5. CASE games' = [games EXCEPT ![e] = now] /\ status' = [status EXCEPT ![e] = "finished"]
    BY <1>3, <2>1, <2>3, <2>5 DEF Stage
  <2>6. ASSUME NEW p \in Pairs(e), games' = [games EXCEPT ![e] = Append(now, NewGame(e, p[1], p[2]))], UNCHANGED status
        PROVE  EditionType' /\ \A f \in Edition : EditionInv(f)'
    <3> DEFINE new == NewGame(e, p[1], p[2])
               q   == Append(now, new)
    <3>1. new \in Game /\ Fits(e, new)
      BY <1>1 DEF Pairs
    <3>2. now \in Seq(Game) /\ DOMAIN now = DOMAIN games[e] /\ \A j \in DOMAIN now : now[j] = g \/ now[j] = games[e][j]
      BY <1>0, <2>3, OneReplaced
    <3>3. \A j \in DOMAIN now : Fits(e, now[j])
      BY <1>0, <2>3, <3>2 DEF EditionInv
    <3> HIDE DEF new, now
    <3>4. /\ q \in Seq(Game) /\ DOMAIN q = 1 .. Len(now) + 1
          /\ \A j \in 1 .. Len(now) : q[j] = now[j] /\ j \in DOMAIN now
          /\ q[Len(now) + 1] = new /\ Len(now) \in Nat
      BY <3>1, <3>2, AppendProperties, LenProperties
    <3>5. \A j \in DOMAIN q : Fits(e, q[j])
      BY <3>1, <3>3, <3>4
    <3>6. games' = [games EXCEPT ![e] = q]
      BY <2>6 DEF new
    <3> HIDE DEF q
    <3>7. status[e] = "in_progress" /\ status' = [status EXCEPT ![e] = status[e]]
      BY <1>4, <2>1, <2>6
    <3> QED
      BY <1>0, <3>4, <3>5, <3>6, <3>7, EditionPlays DEF Stage
  <2> QED
    BY <2>2, <2>4, <2>5, <2>6
<1> QED
  BY <1>2, <1>5, <1>6, <1>7 DEF OrganiserStep

(* At first no request runs and no edition has an entry.                   *)
LEMMA ClubInit == Init => ClubInv
<1> SUFFICES ASSUME Init PROVE PartsInv
  BY InParts
<1>1. LocksInv
  <2>1. Idle \in Request /\ Idle.op = "idle" /\ Idle.rows = {}
    BY DEF Idle, Request, Op, Keeper
  <2>2. call = [k \in Call |-> Idle] /\ lock = [r \in Row |-> Free]
    BY DEF Init
  <2> QED
    BY <2>1, <2>2, CallAssumption DEF LocksInv, NothingToLock
<1>2. MemberInv
  BY DEF Init, MemberInv, Answer, Keeper
<1>3. EditionType
  <2>1. <<>> \in Seq(Game)
    OBVIOUS
  <2> QED
    BY <2>1 DEF Init, EditionType, Stage, Keeper
<1>4. \A e \in Edition : EditionInv(e)
  BY DEF Init, EditionInv
<1> QED
  BY <1>1, <1>2, <1>3, <1>4 DEF PartsInv

(* The same of the state after a step.                                     *)
LEMMA InPartsNext == PartsInv' => ClubInv'
BY InParts, PTL

(* Every step keeps each part.                                             *)
LEMMA ClubStep == ClubInv /\ [Next]_vars => ClubInv'
<1> SUFFICES ASSUME ClubInv, [Next]_vars PROVE PartsInv'
  BY InPartsNext
<1>0. PartsInv /\ TypeInv
  BY InParts DEF ClubInv
<1>1. LocksInv'
  BY <1>0, LocksStep
<1>2. ASSUME UNCHANGED editionVars PROVE EditionType' /\ \A f \in Edition : EditionInv(f)'
  BY <1>0, <1>2 DEF PartsInv, editionVars, EditionType, EditionInv, Fits
<1>3. ASSUME UNCHANGED clubVars PROVE MemberInv'
  BY <1>0, <1>3 DEF PartsInv, clubVars, MemberInv, Accepted
<1>4. ASSUME NEW k \in Call, OwnerAsks(k) \/ LookUp(k) \/ Acquire(k) PROVE PartsInv'
  <2>1. UNCHANGED <<clubVars, editionVars>>
    BY <1>4 DEF OwnerAsks, AskRegister, AskWithdraw, AskEntry, AskClub, Asked, LookUp, Acquire
  <2> QED
    BY <1>1, <1>2, <1>3, <2>1 DEF PartsInv
<1>5. ASSUME NEW k \in Call, Finish(k) PROVE PartsInv'
  BY <1>0, <1>1, <1>5, OwnerFinishes DEF PartsInv
<1>6. CASE MemberStep
  BY <1>0, <1>1, <1>2, <1>6, MembersAnswer DEF PartsInv
<1>7. CASE OrganiserStep
  BY <1>0, <1>1, <1>3, <1>7, OrganiserPlays, OrganiserWrites DEF PartsInv
<1>8. CASE UNCHANGED vars
  BY <1>1, <1>2, <1>3, <1>8 DEF vars, clubVars, editionVars, PartsInv
<1> QED
  BY <1>4, <1>5, <1>6, <1>7, <1>8 DEF Next

(* So the invariant always holds.                                          *)
LEMMA ClubInvAlways == Spec => []ClubInv
<1> QED
  BY ClubInit, ClubStep, PTL DEF Spec

-----------------------------------------------------------------------------
(***************************************************************************)
(* Rows keep their types, and a row that is locked is so by a request that *)
(* runs and has it no longer to lock.                                      *)
(***************************************************************************)
THEOREM ClubsAreWellFormed == Spec => []TypeOK
<1>1. ClubInv => TypeOK
  BY DEF ClubInv, TypeInv
<1> QED
  BY <1>1, ClubInvAlways, PTL

(***************************************************************************)
(* Whatever comes between the check of a goalkeeper and the write of him:  *)
(* in clubs, entries and matches he is one of those who belong there.      *)
(***************************************************************************)
THEOREM KeepersAlwaysBelong == Spec => []KeepersBelong
<1>1. ClubInv => KeepersBelong
  BY DEF ClubInv
<1> QED
  BY <1>1, ClubInvAlways, PTL

(***************************************************************************)
(* Nobody is registered in one edition by two clubs, however many register *)
(* at a time.                                                              *)
(***************************************************************************)
THEOREM NobodyPlaysForTwo == Spec => []OneClubPerPlayer
<1>1. ClubInv => OneClubPerPlayer
  BY DEF ClubInv
<1> QED
  BY <1>1, ClubInvAlways, PTL

(***************************************************************************)
(* A match still to begin shows the goalkeeper of its entries, unless the  *)
(* organiser has chosen another.                                           *)
(***************************************************************************)
THEOREM MatchesShowTheEntry == Spec => []MatchesFollowTheEntry
<1>1. ClubInv => MatchesFollowTheEntry
  BY DEF ClubInv
<1> QED
  BY <1>1, ClubInvAlways, PTL

(* A request that ends leaves what has begun or was chosen.                *)
LEMMA RequestLeaves ==
  ASSUME PartsInv, TypeInv, NEW k \in Call, Finish(k), NEW e \in Edition, NEW i \in DOMAIN games[e], NEW s \in Side,
         games[e][i].state # "pending" \/ games[e][i].chosen[s]
  PROVE  games'[e][i].keeper[s] = games[e][i].keeper[s]
<1>0. games[e] \in Seq(Game)
  BY DEF PartsInv, EditionType
<1>1. CASE games' = games
  BY <1>1
<1>2. ASSUME NEW some, NEW c \in Club, NEW p \in Keeper, EntriesUpdated(some, c, p)
      PROVE  games'[e][i].keeper[s] = games[e][i].keeper[s]
  <2>1. games[e][i] \in Game
    BY <1>0, OneOfMatches
  <2>2. Followed(games[e][i], c, p).keeper[s] = games[e][i].keeper[s]
    BY <2>1, FollowedMatch
  <2>3. games'[e] = IF e \in some THEN [j \in DOMAIN games[e] |-> Followed(games[e][j], c, p)] ELSE games[e]
    BY <1>2 DEF EntriesUpdated
  <2> QED
    BY <2>2, <2>3
<1>3. call[k] \in Request /\ (call[k].op # "idle" => call[k].club \in Club)
  BY RequestType
<1>4. call[k].keeper \in Keeper
  BY <1>3 DEF Request
<1>5. ASSUME NEW f \in Edition, Register(k, f) \/ Withdraw(k, f) PROVE games' = games
  BY <1>5 DEF Register, Withdraw
<1>6. ASSUME NEW f \in Edition, SetEntryGoalkeeper(k, f) PROVE games'[e][i].keeper[s] = games[e][i].keeper[s]
  <2>1. EntriesUpdated({f}, call[k].club, call[k].keeper) /\ call[k].op = "entry"
    BY <1>6 DEF SetEntryGoalkeeper, Ready
  <2> QED
    BY <1>2, <1>3, <1>4, <2>1
<1>7. CASE SetClubGoalkeeper(k)
  <2>1. PICK some : EntriesUpdated(some, call[k].club, call[k].keeper)
    BY <1>7 DEF SetClubGoalkeeper
  <2>2. call[k].op = "club"
    BY <1>7 DEF SetClubGoalkeeper, Ready
  <2> QED
    BY <1>2, <1>3, <1>4, <2>1, <2>2
<1>8. CASE Refused(k)
  BY <1>1, <1>8 DEF Refused, editionVars
<1> QED
  BY <1>1, <1>5, <1>6, <1>7, <1>8 DEF Finish

(***************************************************************************)
(* The end of an owner's request never changes the goalkeeper of a match   *)
(* that has begun or that the organiser has chosen, however long the       *)
(* request has waited for its locks.                                       *)
(***************************************************************************)
THEOREM OrganiserHasTheLastWord == Spec => TheOrganiserDecides
<1>1. ASSUME ClubInv, [Next]_vars
      PROVE  [ \A k \in Call, e \in Edition :
                 call[k].op # "idle" /\ call'[k].op = "idle" =>
                   \A i \in DOMAIN games[e], s \in Side :
                     games[e][i].state # "pending" \/ games[e][i].chosen[s] =>
                       games'[e][i].keeper[s] = games[e][i].keeper[s] ]_vars
  <2> SUFFICES ASSUME NEW k \in Call, NEW e \in Edition, call[k].op # "idle", call'[k].op = "idle",
                      NEW i \in DOMAIN games[e], NEW s \in Side,
                      games[e][i].state # "pending" \/ games[e][i].chosen[s]
               PROVE  games'[e][i].keeper[s] = games[e][i].keeper[s]
    OBVIOUS
  <2>0. PartsInv /\ TypeInv /\ call \in [Call -> Request]
    BY <1>1, InParts DEF ClubInv, TypeInv, TypeOK
  <2>1. CASE games' = games
    BY <2>1
  <2>2. ASSUME NEW j \in Call, Finish(j) PROVE games'[e][i].keeper[s] = games[e][i].keeper[s]
    BY <2>0, <2>2, RequestLeaves
  <2>3. ASSUME NEW j \in Call, OwnerAsks(j) \/ LookUp(j) \/ Acquire(j) PROVE games' = games
    BY <2>3 DEF OwnerAsks, AskRegister, AskWithdraw, AskEntry, AskClub, Asked, LookUp, Acquire, editionVars
  <2>4. CASE MemberStep
    BY <2>0, <2>1, <2>4, MembersAnswer DEF PartsInv, editionVars
  <2>5. CASE OrganiserStep
    BY <2>5, OrganiserWrites
  <2> QED
    BY <1>1, <2>1, <2>2, <2>3, <2>4, <2>5 DEF Next, vars
<1> QED
  BY <1>1, ClubInvAlways, PTL DEF Spec, TheOrganiserDecides
=============================================================================
