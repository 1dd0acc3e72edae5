------------------------------- MODULE Clubs -------------------------------
(***************************************************************************)
(* Clubs, their members and goalkeepers, and the editions they enter       *)
(* (controllers/championships.py, services/championships.py).              *)
(*                                                                         *)
(* The requests of a club's owner that lock several rows take them one by  *)
(* one, waiting where another has them, and write at the end: `call' is    *)
(* such a request and what it has read so far, `lock' who has which row.   *)
(* Rows are numbers, ordered as the requests lock them: editions by their  *)
(* ids and then the club.  Requests that lock one row only wait for it,    *)
(* and are one step in which nobody has it.                                *)
(***************************************************************************)
EXTENDS Integers, Sequences, FiniteSets

CONSTANTS
  Club, Edition,    \* the numbers of their rows
  League,           \* editions of the format league
  Capacity,         \* places of each edition
  Person,
  Owner,            \* the owner of each club
  Nobody, NoClub,
  Call,             \* requests with several locks that run at a time
  Free,             \* a row that nobody has locked
  MaxGames          \* bound: matches of an edition

ASSUME RowAssumption ==
  /\ Club \subseteq Nat /\ Edition \subseteq Nat
  /\ \A e \in Edition, c \in Club : e < c
  /\ NoClub \notin Club
ASSUME PersonAssumption == IsFiniteSet(Person) /\ Nobody \notin Person /\ Owner \in [Club -> Person]
ASSUME EditionAssumption == League \subseteq Edition /\ Capacity \in [Edition -> Nat]
ASSUME CallAssumption == Free \notin Call /\ MaxGames \in Nat

VARIABLES
  member,       \* club_members.status, "none" without a row
  clubKeeper,   \* clubs.starting_goalkeeper_id
  status,       \* championships.status
  roster,       \* championship_players of each entry, {} without one
  entryKeeper,  \* championship_entries.starting_goalkeeper_id
  games,        \* championship_matches by sequence
  lock,
  call

clubVars    == <<member, clubKeeper>>
editionVars == <<status, roster, entryKeeper, games>>
vars == <<member, clubKeeper, status, roster, entryKeeper, games, lock, call>>

Row    == Club \cup Edition
Keeper == Person \cup {Nobody}
Side   == {1, 2}                 \* home, away

Answer == {"none", "pending", "requested", "accepted", "declined"}
Stage  == {"registration", "in_progress", "finished"}
Op     == {"idle", "register", "withdraw", "entry", "looking", "club"}

(* A match: whether each keeper was chosen for it (override), and how far  *)
(* it is: begun (started_at, actions) or decided (a score).                *)
Game == [club : [Side -> Club], keeper : [Side -> Keeper], chosen : [Side -> BOOLEAN],
         state : {"pending", "begun", "decided"}]

(* rows: to be locked still; seen: the keeper of the club, as it was read.  *)
Request == [op : Op, club : Club \cup {NoClub}, editions : SUBSET Edition, keeper : Keeper, seen : Keeper, rows : SUBSET Row]

-----------------------------------------------------------------------------
Accepted(c)   == {p \in Person : member[c][p] = "accepted"}
Entries(e)    == {c \in Club : roster[e][c] # {}}
Registered(e) == UNION {roster[e][c] : c \in Club}

NextRowClubFirst(k, r) ==                \* mutant: set_club_goalkeeper takes the club first
  \A s \in call[k].rows : IF call[k].op = "club" THEN s <= r ELSE r <= s

(* The order of locking: editions by id, then the club.                    *)
NextRow(k, r) == \A s \in call[k].rows : r <= s

Ready(k, op) == call[k].op = op /\ call[k].rows = {}

Idle == [op |-> "idle", club |-> NoClub, editions |-> {}, keeper |-> Nobody, seen |-> Nobody, rows |-> {}]

(* The request ends; commit or rollback releases its locks.                *)
Ends(k) ==
  /\ call' = [call EXCEPT ![k] = Idle]
  /\ lock' = [r \in Row |-> IF lock[r] = k THEN Free ELSE lock[r]]

FollowedOnCourt(g, c, p) ==              \* mutant: matches in progress, too
  IF g.state = "decided" THEN g
  ELSE [g EXCEPT !.keeper = [s \in Side |-> IF g.club[s] = c /\ ~g.chosen[s] THEN p ELSE g.keeper[s]]]

FollowedHome(g, c, p) ==                 \* mutant: the home side only
  IF g.state # "pending" \/ g.club[1] # c \/ g.chosen[1] THEN g
  ELSE [g EXCEPT !.keeper[1] = p]

(* update_entry_goalkeeper, for the match g of the club c.                 *)
Followed(g, c, p) ==
  IF g.state # "pending" THEN g
  ELSE [g EXCEPT !.keeper = [s \in Side |-> IF g.club[s] = c /\ ~g.chosen[s] THEN p ELSE g.keeper[s]]]

EntriesUpdated(some, c, p) ==
  /\ entryKeeper' = [e \in Edition |-> IF e \in some THEN [entryKeeper[e] EXCEPT ![c] = p] ELSE entryKeeper[e]]
  /\ games' = [e \in Edition |-> IF e \in some THEN [i \in DOMAIN games[e] |-> Followed(games[e][i], c, p)] ELSE games[e]]

-----------------------------------------------------------------------------
(* Requests of owners, and their locks *)

Asked(k, op, c, some, p, seen, rows) ==
  /\ call[k].op = "idle"
  /\ call' = [call EXCEPT ![k] = [op |-> op, club |-> c, editions |-> some, keeper |-> p, seen |-> seen, rows |-> rows]]
  /\ UNCHANGED <<clubVars, editionVars, lock>>

AskRegister(k, c, e)  == Asked(k, "register", c, {e}, Nobody, Nobody, {e, c})
AskWithdraw(k, c, e)  == Asked(k, "withdraw", c, {e}, Nobody, Nobody, {e, c})
AskEntry(k, c, e, p)  == Asked(k, "entry", c, {e}, p, Nobody, {e, c})

(* set_club_goalkeeper reads the club before it has any lock; the later    *)
(* SELECT FOR UPDATE does not refresh the object it has.                   *)
AskClub(k, c, p) == Asked(k, "looking", c, {}, p, clubKeeper[c], {})

(* open_club_editions: the editions of the moment, then locked in order.   *)
LookUp(k) ==
  /\ call[k].op = "looking"
  /\ LET c    == call[k].club
         open == {e \in Edition : status[e] # "finished" /\ c \in Entries(e)}
     IN call' = [call EXCEPT ![k].op = "club", ![k].editions = open, ![k].rows = open \cup {c}]
  /\ UNCHANGED <<clubVars, editionVars, lock>>

Acquire(k) ==
  \E r \in call[k].rows :
    /\ NextRow(k, r)
    /\ lock[r] = Free
    /\ lock' = [lock EXCEPT ![r] = k]
    /\ call' = [call EXCEPT ![k].rows = call[k].rows \ {r}]
    /\ UNCHANGED <<clubVars, editionVars>>

Register(k, e) ==
  LET c == call[k].club
  IN /\ Ready(k, "register") /\ call[k].editions = {e}
     /\ status[e] = "registration" /\ c \notin Entries(e)
     /\ e \in League \/ Cardinality(Entries(e)) < Capacity[e]
     /\ Cardinality(Accepted(c)) >= 2
     /\ Accepted(c) \cap Registered(e) = {}
     /\ roster' = [roster EXCEPT ![e][c] = Accepted(c)]
     /\ entryKeeper' = [entryKeeper EXCEPT ![e][c] = IF clubKeeper[c] \in Accepted(c) THEN clubKeeper[c] ELSE Nobody]
     /\ Ends(k)
     /\ UNCHANGED <<clubVars, status, games>>

WithdrawAnyTime(k, e) ==                 \* mutant: after the start, too
  LET c == call[k].club
  IN /\ Ready(k, "withdraw") /\ call[k].editions = {e}
     /\ roster' = [roster EXCEPT ![e][c] = {}]
     /\ entryKeeper' = [entryKeeper EXCEPT ![e][c] = Nobody]
     /\ Ends(k)
     /\ UNCHANGED <<clubVars, status, games>>

Withdraw(k, e) ==
  LET c == call[k].club
  IN /\ Ready(k, "withdraw") /\ call[k].editions = {e}
     /\ status[e] = "registration"
     /\ roster' = [roster EXCEPT ![e][c] = {}]
     /\ entryKeeper' = [entryKeeper EXCEPT ![e][c] = Nobody]
     /\ Ends(k)
     /\ UNCHANGED <<clubVars, status, games>>

SetEntryGoalkeeper(k, e) ==
  LET c == call[k].club  p == call[k].keeper
  IN /\ Ready(k, "entry") /\ call[k].editions = {e}
     /\ status[e] # "finished" /\ c \in Entries(e)
     /\ p # Nobody => p \in roster[e][c]
     /\ EntriesUpdated({e}, c, p)
     /\ Ends(k)
     /\ UNCHANGED <<clubVars, status, roster>>

(***************************************************************************)
(* Editions that were finished while the request waited are not returned.  *)
(* An entry that was withdrawn makes it fail (StopIteration).  The column  *)
(* is written only if it differs from what the request has seen.           *)
(***************************************************************************)
SetClubGoalkeeper(k) ==
  LET c    == call[k].club  p == call[k].keeper
      open == {e \in call[k].editions : status[e] # "finished"}
  IN /\ Ready(k, "club")
     /\ p # Nobody => p \in Accepted(c)
     /\ \A e \in open : c \in Entries(e)
     /\ clubKeeper' = IF p = call[k].seen THEN clubKeeper ELSE [clubKeeper EXCEPT ![c] = p]
     /\ EntriesUpdated({e \in open : p = Nobody \/ p \in roster[e][c]}, c, p)
     /\ Ends(k)
     /\ UNCHANGED <<member, status, roster>>

(* A check refuses the request, or it fails.                               *)
Refused(k) ==
  /\ call[k].op \notin {"idle", "looking"} /\ call[k].rows = {}
  /\ Ends(k)
  /\ UNCHANGED <<clubVars, editionVars>>

Finish(k) ==
  \/ \E e \in Edition : Register(k, e) \/ Withdraw(k, e) \/ SetEntryGoalkeeper(k, e)
  \/ SetClubGoalkeeper(k)
  \/ Refused(k)

-----------------------------------------------------------------------------
(* Members, under the lock of the club *)

Answered(c, p, a) ==
  /\ lock[c] = Free
  /\ member' = [member EXCEPT ![c][p] = a]
  /\ UNCHANGED <<clubKeeper, editionVars, lock, call>>

Invite(c, p)  == member[c][p] \in {"none", "declined"} /\ Answered(c, p, "pending")
JoinClub(c, p) == member[c][p] \in {"none", "declined"} /\ Answered(c, p, "requested")
Respond(c, p) == member[c][p] = "pending" /\ \E a \in {"accepted", "declined"} : Answered(c, p, a)
ApproveClubMember(c, p) == member[c][p] = "requested" /\ \E a \in {"accepted", "declined"} : Answered(c, p, a)

-----------------------------------------------------------------------------
(* Editions, by their organiser, under the lock of the edition *)

(* add_matches: keepers are those of the entries at this moment.           *)
NewGame(e, h, a) ==
  [club |-> <<h, a>>, keeper |-> <<entryKeeper[e][h], entryKeeper[e][a]>>,
   chosen |-> <<FALSE, FALSE>>, state |-> "pending"]

Written(e) ==
  /\ lock[e] = Free
  /\ UNCHANGED <<clubVars, roster, entryKeeper, lock, call>>

Pairs(e) == {p \in Entries(e) \X Entries(e) : p[1] # p[2]}

(* Which matches there are to begin with is the matter of Championship.    *)
Start(e) ==
  /\ Written(e)
  /\ status[e] = "registration"
  /\ IF e \in League THEN Cardinality(Entries(e)) >= 2 ELSE Cardinality(Entries(e)) = Capacity[e]
  /\ status' = [status EXCEPT ![e] = "in_progress"]
  /\ \E n \in 1 .. MaxGames : \E f \in [1 .. n -> Pairs(e)] :
       games' = [games EXCEPT ![e] = [i \in 1 .. n |-> NewGame(e, f[i][1], f[i][2])]]

Editable(e, i) == status[e] = "in_progress" /\ games[e][i].state # "decided"

SetGoalkeepers(e, i, s, p) ==
  /\ Written(e)
  /\ Editable(e, i)
  /\ IF p = Nobody THEN games[e][i].state = "pending" ELSE p \in roster[e][games[e][i].club[s]]
  /\ p # games[e][i].keeper[s]
  /\ games' = [games EXCEPT ![e][i] = [@ EXCEPT !.keeper[s] = p, !.chosen[s] = TRUE]]
  /\ UNCHANGED status

KickoffMatch(e, i) ==
  /\ Written(e)
  /\ Editable(e, i)
  /\ games' = [games EXCEPT ![e][i].state = "begun"]
  /\ UNCHANGED status

(* A result; by walkover it takes the keepers off.  Another match follows, *)
(* the edition is finished with its last one, or neither.                  *)
Decided(g) ==
  {[g EXCEPT !.state = "decided"]}
    \cup (IF g.state = "pending" THEN {[g EXCEPT !.state = "decided", !.keeper = <<Nobody, Nobody>>]} ELSE {})

Score(e, i) ==
  /\ Written(e)
  /\ Editable(e, i)
  /\ \E g \in Decided(games[e][i]) :
       LET now == [games[e] EXCEPT ![i] = g]
       IN \/ /\ games' = [games EXCEPT ![e] = now]
             /\ UNCHANGED status
          \/ \E p \in Pairs(e) :
               /\ Len(now) < MaxGames
               /\ games' = [games EXCEPT ![e] = Append(now, NewGame(e, p[1], p[2]))]
               /\ UNCHANGED status
          \/ /\ \A j \in DOMAIN now : now[j].state = "decided"
             /\ games' = [games EXCEPT ![e] = now]
             /\ status' = [status EXCEPT ![e] = "finished"]

-----------------------------------------------------------------------------
Init ==
  /\ member = [c \in Club |-> [p \in Person |-> IF p = Owner[c] THEN "accepted" ELSE "none"]]
  /\ clubKeeper = [c \in Club |-> Nobody]
  /\ status = [e \in Edition |-> "registration"]
  /\ roster = [e \in Edition |-> [c \in Club |-> {}]]
  /\ entryKeeper = [e \in Edition |-> [c \in Club |-> Nobody]]
  /\ games = [e \in Edition |-> <<>>]
  /\ lock = [r \in Row |-> Free]
  /\ call = [k \in Call |-> Idle]

OwnerAsks(k) ==
  \E c \in Club :
    \/ \E e \in Edition : AskRegister(k, c, e) \/ AskWithdraw(k, c, e) \/ \E p \in Keeper : AskEntry(k, c, e, p)
    \/ \E p \in Keeper : AskClub(k, c, p)

MemberStep ==
  \E c \in Club, p \in Person : Invite(c, p) \/ JoinClub(c, p) \/ Respond(c, p) \/ ApproveClubMember(c, p)

OrganiserStep ==
  \E e \in Edition :
    \/ Start(e)
    \/ \E i \in DOMAIN games[e] :
         KickoffMatch(e, i) \/ Score(e, i) \/ \E s \in Side, p \in Keeper : SetGoalkeepers(e, i, s, p)

Next ==
  \/ \E k \in Call : OwnerAsks(k) \/ LookUp(k) \/ Acquire(k) \/ Finish(k)
  \/ MemberStep
  \/ OrganiserStep

Spec == Init /\ [][Next]_vars

(***************************************************************************)
(* A request that runs goes on running; PostgreSQL serves those who wait   *)
(* for a row in the order in which they came, so whoever waits gets it     *)
(* if it becomes free again and again.  Nobody is obliged to ask.          *)
(***************************************************************************)
Fairness ==
  \A k \in Call : WF_vars(LookUp(k)) /\ SF_vars(Acquire(k)) /\ WF_vars(Finish(k))

FairSpec == Spec /\ Fairness

-----------------------------------------------------------------------------
(***************************************************************************)
(* Rows of clubs, editions and matches; a row is locked by a request that  *)
(* runs and has taken it off its list.                                     *)
(***************************************************************************)
TypeOK ==
  /\ member \in [Club -> [Person -> Answer]]
  /\ clubKeeper \in [Club -> Keeper]
  /\ status \in [Edition -> Stage]
  /\ roster \in [Edition -> [Club -> SUBSET Person]]
  /\ entryKeeper \in [Edition -> [Club -> Keeper]]
  /\ games \in [Edition -> Seq(Game)]
  /\ lock \in [Row -> Call \cup {Free}]
  /\ call \in [Call -> Request]
  /\ \A k \in Call : /\ call[k].rows \subseteq call[k].editions \cup {call[k].club}
                     /\ \A r \in Row : lock[r] = k => call[k].op \notin {"idle", "looking"} /\ r \notin call[k].rows

(***************************************************************************)
(* Whatever the order in which members come, clubs enter and leave, and    *)
(* goalkeepers change: the goalkeeper of an entry, and of every match that *)
(* is to be played or has been, is of the squad registered there, and the  *)
(* one of a club has accepted its invitation.                              *)
(***************************************************************************)
KeepersBelong ==
  /\ \A c \in Club : clubKeeper[c] \in Accepted(c) \cup {Nobody}
  /\ \A e \in Edition :
       /\ \A c \in Club : entryKeeper[e][c] \in roster[e][c] \cup {Nobody}
       /\ \A i \in DOMAIN games[e], s \in Side :
            games[e][i].keeper[s] \in roster[e][games[e][i].club[s]] \cup {Nobody}

(***************************************************************************)
(* Two clubs that share a player enter an edition at the same time: only   *)
(* one gets in.                                                            *)
(***************************************************************************)
OneClubPerPlayer ==
  \A e \in Edition : \A c, d \in Club : c # d => roster[e][c] \cap roster[e][d] = {}

(***************************************************************************)
(* A match that has not begun shows the goalkeeper of the entry, unless    *)
(* the organiser has chosen another: a change reaches all that are to be   *)
(* played, and those of later rounds start from it.                        *)
(***************************************************************************)
MatchesFollowTheEntry ==
  \A e \in Edition : \A i \in DOMAIN games[e], s \in Side :
    games[e][i].state = "pending" /\ ~games[e][i].chosen[s] =>
      games[e][i].keeper[s] = entryKeeper[e][games[e][i].club[s]]

(***************************************************************************)
(* Once a match has begun, or the organiser has chosen its goalkeeper, no  *)
(* request of a club's owner changes it, not even one that was waiting     *)
(* for its locks when that happened.                                       *)
(***************************************************************************)
TheOrganiserDecides ==
  [][ \A k \in Call, e \in Edition :
        call[k].op # "idle" /\ call'[k].op = "idle" =>
          \A i \in DOMAIN games[e], s \in Side :
            games[e][i].state # "pending" \/ games[e][i].chosen[s] =>
              games'[e][i].keeper[s] = games[e][i].keeper[s] ]_vars

(***************************************************************************)
(* "Mesma ordem de locks usada na inscricao: edicoes, depois o clube":     *)
(* no two requests wait for each other for ever; every one ends.           *)
(***************************************************************************)
EveryRequestEnds == \A k \in Call : call[k].op # "idle" ~> call[k].op = "idle"

(***************************************************************************)
(* Feedback.md: "Mudar o padrao do clube tambem atualiza as edicoes        *)
(* abertas em que o novo goleiro ja esta inscrito."                        *)
(***************************************************************************)
OpenEditionsFollow ==
  [][ \A k \in Call :
        call[k].op = "club" /\ clubKeeper'[call[k].club] # clubKeeper[call[k].club] =>
          LET c == call[k].club  p == clubKeeper'[c]
          IN \A e \in Edition :
               status[e] # "finished" /\ p \in roster[e][c] => entryKeeper'[e][c] = p ]_vars
=============================================================================
