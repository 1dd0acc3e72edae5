------------------------------ MODULE Membership ------------------------------
(***************************************************************************)
(* Who may do what in one group: the sessions of controllers/auth.py, the  *)
(* dependencies every request passes (routers/dependencies.py), requests   *)
(* to join, roles, and what managers write.                                *)
(*                                                                         *)
(* A request reads the session, the profile, the membership and, where it  *)
(* asks for it, the right to manage one after the other, and takes the     *)
(* lock of the group only then: each of these reads is a step of its own   *)
(* and may be out of date when the request writes.  What follows the lock  *)
(* is one step.  `caller' is the profile that the dependencies hand over.  *)
(***************************************************************************)
EXTENDS Naturals

CONSTANTS
  Profile,    \* accounts
  Owner,      \* the account that created the group (created_by_id)
  Nobody,
  Call,       \* requests that may be in progress at a time
  Token,      \* session tokens, as many as there are sessions at a time
  Lifetime,   \* how many ticks a session lasts (eight hours)
  Rating      \* grades managers may give

ASSUME ProfileAssumption == Owner \in Profile /\ Nobody \notin Profile
ASSUME LifetimeAssumption == Lifetime \in Nat \ {0}

VARIABLES
  session,    \* _sessions: whom each token names, Nobody if it is not there
  left,       \* ticks until the session expires; 0 when it has
  enabled,    \* profiles with is_active
  standing,   \* group_members.status, "none" without a row
  post,       \* group_members.role
  request,    \* group_join_requests.status, "none" without a row
  draws,      \* group_draw_settings: any of them on
  rating,     \* group_player_ratings: the grades given
  step,       \* how far each request has come
  caller,     \* the profile it acts for
  subject,    \* the person it grades
  held        \* history: what the caller has held since the request began

sessionVars == <<session, left>>
groupVars   == <<standing, post, request>>
drawVars    == <<draws, rating>>
callVars    == <<step, caller, subject>>
vars == <<session, left, enabled, standing, post, request, draws, rating,
          step, caller, subject, held>>

Standing == {"none", "active", "invited", "blocked"}
Post     == {"member", "admin"}
Answer   == {"none", "pending", "approved", "rejected"}
Step     == {"idle", "session", "profile", "group", "manager", "target"}
Grades   == {{}} \cup {{g} : g \in Rating}     \* no row, or one

-----------------------------------------------------------------------------
Live(t)    == session[t] # Nobody /\ left[t] > 0
Belongs(p) == p = Owner \/ standing[p] = "active"
Manager(p) == p = Owner \/ (standing[p] = "active" /\ post[p] = "admin")

(* What p holds at the moment, of what a request asks for.                 *)
HeldBy(p) ==
  (IF \E t \in Token : Live(t) /\ session[t] = p THEN {"session"} ELSE {})
    \cup (IF p \in enabled THEN {"account"} ELSE {})
    \cup (IF p \in Profile /\ Belongs(p) THEN {"access"} ELSE {})
    \cup (IF p \in Profile /\ Manager(p) THEN {"charge"} ELSE {})

Entitlement == {"session", "account", "access", "charge"}

HeldNow(c) == HeldBy(caller[c])

Recorded ==
  held' = [c \in Call |-> IF step'[c] = "idle" THEN {} ELSE held[c] \cup HeldNow(c)']

(* The request c comes to step s, or ends.                                 *)
Goes(c, s) ==
  /\ step' = [step EXCEPT ![c] = s]
  /\ UNCHANGED <<caller, subject>>

Ends(c) ==
  /\ step' = [step EXCEPT ![c] = "idle"]
  /\ caller' = [caller EXCEPT ![c] = Nobody]
  /\ subject' = [subject EXCEPT ![c] = Nobody]

-----------------------------------------------------------------------------
(* Sessions *)

Purged(t) == session[t] # Nobody /\ left[t] = 0

(***************************************************************************)
(* The account is looked up before its password is hashed, so it may have  *)
(* been deactivated by the time the session is stored.  The token is new   *)
(* (token_urlsafe); expired sessions are dropped on the way.               *)
(***************************************************************************)
Login(p, t) ==
  /\ session[t] = Nobody \/ Purged(t)
  /\ session' = [u \in Token |-> IF u = t THEN p ELSE IF Purged(u) THEN Nobody ELSE session[u]]
  /\ left' = [left EXCEPT ![t] = Lifetime]
  /\ UNCHANGED <<enabled, groupVars, drawVars, callVars>>

Logout(t) ==
  /\ session[t] # Nobody
  /\ session' = [session EXCEPT ![t] = Nobody]
  /\ UNCHANGED <<left, enabled, groupVars, drawVars, callVars>>

Tick ==
  /\ \E t \in Token : Live(t)
  /\ left' = [t \in Token |-> IF left[t] > 0 THEN left[t] - 1 ELSE 0]
  /\ UNCHANGED <<session, enabled, groupVars, drawVars, callVars>>

(* The sessions are in memory, and the database rolls back open requests.  *)
Restart ==
  /\ session' = [t \in Token |-> Nobody]
  /\ step' = [c \in Call |-> "idle"]
  /\ caller' = [c \in Call |-> Nobody]
  /\ subject' = [c \in Call |-> Nobody]
  /\ UNCHANGED <<left, enabled, groupVars, drawVars>>

-----------------------------------------------------------------------------
(* The dependencies of a request *)

Authenticate(c, t) ==
  /\ step[c] = "idle"
  /\ \/ /\ Live(t)
        /\ step' = [step EXCEPT ![c] = "session"]
        /\ caller' = [caller EXCEPT ![c] = session[t]]
        /\ UNCHANGED <<session, subject>>
     \/ /\ Purged(t)
        /\ session' = [session EXCEPT ![t] = Nobody]
        /\ UNCHANGED callVars
  /\ UNCHANGED <<left, enabled, groupVars, drawVars>>

LoadProfile(c) ==
  /\ step[c] = "session"
  /\ caller[c] \in enabled
  /\ Goes(c, "profile")
  /\ UNCHANGED <<sessionVars, enabled, groupVars, drawVars>>

AccessibleGroup(c) ==
  /\ step[c] = "profile"
  /\ Belongs(caller[c])
  /\ Goes(c, "group")
  /\ UNCHANGED <<sessionVars, enabled, groupVars, drawVars>>

(* can_manage, before any lock: managed_event, rotate_code, draw settings. *)
CheckManager(c) ==
  /\ step[c] = "group"
  /\ Manager(caller[c])
  /\ Goes(c, "manager")
  /\ UNCHANGED <<sessionVars, enabled, groupVars, drawVars>>

(* rating_target goes on to look whether p belongs to the group.           *)
CheckTarget(c, p) ==
  /\ step[c] = "manager"
  /\ Belongs(p)
  /\ step' = [step EXCEPT ![c] = "target"]
  /\ subject' = [subject EXCEPT ![c] = p]
  /\ UNCHANGED <<caller, sessionVars, enabled, groupVars, drawVars>>

(* Any of the checks refuses, the payload is not valid, the request fails. *)
Refused(c) ==
  /\ step[c] # "idle"
  /\ Ends(c)
  /\ UNCHANGED <<sessionVars, enabled, groupVars, drawVars>>

-----------------------------------------------------------------------------
(* What requests write, under the lock of the group *)

RequestJoin(c) ==
  /\ step[c] = "profile"
  /\ ~Belongs(caller[c])
  /\ standing[caller[c]] # "blocked"
  /\ request' = [request EXCEPT ![caller[c]] = "pending"]
  /\ Ends(c)
  /\ UNCHANGED <<sessionVars, enabled, standing, post, drawVars>>

ApprovedInPost(p) ==                         \* mutant: back in the old role
  /\ p \in enabled
  /\ standing[p] # "blocked"
  /\ standing' = [standing EXCEPT ![p] = "active"]
  /\ request' = [request EXCEPT ![p] = "approved"]
  /\ UNCHANGED post

Approved(p) ==
  /\ p \in enabled
  /\ standing[p] # "blocked"
  /\ standing' = [standing EXCEPT ![p] = "active"]
  /\ post' = IF standing[p] = "active" THEN post ELSE [post EXCEPT ![p] = "member"]
  /\ request' = [request EXCEPT ![p] = "approved"]

Rejected(p) ==
  /\ request' = [request EXCEPT ![p] = "rejected"]
  /\ UNCHANGED <<standing, post>>

ReviewByMembers(c, p) ==                     \* mutant: the right is not asked for
  /\ step[c] = "group"
  /\ request[p] = "pending"
  /\ Approved(p) \/ Rejected(p)
  /\ Ends(c)
  /\ UNCHANGED <<sessionVars, enabled, drawVars>>

ReviewAgain(c, p) ==                         \* mutant: whatever was answered
  /\ step[c] = "group"
  /\ Manager(caller[c])
  /\ request[p] # "none"
  /\ Approved(p) \/ Rejected(p)
  /\ Ends(c)
  /\ UNCHANGED <<sessionVars, enabled, drawVars>>

Review(c, p) ==
  /\ step[c] = "group"
  /\ Manager(caller[c])
  /\ request[p] = "pending"
  /\ Approved(p) \/ Rejected(p)
  /\ Ends(c)
  /\ UNCHANGED <<sessionVars, enabled, drawVars>>

UpdateMemberRole(c, p, r) ==
  /\ step[c] = "group"
  /\ caller[c] = Owner
  /\ p # Owner
  /\ standing[p] = "active"
  /\ post' = [post EXCEPT ![p] = r]
  /\ Ends(c)
  /\ UNCHANGED <<sessionVars, enabled, standing, request, drawVars>>

UpdateDrawSettings(c) ==
  /\ step[c] = "manager"
  /\ draws' \in BOOLEAN
  /\ Ends(c)
  /\ UNCHANGED <<sessionVars, enabled, groupVars, rating>>

(* A grade is given, changed or taken away.                                *)
UpdateRating(c) ==
  /\ step[c] = "target"
  /\ \E g \in Grades : rating' = [rating EXCEPT ![subject[c]] = g]
  /\ Ends(c)
  /\ UNCHANGED <<sessionVars, enabled, groupVars, draws>>

-----------------------------------------------------------------------------
(***************************************************************************)
(* External: no handler deactivates an account, blocks a member or sends   *)
(* an invitation; the rows are changed in the database by its operators.   *)
(***************************************************************************)
SetEnabled(p) ==
  /\ enabled' = IF p \in enabled THEN enabled \ {p} ELSE enabled \cup {p}
  /\ UNCHANGED <<sessionVars, groupVars, drawVars, callVars>>

SetStanding(p, s) ==
  /\ p # Owner
  /\ standing[p] # "none"
  /\ standing' = [standing EXCEPT ![p] = s]
  /\ UNCHANGED <<sessionVars, enabled, post, request, drawVars, callVars>>

-----------------------------------------------------------------------------
Init ==
  /\ session = [t \in Token |-> Nobody]
  /\ left = [t \in Token |-> 0]
  /\ enabled = Profile
  /\ standing = [p \in Profile |-> IF p = Owner THEN "active" ELSE "none"]
  /\ post = [p \in Profile |-> "member"]
  /\ request = [p \in Profile |-> "none"]
  /\ draws = FALSE
  /\ rating = [p \in Profile |-> {}]
  /\ step = [c \in Call |-> "idle"]
  /\ caller = [c \in Call |-> Nobody]
  /\ subject = [c \in Call |-> Nobody]
  /\ held = [c \in Call |-> {}]

SessionStep ==
  \/ \E t \in Token : Logout(t) \/ \E p \in Profile : Login(p, t)
  \/ Tick
  \/ Restart

Dependency(c) ==
  \/ \E t \in Token : Authenticate(c, t)
  \/ LoadProfile(c)
  \/ AccessibleGroup(c)
  \/ CheckManager(c)
  \/ \E p \in Profile : CheckTarget(c, p)
  \/ Refused(c)

Write(c) ==
  \/ RequestJoin(c)
  \/ \E p \in Profile : Review(c, p) \/ \E r \in Post : UpdateMemberRole(c, p, r)
  \/ UpdateDrawSettings(c)
  \/ UpdateRating(c)

External ==
  \E p \in Profile : SetEnabled(p) \/ \E s \in {"invited", "blocked"} : SetStanding(p, s)

Next ==
  /\ SessionStep \/ External \/ \E c \in Call : Dependency(c) \/ Write(c)
  /\ Recorded

Spec == Init /\ [][Next]_vars

-----------------------------------------------------------------------------
(***************************************************************************)
(* Rows of sessions, members, requests and grades: in particular no        *)
(* request acts for nobody, and none grades nobody.                        *)
(***************************************************************************)
TypeOK ==
  /\ session \in [Token -> Profile \cup {Nobody}]
  /\ left \in [Token -> 0 .. Lifetime]
  /\ enabled \in SUBSET Profile
  /\ standing \in [Profile -> Standing]
  /\ post \in [Profile -> Post]
  /\ request \in [Profile -> Answer]
  /\ draws \in BOOLEAN
  /\ rating \in [Profile -> Grades]
  /\ step \in [Call -> Step]
  /\ caller \in [Call -> Profile \cup {Nobody}]
  /\ subject \in [Call -> Profile \cup {Nobody}]
  /\ held \in [Call -> SUBSET Entitlement]
  /\ \A c \in Call : /\ step[c] # "idle" => caller[c] \in Profile
                     /\ step[c] = "target" => subject[c] \in Profile

(***************************************************************************)
(* Rights are read from the database at every request: what a request      *)
(* writes, it writes for somebody who has had a session, an account, a     *)
(* place in the group and, for anything but asking to join, the right to   *)
(* manage since the request began, however many logins, expiries, restarts *)
(* and changes of roles there were; and answers to requests, given under   *)
(* the lock, are given by who may give them at that very moment.           *)
(***************************************************************************)
WritesAreEntitled ==
  [][ \A c \in Call :
        /\ step[c] = "profile" /\ request' # request => {"session", "account"} \subseteq held[c]
        /\ step[c] # "profile" /\ step[c] # "idle" /\ step'[c] = "idle" /\ <<post, request, draws, rating>>' # <<post, request, draws, rating>>
             => held[c] = Entitlement
        /\ step[c] = "group" /\ step'[c] = "idle" /\ <<post, request>>' # <<post, request>> => Manager(caller[c]) ]_vars

(***************************************************************************)
(* Two managers review the same request, from lists both of which show it: *)
(* the answer stays until the person asks again.                           *)
(***************************************************************************)
OneAnswerPerRequest ==
  [][ \A p \in Profile :
        request[p] \in {"approved", "rejected"} /\ request'[p] # request[p] =>
          /\ request'[p] = "pending"
          /\ \E c \in Call : step[c] = "profile" /\ caller[c] = p ]_vars

(***************************************************************************)
(* Nobody becomes a member but by a request that was pending and is now    *)
(* approved, nobody does while blocked, and who enters, or comes back,     *)
(* starts as an ordinary member.                                           *)
(***************************************************************************)
NobodySlipsIn ==
  [][ \A p \in Profile :
        standing[p] # "active" /\ standing'[p] = "active" =>
          /\ request[p] = "pending" /\ request'[p] = "approved"
          /\ standing[p] # "blocked"
          /\ post'[p] = "member" ]_vars

(***************************************************************************)
(* No request waits for an answer of somebody who is already in: who asks  *)
(* twice, or is let in while asking again, leaves nothing pending behind.  *)
(***************************************************************************)
PendingAreOutside == \A p \in Profile : request[p] = "pending" => ~Belongs(p)
=============================================================================
