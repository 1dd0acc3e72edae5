---------------------------- MODULE MembershipProofs ----------------------------
(***************************************************************************)
(* Proofs about the group of module Membership, for any accounts, requests *)
(* in progress and tokens.  What a request may write rests on what its     *)
(* caller has held since it began (the invariant Backed), whatever happens *)
(* to sessions, accounts and roles in between.                             *)
(***************************************************************************)
EXTENDS Membership, TLAPS

(* Each check a request has passed was true at some time since it began,   *)
(* and so is what its caller holds now.                                    *)
Backed(c) ==
  step[c] # "idle" =>
    /\ HeldNow(c) \subseteq held[c]
    /\ "session" \in held[c]
    /\ step[c] # "session" => "account" \in held[c]
    /\ step[c] \notin {"session", "profile"} => "access" \in held[c]
    /\ step[c] \in {"manager", "target"} => "charge" \in held[c]

GroupInv ==
  /\ TypeOK
  /\ PendingAreOutside

MembershipInv ==
  /\ GroupInv
  /\ \A c \in Call : Backed(c)

-----------------------------------------------------------------------------
(* The history is made of entitlements.                                    *)
LEMMA HeldType == ASSUME TypeOK, Recorded PROVE held' \in [Call -> SUBSET Entitlement]
<1>1. \A c \in Call : HeldNow(c)' \subseteq Entitlement
  BY DEF HeldNow, HeldBy, Entitlement
<1> QED
  BY <1>1 DEF TypeOK, Recorded

(* Types of what a request changes about itself.                           *)
LEMMA EndsType ==
  ASSUME TypeOK, NEW c \in Call, Ends(c)
  PROVE  /\ step' \in [Call -> Step]
         /\ caller' \in [Call -> Profile \cup {Nobody}]
         /\ subject' \in [Call -> Profile \cup {Nobody}]
         /\ \A d \in Call : step'[d] # "idle" =>
              d # c /\ step'[d] = step[d] /\ caller'[d] = caller[d] /\ subject'[d] = subject[d]
BY DEF Ends, TypeOK, Step

(* At first no request runs.                                               *)
LEMMA GroupInitially == Init => GroupInv
<1> SUFFICES ASSUME Init PROVE GroupInv
  OBVIOUS
<1>1. /\ session \in [Token -> Profile \cup {Nobody}] /\ left \in [Token -> 0 .. Lifetime]
      /\ standing \in [Profile -> Standing] /\ post \in [Profile -> Post] /\ request \in [Profile -> Answer]
  BY LifetimeAssumption DEF Init, Standing, Post, Answer
<1>2. rating \in [Profile -> Grades] /\ draws \in BOOLEAN /\ enabled \in SUBSET Profile
  BY DEF Init, Grades
<1>3. /\ step = [c \in Call |-> "idle"] /\ step \in [Call -> Step]
      /\ caller \in [Call -> Profile \cup {Nobody}] /\ subject \in [Call -> Profile \cup {Nobody}]
      /\ held \in [Call -> SUBSET Entitlement]
  BY DEF Init, Step
<1>4. PendingAreOutside
  BY DEF Init, PendingAreOutside
<1> QED
  BY <1>1, <1>2, <1>3, <1>4 DEF GroupInv, TypeOK

(* Sessions keep the types,                                                *)
LEMMA SessionTypeStep ==
  ASSUME GroupInv, SessionStep, Recorded
  PROVE  TypeOK'
<1> USE ProfileAssumption, LifetimeAssumption DEF GroupInv, TypeOK
<1>0. held' \in [Call -> SUBSET Entitlement]
  BY HeldType
<1>1. ASSUME NEW t \in Token, Logout(t) PROVE TypeOK'
  BY <1>0, <1>1 DEF Logout, groupVars, drawVars, callVars
<1>2. ASSUME NEW t \in Token, NEW p \in Profile, Login(p, t) PROVE TypeOK'
  BY <1>0, <1>2 DEF Login, groupVars, drawVars, callVars
<1>3. CASE Tick
  BY <1>0, <1>3 DEF Tick, groupVars, drawVars, callVars
<1>4. CASE Restart
  BY <1>0, <1>4 DEF Restart, groupVars, drawVars, Step
<1> QED
  BY <1>1, <1>2, <1>3, <1>4 DEF SessionStep

(* and so do the checks before a handler,                                  *)
LEMMA DependencyTypeStep ==
  ASSUME GroupInv, NEW c \in Call, Dependency(c), Recorded
  PROVE  TypeOK'
<1> USE ProfileAssumption DEF GroupInv, TypeOK, Step
<1>0. held' \in [Call -> SUBSET Entitlement]
  BY HeldType
<1>1. ASSUME NEW t \in Token, Authenticate(c, t) PROVE TypeOK'
  BY <1>0, <1>1 DEF Authenticate, Live, groupVars, drawVars, callVars
<1>2. CASE LoadProfile(c)
  BY <1>0, <1>2 DEF LoadProfile, Goes, sessionVars, groupVars, drawVars
<1>3. CASE AccessibleGroup(c)
  BY <1>0, <1>3 DEF AccessibleGroup, Goes, sessionVars, groupVars, drawVars
<1>4. CASE CheckManager(c)
  BY <1>0, <1>4 DEF CheckManager, Goes, sessionVars, groupVars, drawVars
<1>5. ASSUME NEW p \in Profile, CheckTarget(c, p) PROVE TypeOK'
  BY <1>0, <1>5 DEF CheckTarget, sessionVars, groupVars, drawVars
<1>6. CASE Refused(c)
  BY <1>0, <1>6, EndsType DEF Refused, sessionVars, groupVars, drawVars
<1> QED
  BY <1>1, <1>2, <1>3, <1>4, <1>5, <1>6 DEF Dependency

(* what the handlers write,                                                *)
LEMMA WriteTypeStep ==
  ASSUME GroupInv, NEW c \in Call, Write(c), Recorded
  PROVE  TypeOK'
<1> USE DEF GroupInv, TypeOK
<1>0. held' \in [Call -> SUBSET Entitlement]
  BY HeldType
<1>1. CASE RequestJoin(c)
  BY <1>0, <1>1, EndsType DEF RequestJoin, sessionVars, drawVars, Answer
<1>2. ASSUME NEW p \in Profile, Review(c, p) PROVE TypeOK'
  <2>1. /\ standing' \in [Profile -> Standing] /\ post' \in [Profile -> Post]
        /\ request' \in [Profile -> Answer]
    BY <1>2 DEF Review, Approved, Rejected, Standing, Post, Answer
  <2> QED
    BY <1>0, <1>2, <2>1, EndsType DEF Review, sessionVars, drawVars
<1>3. ASSUME NEW p \in Profile, NEW r \in Post, UpdateMemberRole(c, p, r) PROVE TypeOK'
  BY <1>0, <1>3, EndsType DEF UpdateMemberRole, sessionVars, drawVars
<1>4. CASE UpdateDrawSettings(c)
  BY <1>0, <1>4, EndsType DEF UpdateDrawSettings, sessionVars, groupVars
<1>5. CASE UpdateRating(c)
  BY <1>0, <1>5, EndsType DEF UpdateRating, sessionVars, groupVars
<1> QED
  BY <1>1, <1>2, <1>3, <1>4, <1>5 DEF Write

(* and what happens outside of them.                                       *)
LEMMA ExternalTypeStep ==
  ASSUME GroupInv, External, Recorded
  PROVE  TypeOK'
<1> USE DEF GroupInv, TypeOK
<1>0. held' \in [Call -> SUBSET Entitlement]
  BY HeldType
<1>1. ASSUME NEW p \in Profile, SetEnabled(p) PROVE TypeOK'
  BY <1>0, <1>1 DEF SetEnabled, sessionVars, groupVars, drawVars, callVars
<1>2. ASSUME NEW p \in Profile, NEW s \in {"invited", "blocked"}, SetStanding(p, s) PROVE TypeOK'
  BY <1>0, <1>2 DEF SetStanding, sessionVars, drawVars, callVars, Standing
<1> QED
  BY <1>1, <1>2 DEF External

(* So every step does.                                                     *)
LEMMA TypeStep == ASSUME GroupInv, [Next]_vars PROVE TypeOK'
<1>1. CASE UNCHANGED vars
  BY <1>1 DEF GroupInv, TypeOK, vars
<1> QED
  BY <1>1, SessionTypeStep, DependencyTypeStep, WriteTypeStep, ExternalTypeStep DEF Next

-----------------------------------------------------------------------------
(* What a step may change of members and requests to join.                 *)
LEMMA MemberStep ==
  ASSUME GroupInv, [Next]_vars
  PROVE  \/ UNCHANGED groupVars
         \/ \E c \in Call : RequestJoin(c)
         \/ \E c \in Call, p \in Profile : Review(c, p)
         \/ \E c \in Call, p \in Profile, r \in Post : UpdateMemberRole(c, p, r)
         \/ \E p \in Profile, s \in {"invited", "blocked"} : SetStanding(p, s)
<1>1. CASE SessionStep
  BY <1>1 DEF SessionStep, Login, Logout, Tick, Restart
<1>2. ASSUME NEW c \in Call, Dependency(c) PROVE UNCHANGED groupVars
  BY <1>2 DEF Dependency, Authenticate, LoadProfile, AccessibleGroup, CheckManager, CheckTarget, Refused
<1>3. ASSUME NEW c \in Call, UpdateDrawSettings(c) \/ UpdateRating(c) PROVE UNCHANGED groupVars
  BY <1>3 DEF UpdateDrawSettings, UpdateRating
<1>4. ASSUME NEW p, SetEnabled(p) PROVE UNCHANGED groupVars
  BY <1>4 DEF SetEnabled
<1>5. CASE UNCHANGED vars
  BY <1>5 DEF vars, groupVars
<1> QED
  BY <1>1, <1>2, <1>3, <1>4, <1>5 DEF Next, Write, External

(* Whoever asks to join is not a member, after every step.                 *)
LEMMA GroupStep == ASSUME GroupInv, [Next]_vars PROVE GroupInv'
<1> USE DEF PendingAreOutside, Belongs
<1>0. TypeOK' /\ TypeOK /\ PendingAreOutside
  BY TypeStep DEF GroupInv
<1>1. CASE UNCHANGED groupVars
  BY <1>0, <1>1 DEF GroupInv, groupVars
<1>2. ASSUME NEW c \in Call, RequestJoin(c) PROVE GroupInv'
  BY <1>0, <1>2 DEF GroupInv, RequestJoin, TypeOK
<1>3. ASSUME NEW c \in Call, NEW p \in Profile, Review(c, p) PROVE GroupInv'
  BY <1>0, <1>3 DEF GroupInv, Review, Approved, Rejected, TypeOK
<1>4. ASSUME NEW c \in Call, NEW p \in Profile, NEW r \in Post, UpdateMemberRole(c, p, r) PROVE GroupInv'
  BY <1>0, <1>4 DEF GroupInv, UpdateMemberRole
<1>5. ASSUME NEW p \in Profile, NEW s \in {"invited", "blocked"}, SetStanding(p, s) PROVE GroupInv'
  BY <1>0, <1>5 DEF GroupInv, SetStanding, TypeOK
<1> QED
  BY <1>1, <1>2, <1>3, <1>4, <1>5, MemberStep

(* So it is always.                                                        *)
LEMMA GroupInvariant == Spec => []GroupInv
BY GroupInitially, GroupStep, PTL DEF Spec

(***************************************************************************)
(* For any number of accounts, requests and tokens: no request acts for    *)
(* nobody, and none grades nobody.                                         *)
(***************************************************************************)
THEOREM GroupIsWellFormed == Spec => []TypeOK
<1>1. GroupInv => TypeOK
  BY DEF GroupInv
<1> QED
  BY <1>1, GroupInvariant, PTL

(* Whoever is let in leaves no request of theirs behind.                   *)
THEOREM NothingPendsInside == Spec => []PendingAreOutside
<1>1. GroupInv => PendingAreOutside
  BY DEF GroupInv
<1> QED
  BY <1>1, GroupInvariant, PTL

(***************************************************************************)
(* An answer to a request stays until the same person asks again, however  *)
(* many managers review it.                                                *)
(***************************************************************************)
THEOREM RequestsHaveOneAnswer == Spec => OneAnswerPerRequest
<1> DEFINE Once ==
      \A p \in Profile :
        request[p] \in {"approved", "rejected"} /\ request'[p] # request[p] =>
          /\ request'[p] = "pending"
          /\ \E c \in Call : step[c] = "profile" /\ caller[c] = p
<1>1. ASSUME GroupInv, [Next]_vars PROVE Once
  <2> USE DEF GroupInv, TypeOK
  <2>1. CASE UNCHANGED groupVars
    BY <2>1 DEF groupVars
  <2>2. ASSUME NEW c \in Call, RequestJoin(c) PROVE Once
    BY <1>1, <2>2 DEF RequestJoin
  <2>3. ASSUME NEW c \in Call, NEW p \in Profile, Review(c, p) PROVE Once
    BY <1>1, <2>3 DEF Review, Approved, Rejected
  <2>4. ASSUME NEW c \in Call, NEW p \in Profile, NEW r \in Post, UpdateMemberRole(c, p, r) PROVE Once
    BY <2>4 DEF UpdateMemberRole
  <2>5. ASSUME NEW p \in Profile, NEW s, SetStanding(p, s) PROVE Once
    BY <2>5 DEF SetStanding
  <2> QED
    BY <1>1, <2>1, <2>2, <2>3, <2>4, <2>5, MemberStep
<1>2. GroupInv /\ [Next]_vars => [Once]_vars
  BY <1>1
<1> QED
  BY <1>2, GroupInvariant, PTL DEF Spec, OneAnswerPerRequest

(***************************************************************************)
(* The only way into the group is an approved request, never for somebody  *)
(* blocked, and it leads to the post of an ordinary member.                *)
(***************************************************************************)
THEOREM NobodyEverSlipsIn == Spec => NobodySlipsIn
<1> DEFINE Way ==
      \A p \in Profile :
        standing[p] # "active" /\ standing'[p] = "active" =>
          /\ request[p] = "pending" /\ request'[p] = "approved"
          /\ standing[p] # "blocked"
          /\ post'[p] = "member"
<1>1. ASSUME GroupInv, [Next]_vars PROVE Way
  <2> USE DEF GroupInv, TypeOK
  <2>1. CASE UNCHANGED groupVars
    BY <2>1 DEF groupVars
  <2>2. ASSUME NEW c \in Call, RequestJoin(c) PROVE Way
    BY <2>2 DEF RequestJoin
  <2>3. ASSUME NEW c \in Call, NEW p \in Profile, Review(c, p) PROVE Way
    BY <1>1, <2>3 DEF Review, Approved, Rejected
  <2>4. ASSUME NEW c \in Call, NEW p \in Profile, NEW r \in Post, UpdateMemberRole(c, p, r) PROVE Way
    BY <2>4 DEF UpdateMemberRole
  <2>5. ASSUME NEW p \in Profile, NEW s \in {"invited", "blocked"}, SetStanding(p, s) PROVE Way
    BY <1>1, <2>5 DEF SetStanding
  <2> QED
    BY <1>1, <2>1, <2>2, <2>3, <2>4, <2>5, MemberStep
<1>2. GroupInv /\ [Next]_vars => [Way]_vars
  BY <1>1
<1> QED
  BY <1>2, GroupInvariant, PTL DEF Spec, NobodySlipsIn

-----------------------------------------------------------------------------
(* Each request on its way is backed by what its caller has held.          *)
LEMMA BackedInitially == Init => \A c \in Call : Backed(c)
BY DEF Init, Backed

(* What a request has passed, and what its caller holds, is on record.     *)
LEMMA BackedStep ==
  ASSUME MembershipInv, [Next]_vars
  PROVE  \A c \in Call : Backed(c)'
<1> SUFFICES ASSUME NEW c \in Call, step'[c] # "idle" PROVE Backed(c)'
  BY DEF Backed
<1>0. TypeOK /\ Backed(c)
  BY DEF MembershipInv, GroupInv
<1>1. CASE UNCHANGED vars
  BY <1>0, <1>1 DEF vars, Backed, HeldNow, HeldBy, Live, Belongs, Manager
<1>2. ASSUME Recorded PROVE held'[c] = held[c] \cup HeldNow(c)'
  BY <1>2 DEF Recorded
<1>3. ASSUME Recorded, UNCHANGED <<step[c], caller[c]>> PROVE Backed(c)'
  BY <1>0, <1>2, <1>3 DEF Backed
<1>4. ASSUME Recorded, NEW d \in Call, step' = [step EXCEPT ![d] = step'[d]],
             caller' = [caller EXCEPT ![d] = caller'[d]], d # c
      PROVE  Backed(c)'
  BY <1>0, <1>3, <1>4 DEF TypeOK
<1>5. ASSUME SessionStep, Recorded PROVE Backed(c)'
  BY <1>3, <1>5 DEF SessionStep, Login, Logout, Tick, Restart, callVars
<1>6. ASSUME External, Recorded PROVE Backed(c)'
  BY <1>3, <1>6 DEF External, SetEnabled, SetStanding, callVars
<1>7. ASSUME NEW d \in Call, Write(d), Recorded PROVE Backed(c)'
  <2>1. Ends(d)
    BY <1>7 DEF Write, RequestJoin, Review, UpdateMemberRole, UpdateDrawSettings, UpdateRating
  <2>2. d # c /\ step'[c] = step[c] /\ caller'[c] = caller[c]
    BY <1>0, <2>1, EndsType
  <2> QED
    BY <1>3, <1>7, <2>2
<1>8. ASSUME NEW d \in Call, Dependency(d), Recorded PROVE Backed(c)'
  <2>1. CASE Refused(d)
    <3>1. d # c /\ step'[c] = step[c] /\ caller'[c] = caller[c]
      BY <1>0, <2>1, EndsType DEF Refused
    <3> QED
      BY <1>3, <1>8, <3>1
  <2>2. ASSUME NEW t \in Token, Authenticate(d, t) PROVE Backed(c)'
    <3>1. CASE Live(t) /\ d = c
      <4>1. step'[c] = "session" /\ caller'[c] = session[t] /\ Live(t)' /\ session'[t] = caller'[c]
        BY <1>0, <2>2, <3>1 DEF Authenticate, TypeOK, Live, sessionVars, Purged
      <4>2. "session" \in HeldNow(c)'
        BY <4>1 DEF HeldNow, HeldBy
      <4> QED
        BY <1>2, <1>8, <4>1, <4>2 DEF Backed
    <3>2. CASE d # c \/ ~Live(t)
      <4>1. step'[c] = step[c] /\ caller'[c] = caller[c]
        BY <1>0, <2>2, <3>2 DEF Authenticate, TypeOK, callVars
      <4> QED
        BY <1>3, <1>8, <4>1
    <3> QED
      BY <3>1, <3>2
  <2>3. CASE LoadProfile(d)
    <3>1. CASE d = c
      <4>1. step[c] = "session" /\ step'[c] = "profile" /\ caller'[c] = caller[c] /\ caller'[c] \in enabled'
        BY <1>0, <2>3, <3>1 DEF LoadProfile, Goes, TypeOK
      <4>2. "account" \in HeldNow(c)'
        BY <4>1 DEF HeldNow, HeldBy
      <4> QED
        BY <1>0, <1>2, <1>8, <4>1, <4>2 DEF Backed
    <3>2. CASE d # c
      BY <1>0, <1>3, <1>8, <2>3, <3>2 DEF LoadProfile, Goes, TypeOK
    <3> QED
      BY <3>1, <3>2
  <2>4. CASE AccessibleGroup(d)
    <3>1. CASE d = c
      <4>1. /\ step[c] = "profile" /\ step'[c] = "group" /\ caller'[c] = caller[c]
            /\ caller'[c] \in Profile /\ Belongs(caller[c])'
        BY <1>0, <2>4, <3>1 DEF AccessibleGroup, Goes, TypeOK, Belongs, groupVars
      <4>2. "access" \in HeldNow(c)'
        BY <4>1 DEF HeldNow, HeldBy
      <4> QED
        BY <1>0, <1>2, <1>8, <4>1, <4>2 DEF Backed
    <3>2. CASE d # c
      BY <1>0, <1>3, <1>8, <2>4, <3>2 DEF AccessibleGroup, Goes, TypeOK
    <3> QED
      BY <3>1, <3>2
  <2>5. CASE CheckManager(d)
    <3>1. CASE d = c
      <4>1. /\ step[c] = "group" /\ step'[c] = "manager" /\ caller'[c] = caller[c]
            /\ caller'[c] \in Profile /\ Manager(caller[c])'
        BY <1>0, <2>5, <3>1 DEF CheckManager, Goes, TypeOK, Manager, groupVars
      <4>2. "charge" \in HeldNow(c)'
        BY <4>1 DEF HeldNow, HeldBy
      <4> QED
        BY <1>0, <1>2, <1>8, <4>1, <4>2 DEF Backed
    <3>2. CASE d # c
      BY <1>0, <1>3, <1>8, <2>5, <3>2 DEF CheckManager, Goes, TypeOK
    <3> QED
      BY <3>1, <3>2
  <2>6. ASSUME NEW p \in Profile, CheckTarget(d, p) PROVE Backed(c)'
    <3>1. CASE d = c
      <4>1. step[c] = "manager" /\ step'[c] = "target" /\ caller'[c] = caller[c]
        BY <1>0, <2>6, <3>1 DEF CheckTarget, TypeOK
      <4> QED
        BY <1>0, <1>2, <1>8, <4>1 DEF Backed
    <3>2. CASE d # c
      BY <1>0, <1>3, <1>8, <2>6, <3>2 DEF CheckTarget, TypeOK
    <3> QED
      BY <3>1, <3>2
  <2> QED
    BY <1>8, <2>1, <2>2, <2>3, <2>4, <2>5, <2>6 DEF Dependency
<1> QED
  BY <1>1, <1>5, <1>6, <1>7, <1>8 DEF Next

(* So it always is.                                                        *)
LEMMA MembershipInvariant == Spec => []MembershipInv
<1>1. Init => MembershipInv
  BY GroupInitially, BackedInitially DEF MembershipInv
<1>2. MembershipInv /\ [Next]_vars => MembershipInv'
  BY GroupStep, BackedStep DEF MembershipInv
<1> QED
  BY <1>1, <1>2, PTL DEF Spec

(***************************************************************************)
(* For any requests in progress at a time: each writes only what somebody  *)
(* who has held every right it takes, since it began, may write.           *)
(***************************************************************************)
THEOREM EveryWriteIsEntitled == Spec => WritesAreEntitled
<1> DEFINE Rows == <<post, request, draws, rating>>
           Entitled(c) ==
             /\ step[c] = "profile" /\ request' # request => {"session", "account"} \subseteq held[c]
             /\ step[c] # "profile" /\ step[c] # "idle" /\ step'[c] = "idle" /\ <<post, request, draws, rating>>' # <<post, request, draws, rating>>
                  => held[c] = Entitlement
             /\ step[c] = "group" /\ step'[c] = "idle" /\ <<post, request>>' # <<post, request>> => Manager(caller[c])
<1>1. ASSUME MembershipInv, Next, NEW c \in Call PROVE Entitled(c)
  <2>0. TypeOK /\ Backed(c)
    BY <1>1 DEF MembershipInv, GroupInv
  <2>1. step[c] = "profile" => {"session", "account"} \subseteq held[c]
    BY <2>0 DEF Backed
  <2>2. ASSUME step[c] # "profile", step[c] # "idle", step'[c] = "idle", Rows' # Rows
        PROVE  Write(c) /\ ~RequestJoin(c)
    <3>1. ~SessionStep /\ ~External
      BY <2>2 DEF SessionStep, External, Login, Logout, Tick, Restart, SetEnabled, SetStanding, groupVars, drawVars, callVars
    <3>2. \A d \in Call : ~Dependency(d)
      BY <2>2 DEF Dependency, Authenticate, LoadProfile, AccessibleGroup, CheckManager, CheckTarget, Refused, groupVars, drawVars
    <3>3. \A d \in Call : Write(d) => d = c
      <4> SUFFICES ASSUME NEW d \in Call, Write(d), d # c PROVE FALSE
        OBVIOUS
      <4>1. Ends(d)
        BY DEF Write, RequestJoin, Review, UpdateMemberRole, UpdateDrawSettings, UpdateRating
      <4> QED
        BY <2>0, <2>2, <4>1 DEF Ends, TypeOK
    <3> QED
      BY <1>1, <2>2, <3>1, <3>2, <3>3 DEF Next, RequestJoin
  <2>3. ASSUME step[c] = "group", Write(c) PROVE Manager(caller[c])
    BY <2>3 DEF Write, RequestJoin, Review, UpdateMemberRole, UpdateDrawSettings, UpdateRating, Manager
  <2>4. ASSUME step[c] # "profile", Write(c) PROVE held[c] = Entitlement
    <3>1. step[c] \in {"group", "manager", "target"}
      BY <2>4 DEF Write, RequestJoin, Review, UpdateMemberRole, UpdateDrawSettings, UpdateRating
    <3>2. "charge" \in held[c]
      <4>1. CASE step[c] = "group"
        BY <2>0, <2>3, <2>4, <4>1 DEF Backed, HeldNow, HeldBy, TypeOK
      <4>2. CASE step[c] # "group"
        BY <2>0, <3>1, <4>2 DEF Backed
      <4> QED
        BY <4>1, <4>2
    <3> QED
      BY <2>0, <3>1, <3>2 DEF Backed, Entitlement, TypeOK
  <2>5. <<post, request>>' # <<post, request>> => Rows' # Rows
    OBVIOUS
  <2> QED
    BY <2>1, <2>2, <2>3, <2>4, <2>5
<1>2. MembershipInv /\ [Next]_vars => [\A c \in Call : Entitled(c)]_vars
  BY <1>1
<1> QED
  BY <1>2, MembershipInvariant, PTL DEF Spec, WritesAreEntitled
=============================================================================
