-------------------------- MODULE SubmissionProofs --------------------------
(***************************************************************************)
(* Proofs about Submission and Tenancy, for every set of accounts,         *)
(* projects, policies, queues, keys and requests.                          *)
(*                                                                         *)
(* Both results are about a request that reads in one step and writes in a *)
(* later one.  Each needs to know what is still true at the write:         *)
(* DeleteIsLate says it of DELETE of a member, ConfigInv of the queue's    *)
(* policy.  The other requests only need to leave that alone.              *)
(***************************************************************************)
EXTENDS Submission, TLAPS

\* What the requests about members hold, by their step.
Shape(r) ==
    /\ "step" \in DOMAIN r
    /\ r.step = "register" => r.user \in Users
    /\ r.step = "member" => r.org \in Users /\ r.user \in Users /\ r.role \in Grantable
    /\ r.step \in {"target", "delete"} =>
           r \in [step : {"target", "delete"}, org : Users, user : Users]

\* At the DELETE the user still has an account and is not an owner: only a registration
\* makes an owner, and the user's is over.
DeleteIsLate(i) ==
    req[i].step = "delete" =>
        req[i].user \in users /\ role[req[i].org][req[i].user] # "owner"

\* The inductive invariant of the memberships.
MemberInv ==
    /\ users \subseteq Users
    /\ role \in [Users -> [Users -> Roles \cup {None}]]
    /\ \A o, u \in Users : role[o][u] # None => u \in users
    /\ DOMAIN req = Requests
    /\ \A i \in Requests : Shape(req[i])
    /\ \A i \in Requests : DeleteIsLate(i)

MemberSteps == {"register", "member", "target", "delete"}

\* A request that goes on to a step of another kind disturbs no membership.
LEMMA OtherStep ==
    ASSUME MemberInv, NEW i \in Requests, NEW r, UNCHANGED <<users, role>>,
           req' = [req EXCEPT ![i] = r], "step" \in DOMAIN r, r.step \notin MemberSteps
    PROVE  MemberInv'
<1>1. \A k \in Requests : req'[k] = IF k = i THEN r ELSE req[k]
  BY DEF MemberInv
<1>2. DOMAIN req' = Requests
  BY DEF MemberInv
<1>3. ASSUME NEW k \in Requests
      PROVE  Shape(req'[k]) /\ DeleteIsLate(k)'
  <2>1. CASE k = i
    BY <1>1, <2>1 DEF Shape, DeleteIsLate, MemberSteps
  <2>2. CASE k # i
    BY <1>1, <2>2 DEF Shape, DeleteIsLate, MemberInv
  <2> QED BY <2>1, <2>2
<1> QED BY <1>2, <1>3 DEF MemberInv

LEMMA Ended ==
    ASSUME MemberInv, NEW i \in Requests, UNCHANGED <<users, role>>, End(i)
    PROVE  MemberInv'
<1>1. "step" \in DOMAIN Over /\ Over.step = "over"
  BY DEF Over
<1> QED BY <1>1, OtherStep DEF End, MemberSteps

LEMMA MemberInit == Init => MemberInv
<1> SUFFICES ASSUME Init PROVE MemberInv
  OBVIOUS
<1>1. \A i \in Requests : req[i] = Fresh /\ Fresh.step = "new" /\ "step" \in DOMAIN Fresh
  BY DEF Init, TenancyInit, Fresh
<1>2. \A i \in Requests : Shape(req[i]) /\ DeleteIsLate(i)
  BY <1>1 DEF Shape, DeleteIsLate
<1> QED BY <1>2, TenancyAssumption DEF Init, TenancyInit, MemberInv

\* The steps of the requests about accounts and members.
LEMMA RegisterAsked ==
    ASSUME MemberInv, NEW i \in Requests, NEW u \in Users, RegisterAsk(i, u)
    PROVE  MemberInv'
<1> DEFINE r == [step |-> "register", user |-> u]
<1>1. \A k \in Requests : req'[k] = IF k = i THEN r ELSE req[k]
  BY DEF MemberInv, RegisterAsk, Ask
<1>2. \A k \in Requests : Shape(req'[k]) /\ DeleteIsLate(k)'
  BY <1>1 DEF MemberInv, Shape, DeleteIsLate, RegisterAsk, tenants
<1> QED BY <1>2 DEF MemberInv, RegisterAsk, Ask, tenants

LEMMA Registering ==
    ASSUME MemberInv, NEW i \in Requests, Register(i)
    PROVE  MemberInv' /\ \A o, u \in Users : role[o][u] = "owner" => role'[o][u] # None
<1> DEFINE u == req[i].user
<1>1. u \in Users
  BY DEF MemberInv, Shape, Register
<1>2. \A k \in Requests : req'[k] = IF k = i THEN Over ELSE req[k]
  BY DEF MemberInv, Register, End
<1>3. Shape(Over) /\ Over.step = "over"
  BY DEF Shape, Over
<1>4. CASE u \in users
  BY <1>4, Ended, TenancyAssumption DEF Register, tenants, MemberInv, Roles
<1>5. CASE u \notin users
  <2>1. users' = users \cup {u} /\ role' = [role EXCEPT ![u][u] = "owner"]
    BY <1>5 DEF Register
  <2>2. \A o, v \in Users : role'[o][v] = IF o = u /\ v = u THEN "owner" ELSE role[o][v]
    BY <1>1, <2>1 DEF MemberInv
  <2>3. role' \in [Users -> [Users -> Roles \cup {None}]] /\ users' \subseteq Users
    BY <1>1, <2>1 DEF MemberInv, Roles
  <2>4. \A o, v \in Users : role'[o][v] # None => v \in users'
    BY <1>1, <2>1, <2>2 DEF MemberInv
  <2>5. ASSUME NEW k \in Requests PROVE Shape(req'[k]) /\ DeleteIsLate(k)'
    <3>1. CASE k = i
      BY <1>2, <1>3, <3>1 DEF DeleteIsLate
    <3>2. CASE k # i
      <4>1. req'[k] = req[k] /\ Shape(req[k]) /\ DeleteIsLate(k)
        BY <1>2, <3>2 DEF MemberInv
      <4> QED BY <4>1, <1>5, <2>1, <2>2 DEF DeleteIsLate, Shape
    <3> QED BY <3>1, <3>2
  <2> QED BY <2>2, <2>3, <2>4, <2>5, TenancyAssumption DEF MemberInv, Register, End, Roles
<1> QED BY <1>4, <1>5

LEMMA AddMemberAsked ==
    ASSUME MemberInv, NEW i \in Requests, NEW c, NEW o \in users, NEW u \in Users,
           NEW r, AddMemberAsk(i, c, o, u, r)
    PROVE  MemberInv'
<1> DEFINE a == [step |-> "member", org |-> o, user |-> u, role |-> r]
<1>1. \A k \in Requests : req'[k] = IF k = i THEN a ELSE req[k]
  BY DEF MemberInv, AddMemberAsk, Ask
<1>2. o \in Users /\ r \in Grantable /\ UNCHANGED <<users, role>>
  BY DEF MemberInv, AddMemberAsk, tenants
<1>3. Shape(a) /\ a.step = "member"
  BY <1>2 DEF Shape
<1>4. \A k \in Requests : Shape(req'[k]) /\ DeleteIsLate(k)'
  BY <1>1, <1>2, <1>3 DEF MemberInv, DeleteIsLate
<1> QED BY <1>2, <1>4 DEF MemberInv, AddMemberAsk, Ask

LEMMA AddingMember ==
    ASSUME MemberInv, NEW i \in Requests, AddMember(i)
    PROVE  MemberInv' /\ \A o, u \in Users : role[o][u] = "owner" => role'[o][u] # None
<1> DEFINE r == req[i]
<1>1. r.org \in Users /\ r.user \in Users /\ r.role \in Grantable
  BY DEF MemberInv, Shape, AddMember
<1>2. \A k \in Requests : req'[k] = IF k = i THEN Over ELSE req[k]
  BY DEF MemberInv, AddMember, End
<1>3. Shape(Over) /\ Over.step = "over"
  BY DEF Shape, Over
<1>4. CASE r.user \notin users
  BY <1>4, Ended, TenancyAssumption DEF AddMember, MemberInv, Roles
<1>5. CASE r.user \in users
  <2>1. users' = users /\ role' = [role EXCEPT ![r.org][r.user] = r.role]
    BY <1>5 DEF AddMember
  <2>2. \A o, v \in Users : role'[o][v] = IF o = r.org /\ v = r.user THEN r.role ELSE role[o][v]
    BY <1>1, <2>1 DEF MemberInv
  <2>3. role' \in [Users -> [Users -> Roles \cup {None}]]
    BY <1>1, <2>1 DEF MemberInv, Roles, Grantable
  <2>4. \A o, v \in Users : role'[o][v] # None => v \in users'
    BY <1>5, <2>1, <2>2 DEF MemberInv
  <2>5. ASSUME NEW k \in Requests PROVE Shape(req'[k]) /\ DeleteIsLate(k)'
    <3>1. CASE k = i
      BY <1>2, <1>3, <3>1 DEF DeleteIsLate
    <3>2. CASE k # i
      <4>1. req'[k] = req[k] /\ Shape(req[k]) /\ DeleteIsLate(k)
        BY <1>2, <3>2 DEF MemberInv
      <4> QED BY <4>1, <1>1, <2>1, <2>2 DEF DeleteIsLate, Shape, Grantable
    <3> QED BY <3>1, <3>2
  <2>6. \A o, v \in Users : role[o][v] = "owner" => role'[o][v] # None
    BY <1>1, <2>2, TenancyAssumption DEF Grantable, Roles
  <2> QED BY <2>1, <2>3, <2>4, <2>5, <2>6 DEF MemberInv, AddMember, End
<1> QED BY <1>4, <1>5

LEMMA RemoveMemberAsked ==
    ASSUME MemberInv, NEW i \in Requests, NEW c, NEW o \in users, NEW u \in Users,
           RemoveMemberAsk(i, c, o, u)
    PROVE  MemberInv'
<1> DEFINE a == [step |-> "target", org |-> o, user |-> u]
<1>1. \A k \in Requests : req'[k] = IF k = i THEN a ELSE req[k]
  BY DEF MemberInv, RemoveMemberAsk, Ask
<1>2. o \in Users /\ UNCHANGED <<users, role>>
  BY DEF MemberInv, RemoveMemberAsk, tenants
<1>3. Shape(a) /\ a.step = "target"
  BY <1>2 DEF Shape
<1>4. \A k \in Requests : Shape(req'[k]) /\ DeleteIsLate(k)'
  BY <1>1, <1>2, <1>3 DEF MemberInv, DeleteIsLate
<1> QED BY <1>2, <1>4 DEF MemberInv, RemoveMemberAsk, Ask

\* The read is where DeleteIsLate begins to hold.
LEMMA RemovalRead ==
    ASSUME MemberInv, NEW i \in Requests, RemoveMemberRead(i)
    PROVE  MemberInv' /\ UNCHANGED role
<1>1. UNCHANGED <<users, role>>
  BY DEF RemoveMemberRead, tenants
<1>2. CASE End(i)
  BY <1>1, <1>2, Ended
<1>3. CASE /\ role[req[i].org][req[i].user] \in {"member", "admin"}
           /\ Turn(i, [req[i] EXCEPT !.step = "delete"])
  <2> DEFINE a == [req[i] EXCEPT !.step = "delete"]
  <2>1. req[i] \in [step : {"target", "delete"}, org : Users, user : Users]
    BY DEF MemberInv, Shape, RemoveMemberRead
  <2>2. a \in [step : {"target", "delete"}, org : Users, user : Users]
        /\ a.step = "delete" /\ a.org = req[i].org /\ a.user = req[i].user
    BY <2>1
  <2>3. Shape(a)
    BY <2>2 DEF Shape
  <2>4. a.user \in users /\ role[a.org][a.user] # "owner"
    BY <1>3, <2>1, <2>2, TenancyAssumption DEF MemberInv, Roles
  <2>5. \A k \in Requests : req'[k] = IF k = i THEN a ELSE req[k]
    BY <1>3 DEF MemberInv, Turn
  <2>6. \A k \in Requests : Shape(req'[k]) /\ DeleteIsLate(k)'
    BY <1>1, <2>3, <2>4, <2>5 DEF MemberInv, DeleteIsLate
  <2> QED BY <1>1, <1>3, <2>6 DEF MemberInv, Turn
<1> QED BY <1>1, <1>2, <1>3 DEF RemoveMemberRead

LEMMA Removing ==
    ASSUME MemberInv, NEW i \in Requests, RemoveMember(i)
    PROVE  MemberInv' /\ \A o, u \in Users : role[o][u] = "owner" => role'[o][u] # None
<1> DEFINE r == req[i]
<1>1. r.org \in Users /\ r.user \in Users /\ role[r.org][r.user] # "owner"
  BY DEF MemberInv, Shape, RemoveMember, DeleteIsLate
<1>2. \A k \in Requests : req'[k] = IF k = i THEN Over ELSE req[k]
  BY DEF MemberInv, RemoveMember, End
<1>3. Shape(Over) /\ Over.step = "over"
  BY DEF Shape, Over
<1>4. users' = users /\ role' = [role EXCEPT ![r.org][r.user] = None]
  BY DEF RemoveMember
<1>5. \A o, v \in Users : role'[o][v] = IF o = r.org /\ v = r.user THEN None ELSE role[o][v]
  BY <1>1, <1>4 DEF MemberInv
<1>6. role' \in [Users -> [Users -> Roles \cup {None}]]
  BY <1>1, <1>4 DEF MemberInv
<1>7. ASSUME NEW k \in Requests PROVE Shape(req'[k]) /\ DeleteIsLate(k)'
  <2>1. CASE k = i
    BY <1>2, <1>3, <2>1 DEF DeleteIsLate
  <2>2. CASE k # i
    <3>1. req'[k] = req[k] /\ Shape(req[k]) /\ DeleteIsLate(k)
      BY <1>2, <2>2 DEF MemberInv
    <3> QED BY <3>1, <1>4, <1>5, TenancyAssumption DEF DeleteIsLate, Shape, Roles
  <2> QED BY <2>1, <2>2
<1>8. \A o, v \in Users : role[o][v] = "owner" => role'[o][v] # None
  BY <1>1, <1>5, TenancyAssumption DEF Roles
<1> QED BY <1>4, <1>5, <1>6, <1>7, <1>8 DEF MemberInv, RemoveMember, End

\* Everything else leaves accounts and roles alone, and goes on to other steps.
LEMMA ProjectSteps ==
    ASSUME MemberInv, NEW i \in Requests,
           \/ \E c \in users, p \in Projects, w \in {"project", "drop", "rotate"} : ProjectAsk(i, c, p, w)
           \/ CreateProject(i) \/ RotateKey(i)
    PROVE  MemberInv' /\ UNCHANGED role
<1>1. ASSUME NEW c, NEW p, NEW w \in {"project", "drop", "rotate"}, ProjectAsk(i, c, p, w)
      PROVE  MemberInv' /\ UNCHANGED role
  <2> DEFINE r == [step |-> w, project |-> p]
  <2>1. "step" \in DOMAIN r /\ r.step \notin MemberSteps
    BY <1>1 DEF MemberSteps
  <2>2. UNCHANGED <<users, role>> /\ req' = [req EXCEPT ![i] = r]
    BY <1>1 DEF ProjectAsk, Ask, tenants
  <2> HIDE DEF r
  <2> QED BY <2>1, <2>2, OtherStep
<1>2. CASE CreateProject(i)
  BY <1>2, Ended DEF CreateProject, tenants
<1>3. CASE RotateKey(i)
  BY <1>3, Ended DEF RotateKey
<1> QED BY <1>1, <1>2, <1>3

LEMMA TenancySteps ==
    ASSUME MemberInv, TenancyNext
    PROVE  MemberInv' /\ \A o, u \in Users : role[o][u] = "owner" => role'[o][u] # None
<1>0. None # "owner"
  BY TenancyAssumption DEF Roles
<1>1. ASSUME NEW i \in Requests, TenancyAsks(i)
      PROVE  MemberInv' /\ UNCHANGED role
  <2>1. CASE \E u \in Users : RegisterAsk(i, u)
    BY <2>1, RegisterAsked DEF RegisterAsk, tenants
  <2>2. CASE \E c, o \in users, u \in Users, r \in Roles : AddMemberAsk(i, c, o, u, r)
    BY <2>2, AddMemberAsked DEF AddMemberAsk, tenants
  <2>3. CASE \E c, o \in users, u \in Users : RemoveMemberAsk(i, c, o, u)
    BY <2>3, RemoveMemberAsked DEF RemoveMemberAsk, tenants
  <2>4. CASE \E c \in users, p \in Projects, w \in {"project", "drop", "rotate"} : ProjectAsk(i, c, p, w)
    BY <2>4, ProjectSteps
  <2> QED BY <1>1, <2>1, <2>2, <2>3, <2>4 DEF TenancyAsks
<1>2. PICK i \in Requests :
         \/ TenancyAsks(i)
         \/ Register(i) \/ AddMember(i) \/ RemoveMemberRead(i) \/ RemoveMember(i)
         \/ CreateProject(i) \/ RotateKey(i)
  BY DEF TenancyNext
<1> QED BY <1>0, <1>1, <1>2, Registering, AddingMember, RemovalRead, Removing, ProjectSteps

LEMMA SubmissionAskSteps ==
    ASSUME MemberInv, NEW i \in Requests, SubmissionAsks(i)
    PROVE  MemberInv' /\ UNCHANGED role
<1>1. PICK r : /\ "step" \in DOMAIN r /\ r.step \notin MemberSteps
               /\ req' = [req EXCEPT ![i] = r] /\ UNCHANGED <<users, role>>
  <2>1. ASSUME NEW c, NEW r, NEW b, NEW m, CreatePolicyAsk(i, c, r, b, m)
        PROVE  \E a : /\ "step" \in DOMAIN a /\ a.step \notin MemberSteps
                      /\ req' = [req EXCEPT ![i] = a] /\ UNCHANGED <<users, role>>
    <3> WITNESS [step |-> "policy", policy |-> r, base |-> b, max |-> m]
    <3> QED BY <2>1 DEF CreatePolicyAsk, Ask, tenants, MemberSteps
  <2>2. ASSUME NEW c, NEW r, NEW b, NEW m, PatchPolicyAsk(i, c, r, b, m)
        PROVE  \E a : /\ "step" \in DOMAIN a /\ a.step \notin MemberSteps
                      /\ req' = [req EXCEPT ![i] = a] /\ UNCHANGED <<users, role>>
    <3> WITNESS [step |-> "merge", policy |-> r,
                 base |-> IF b = None THEN policy[r].base ELSE b,
                 max |-> IF m = None THEN policy[r].max ELSE m]
    <3> QED BY <2>2 DEF PatchPolicyAsk, Ask, tenants, MemberSteps
  <2>3. ASSUME NEW c, NEW r, DeletePolicyAsk(i, c, r)
        PROVE  \E a : /\ "step" \in DOMAIN a /\ a.step \notin MemberSteps
                      /\ req' = [req EXCEPT ![i] = a] /\ UNCHANGED <<users, role>>
    <3> WITNESS [step |-> "forget", policy |-> r]
    <3> QED BY <2>3 DEF DeletePolicyAsk, Ask, tenants, MemberSteps
  <2>4. ASSUME NEW c, NEW q, NEW r, QueueAsk(i, c, q, r)
        PROVE  \E a : /\ "step" \in DOMAIN a /\ a.step \notin MemberSteps
                      /\ req' = [req EXCEPT ![i] = a] /\ UNCHANGED <<users, role>>
    <3> WITNESS [step |-> "assert", queue |-> q, policy |-> r, row |-> queue[q].row]
    <3> QED BY <2>4 DEF QueueAsk, Ask, tenants, MemberSteps
  <2>5. ASSUME NEW c, NEW q, NEW ks, NEW rs, NEW many, SubmitAsk(i, c, q, ks, rs, many)
        PROVE  \E a : /\ "step" \in DOMAIN a /\ a.step \notin MemberSteps
                      /\ req' = [req EXCEPT ![i] = a] /\ UNCHANGED <<users, role>>
    <3> WITNESS [step |-> "check", queue |-> q, keys |-> ks, many |-> many, policies |-> rs,
                 default |-> queue[q].policy]
    <3> QED BY <2>5 DEF SubmitAsk, Ask, tenants, MemberSteps
  <2>6. CASE \E c \in users, r \in Policies :
                \/ \E b, m \in Delays : CreatePolicyAsk(i, c, r, b, m)
                \/ \E b, m \in Delays \cup {None} : PatchPolicyAsk(i, c, r, b, m)
                \/ DeletePolicyAsk(i, c, r)
    BY <2>1, <2>2, <2>3, <2>6
  <2>7. CASE \E c \in users, q \in Queues, r \in Policies \cup {None} : QueueAsk(i, c, q, r)
    BY <2>4, <2>7
  <2>8. CASE \E c \in Callers, q \in Queues :
                \/ \E k \in Keys, r \in Policies \cup {None} : SubmitAsk(i, c, q, <<k>>, {r}, FALSE)
                \/ \E ks \in Inputs : \E f \in [DOMAIN ks -> Policies \cup {None}] :
                      SubmitAsk(i, c, q, ks, {f[n] : n \in DOMAIN ks}, TRUE)
    BY <2>5, <2>8
  <2> QED BY <2>6, <2>7, <2>8 DEF SubmissionAsks
<1> QED BY <1>1, OtherStep

\* A request that keeps its record but for the step, which is of another kind.
LEMMA Turned ==
    ASSUME MemberInv, NEW i \in Requests, NEW s, s \notin MemberSteps,
           UNCHANGED <<users, role>>, Turn(i, [req[i] EXCEPT !.step = s])
    PROVE  MemberInv'
<1> DEFINE r == [req[i] EXCEPT !.step = s]
<1>1. "step" \in DOMAIN req[i]
  BY DEF MemberInv, Shape
<1>2. "step" \in DOMAIN r /\ r.step \notin MemberSteps
  BY <1>1
<1>3. req' = [req EXCEPT ![i] = r]
  BY DEF Turn
<1> HIDE DEF r
<1> QED BY <1>2, <1>3, OtherStep

LEMMA OnwardSteps ==
    ASSUME MemberInv, NEW i \in Requests, req[i].step = "insert",
           UNCHANGED <<users, role>>, Onward(i)
    PROVE  MemberInv'
<1>1. "step" \in DOMAIN req[i]
  BY DEF MemberInv, Shape
<1> DEFINE r == IF Len(req[i].left) = 1 THEN [req[i] EXCEPT !.step = "commit", !.left = <<>>]
                ELSE [req[i] EXCEPT !.left = Tail(@)]
<1>2. "step" \in DOMAIN r /\ r.step \in {"commit", "insert"}
  BY <1>1
<1>3. req' = [req EXCEPT ![i] = r]
  BY DEF Onward, Turn
<1> HIDE DEF r
<1>4. r.step \notin MemberSteps
  BY <1>2 DEF MemberSteps
<1> QED BY <1>2, <1>3, <1>4, OtherStep

LEMMA SubmissionSteps ==
    ASSUME MemberInv, SubmissionNext
    PROVE  MemberInv' /\ UNCHANGED role
<1>0. PICK i \in Requests :
         \/ SubmissionAsks(i)
         \/ CreatePolicy(i) \/ PatchPolicy(i) \/ DeletePolicy(i)
         \/ AssertPolicy(i) \/ WriteQueue(i)
         \/ CheckPolicyOverride(i) \/ Resolve(i) \/ Insert(i) \/ Existing(i)
         \/ Commit(i) \/ Rollback(i) \/ DropProject(i)
  BY DEF SubmissionNext
<1>1. CASE SubmissionAsks(i)
  BY <1>1, SubmissionAskSteps
<1>2. CASE CreatePolicy(i) \/ PatchPolicy(i) \/ DeletePolicy(i)
  BY <1>2, Ended DEF CreatePolicy, PatchPolicy, DeletePolicy, tenants
<1>3. CASE AssertPolicy(i)
  BY <1>3, Ended, Turned DEF AssertPolicy, tenants, MemberSteps
<1>4. CASE WriteQueue(i)
  BY <1>4, Ended DEF WriteQueue, tenants
<1>5. CASE CheckPolicyOverride(i)
  BY <1>5, Ended, Turned DEF CheckPolicyOverride, tenants, MemberSteps
<1>6. CASE Resolve(i)
  <2>1. UNCHANGED <<users, role>>
    BY <1>6 DEF Resolve, tenants
  <2>2. CASE End(i)
    BY <2>1, <2>2, Ended
  <2>3. ASSUME NEW s,
               Turn(i, [step |-> "insert", queue |-> req[i].queue, keys |-> req[i].keys,
                        left |-> req[i].keys, many |-> req[i].many, snaps |-> s])
        PROVE  MemberInv'
    <3> DEFINE r == [step |-> "insert", queue |-> req[i].queue, keys |-> req[i].keys,
                     left |-> req[i].keys, many |-> req[i].many, snaps |-> s]
    <3>1. "step" \in DOMAIN r /\ r.step \notin MemberSteps
      BY DEF MemberSteps
    <3>2. req' = [req EXCEPT ![i] = r]
      BY <2>3 DEF Turn
    <3> HIDE DEF r
    <3> QED BY <2>1, <3>1, <3>2, OtherStep
  <2> QED BY <1>6, <2>1, <2>2, <2>3 DEF Resolve
<1>7. CASE Insert(i)
  <2>1. UNCHANGED <<users, role>> /\ req[i].step = "insert"
    BY <1>7 DEF Insert, tenants
  <2>2. End(i) \/ Onward(i) \/ Turn(i, [req[i] EXCEPT !.step = "existing"])
    BY <1>7 DEF Insert
  <2> QED BY <2>1, <2>2, Ended, OnwardSteps, Turned DEF MemberSteps
<1>8. CASE Existing(i)
  <2> DEFINE row == job[req[i].queue][Head(req[i].left)]
             r   == [step |-> "commit", queue |-> req[i].queue, keys |-> req[i].keys,
                     many |-> FALSE, found |-> IF row = None THEN None ELSE row.by]
  <2>1. "step" \in DOMAIN r /\ r.step \notin MemberSteps
    BY DEF MemberSteps
  <2>2. UNCHANGED <<users, role>> /\ req' = [req EXCEPT ![i] = r]
    BY <1>8 DEF Existing, Turn, tenants
  <2> HIDE DEF r
  <2> QED BY <2>1, <2>2, OtherStep
<1>9. CASE Commit(i) \/ Rollback(i) \/ DropProject(i)
  BY <1>9, Ended DEF Commit, Rollback, DropProject, tenants
<1> QED BY <1>0, <1>1, <1>2, <1>3, <1>4, <1>5, <1>6, <1>7, <1>8, <1>9

LEMMA MemberStep ==
    ASSUME MemberInv, [Next]_vars
    PROVE  MemberInv' /\ \A o, u \in Users : role[o][u] = "owner" => role'[o][u] # None
<1>0. None # "owner"
  BY TenancyAssumption DEF Roles
<1>1. CASE TenancyNext
  BY <1>1, TenancySteps
<1>2. CASE SubmissionNext
  BY <1>0, <1>2, SubmissionSteps
<1>3. CASE UNCHANGED vars
  BY <1>0, <1>3 DEF vars, tenants, MemberInv, DeleteIsLate
<1> QED BY <1>1, <1>2, <1>3 DEF Next

\* The row of an owner is never deleted, however the requests of admins, who change and
\* delete memberships, interleave with each other and with registrations.
THEOREM OwnersStay == Spec => OwnerRowStays
<1>1. Init => MemberInv
  BY MemberInit
<1>2. MemberInv /\ [Next]_vars => MemberInv'
  BY MemberStep
<1>3. MemberInv /\ [Next]_vars =>
          [\A o, u \in Users : role[o][u] = "owner" => role'[o][u] # None]_vars
  BY MemberStep
<1> QED BY <1>1, <1>2, <1>3, PTL DEF Spec, OwnerRowStays

-----------------------------------------------------------------------------
\* What the requests about policies and queues hold, by their step.  A request that is
\* about to write a queue has seen its policy in the queue's project.
ConfigShape(r) ==
    /\ "step" \in DOMAIN r
    /\ r.step \in {"policy", "merge"} => r.policy \in Policies /\ r.base \in Delays /\ r.max \in Delays
    /\ r.step = "forget" => r.policy \in Policies
    /\ r.step \in {"assert", "queue"} =>
           r \in [step : {"assert", "queue"}, queue : Queues, policy : Policies \cup {None},
                 row : Rows \ {"gone"}]
    /\ r.step = "queue" => r.policy = None \/ ProjectOf[r.policy] = ProjectOf[r.queue]

ConfigSteps == {"policy", "merge", "forget", "assert", "queue"}

ReqsInv ==
    /\ DOMAIN req = Requests
    /\ \A i \in Requests : ConfigShape(req[i])

\* A queue has no policy but a live one of its project, also when the queue is gone.
RowsInv ==
    /\ policy \in [Policies -> [row : Rows, base : Delays, max : Delays]]
    /\ queue \in [Queues -> [row : Rows, policy : Policies \cup {None}]]
    /\ \A q \in Queues : queue[q].policy # None =>
           Live(queue[q].policy) /\ ProjectOf[queue[q].policy] = ProjectOf[q]

LEMMA ReqGoesOn ==
    ASSUME ReqsInv, NEW i \in Requests, NEW r, req' = [req EXCEPT ![i] = r], ConfigShape(r)
    PROVE  ReqsInv'
<1>1. \A k \in Requests : req'[k] = IF k = i THEN r ELSE req[k]
  BY DEF ReqsInv
<1>2. \A k \in Requests : ConfigShape(req'[k])
  BY <1>1 DEF ReqsInv
<1> QED BY <1>2 DEF ReqsInv

LEMMA ReqElsewhere ==
    ASSUME ReqsInv, NEW i \in Requests, NEW r, req' = [req EXCEPT ![i] = r],
           "step" \in DOMAIN r, r.step \notin ConfigSteps
    PROVE  ReqsInv'
<1>1. ConfigShape(r)
  BY DEF ConfigShape, ConfigSteps
<1> QED BY <1>1, ReqGoesOn

LEMMA ReqEnds ==
    ASSUME ReqsInv, NEW i \in Requests, End(i)
    PROVE  ReqsInv'
<1>1. ConfigShape(Over)
  BY DEF ConfigShape, Over
<1> QED BY <1>1, ReqGoesOn DEF End

LEMMA ReqTurns ==
    ASSUME ReqsInv, NEW i \in Requests, NEW s, s \notin ConfigSteps,
           Turn(i, [req[i] EXCEPT !.step = s])
    PROVE  ReqsInv'
<1> DEFINE r == [req[i] EXCEPT !.step = s]
<1>1. "step" \in DOMAIN req[i]
  BY DEF ReqsInv, ConfigShape
<1>2. "step" \in DOMAIN r /\ r.step \notin ConfigSteps
  BY <1>1
<1>3. req' = [req EXCEPT ![i] = r]
  BY DEF Turn
<1> HIDE DEF r
<1> QED BY <1>2, <1>3, ReqElsewhere

LEMMA ConfigInit == Init => ReqsInv /\ RowsInv
<1> SUFFICES ASSUME Init PROVE ReqsInv /\ RowsInv
  OBVIOUS
<1>1. ConfigShape(Fresh)
  BY DEF ConfigShape, Fresh
<1>2. ReqsInv
  BY <1>1 DEF Init, TenancyInit, ReqsInv
<1>3. policy \in [Policies -> [row : Rows, base : Delays, max : Delays]]
  BY DEF Init, SubmissionInit, Rows
<1>4. \A r \in Policies \ Absent : Live(r)
  <2> SUFFICES ASSUME NEW r \in Policies \ Absent PROVE policy[r].row = "live"
    BY DEF Live
  <2>1. policy[r].row \in {"free", "live"} /\ policy[r].row # "free"
    BY DEF Init, SubmissionInit
  <2> QED BY <2>1
<1>5. \A q \in Queues : queue[q] = IF q \in Absent THEN [row |-> "free", policy |-> None]
                                    ELSE [row |-> "live", policy |-> SeededPolicy]
  BY DEF Init, SubmissionInit
<1>6. SeededPolicy \in Policies \cup {None}
  BY SubmissionAssumption
<1>7. queue \in [Queues -> [row : Rows, policy : Policies \cup {None}]]
  BY <1>6 DEF Init, SubmissionInit, Rows
<1>8. ASSUME NEW q \in Queues, queue[q].policy # None
      PROVE  Live(queue[q].policy) /\ ProjectOf[queue[q].policy] = ProjectOf[q]
  BY <1>4, <1>5, <1>8, SubmissionAssumption
<1> QED BY <1>2, <1>3, <1>7, <1>8 DEF RowsInv

LEMMA ReqTenancy ==
    ASSUME ReqsInv, TenancyNext
    PROVE  ReqsInv'
<1>1. ASSUME NEW i \in Requests, NEW u, RegisterAsk(i, u)
      PROVE  ReqsInv'
  <2> DEFINE r == [step |-> "register", user |-> u]
  <2>1. "step" \in DOMAIN r /\ r.step \notin ConfigSteps /\ req' = [req EXCEPT ![i] = r]
    BY <1>1 DEF RegisterAsk, Ask, ConfigSteps
  <2> HIDE DEF r
  <2> QED BY <2>1, ReqElsewhere
<1>2. ASSUME NEW i \in Requests, NEW c, NEW o, NEW u, NEW x, AddMemberAsk(i, c, o, u, x)
      PROVE  ReqsInv'
  <2> DEFINE r == [step |-> "member", org |-> o, user |-> u, role |-> x]
  <2>1. "step" \in DOMAIN r /\ r.step \notin ConfigSteps /\ req' = [req EXCEPT ![i] = r]
    BY <1>2 DEF AddMemberAsk, Ask, ConfigSteps
  <2> HIDE DEF r
  <2> QED BY <2>1, ReqElsewhere
<1>3. ASSUME NEW i \in Requests, NEW c, NEW o, NEW u, RemoveMemberAsk(i, c, o, u)
      PROVE  ReqsInv'
  <2> DEFINE r == [step |-> "target", org |-> o, user |-> u]
  <2>1. "step" \in DOMAIN r /\ r.step \notin ConfigSteps /\ req' = [req EXCEPT ![i] = r]
    BY <1>3 DEF RemoveMemberAsk, Ask, ConfigSteps
  <2> HIDE DEF r
  <2> QED BY <2>1, ReqElsewhere
<1>4. ASSUME NEW i \in Requests, NEW c, NEW p, NEW w \in {"project", "drop", "rotate"},
             ProjectAsk(i, c, p, w)
      PROVE  ReqsInv'
  <2> DEFINE r == [step |-> w, project |-> p]
  <2>1. "step" \in DOMAIN r /\ r.step \notin ConfigSteps /\ req' = [req EXCEPT ![i] = r]
    BY <1>4 DEF ProjectAsk, Ask, ConfigSteps
  <2> HIDE DEF r
  <2> QED BY <2>1, ReqElsewhere
<1>5. ASSUME NEW i \in Requests, TenancyAsks(i)
      PROVE  ReqsInv'
  BY <1>1, <1>2, <1>3, <1>4, <1>5 DEF TenancyAsks
<1>6. ASSUME NEW i \in Requests,
             \/ Register(i) \/ AddMember(i) \/ RemoveMember(i) \/ CreateProject(i) \/ RotateKey(i)
      PROVE  ReqsInv'
  BY <1>6, ReqEnds DEF Register, AddMember, RemoveMember, CreateProject, RotateKey
<1>7. ASSUME NEW i \in Requests, RemoveMemberRead(i)
      PROVE  ReqsInv'
  BY <1>7, ReqEnds, ReqTurns DEF RemoveMemberRead, ConfigSteps
<1> QED BY <1>5, <1>6, <1>7 DEF TenancyNext

LEMMA ReqAsks ==
    ASSUME ReqsInv, RowsInv, NEW i \in Requests, SubmissionAsks(i)
    PROVE  ReqsInv'
<1>1. ASSUME NEW c, NEW p \in Policies, NEW b \in Delays, NEW m \in Delays,
             CreatePolicyAsk(i, c, p, b, m)
      PROVE  ReqsInv'
  <2> DEFINE r == [step |-> "policy", policy |-> p, base |-> b, max |-> m]
  <2>1. ConfigShape(r) /\ req' = [req EXCEPT ![i] = r]
    BY <1>1 DEF CreatePolicyAsk, Ask, ConfigShape
  <2> HIDE DEF r
  <2> QED BY <2>1, ReqGoesOn
<1>2. ASSUME NEW c, NEW p \in Policies, NEW b \in Delays \cup {None}, NEW m \in Delays \cup {None},
             PatchPolicyAsk(i, c, p, b, m)
      PROVE  ReqsInv'
  <2> DEFINE base == IF b = None THEN policy[p].base ELSE b
             max  == IF m = None THEN policy[p].max ELSE m
             r    == [step |-> "merge", policy |-> p, base |-> base, max |-> max]
  <2>1. base \in Delays /\ max \in Delays
    BY DEF RowsInv
  <2>2. req' = [req EXCEPT ![i] = r]
    BY <1>2 DEF PatchPolicyAsk, Ask
  <2> HIDE DEF base, max
  <2>3. ConfigShape(r)
    BY <2>1 DEF ConfigShape
  <2> HIDE DEF r
  <2> QED BY <2>2, <2>3, ReqGoesOn
<1>3. ASSUME NEW c, NEW p \in Policies, DeletePolicyAsk(i, c, p)
      PROVE  ReqsInv'
  <2> DEFINE r == [step |-> "forget", policy |-> p]
  <2>1. ConfigShape(r) /\ req' = [req EXCEPT ![i] = r]
    BY <1>3 DEF DeletePolicyAsk, Ask, ConfigShape
  <2> HIDE DEF r
  <2> QED BY <2>1, ReqGoesOn
<1>4. ASSUME NEW c, NEW q \in Queues, NEW p \in Policies \cup {None}, QueueAsk(i, c, q, p)
      PROVE  ReqsInv'
  <2> DEFINE r == [step |-> "assert", queue |-> q, policy |-> p, row |-> queue[q].row]
  <2>1. queue[q].row \in Rows \ {"gone"}
    BY <1>4 DEF QueueAsk, RowsInv
  <2>2. ConfigShape(r) /\ req' = [req EXCEPT ![i] = r]
    BY <1>4, <2>1 DEF QueueAsk, Ask, ConfigShape
  <2> HIDE DEF r
  <2> QED BY <2>2, ReqGoesOn
<1>5. ASSUME NEW c, NEW q, NEW ks, NEW rs, NEW many, SubmitAsk(i, c, q, ks, rs, many)
      PROVE  ReqsInv'
  <2> DEFINE r == [step |-> "check", queue |-> q, keys |-> ks, many |-> many, policies |-> rs,
                   default |-> queue[q].policy]
  <2>1. "step" \in DOMAIN r /\ r.step \notin ConfigSteps /\ req' = [req EXCEPT ![i] = r]
    BY <1>5 DEF SubmitAsk, Ask, ConfigSteps
  <2> HIDE DEF r
  <2> QED BY <2>1, ReqElsewhere
<1>6. CASE \E c \in users, r \in Policies :
              \/ \E b, m \in Delays : CreatePolicyAsk(i, c, r, b, m)
              \/ \E b, m \in Delays \cup {None} : PatchPolicyAsk(i, c, r, b, m)
              \/ DeletePolicyAsk(i, c, r)
  BY <1>1, <1>2, <1>3, <1>6
<1>7. CASE \E c \in users, q \in Queues, r \in Policies \cup {None} : QueueAsk(i, c, q, r)
  BY <1>4, <1>7
<1>8. CASE \E c \in Callers, q \in Queues :
              \/ \E k \in Keys, r \in Policies \cup {None} : SubmitAsk(i, c, q, <<k>>, {r}, FALSE)
              \/ \E ks \in Inputs : \E f \in [DOMAIN ks -> Policies \cup {None}] :
                    SubmitAsk(i, c, q, ks, {f[n] : n \in DOMAIN ks}, TRUE)
  BY <1>5, <1>8
<1> QED BY <1>6, <1>7, <1>8 DEF SubmissionAsks

LEMMA ReqSubmission ==
    ASSUME ReqsInv, RowsInv, SubmissionNext
    PROVE  ReqsInv'
<1>0. PICK i \in Requests :
         \/ SubmissionAsks(i)
         \/ CreatePolicy(i) \/ PatchPolicy(i) \/ DeletePolicy(i)
         \/ AssertPolicy(i) \/ WriteQueue(i)
         \/ CheckPolicyOverride(i) \/ Resolve(i) \/ Insert(i) \/ Existing(i)
         \/ Commit(i) \/ Rollback(i) \/ DropProject(i)
  BY DEF SubmissionNext
<1>1. CASE SubmissionAsks(i)
  BY <1>1, ReqAsks
<1>2. CASE \/ CreatePolicy(i) \/ PatchPolicy(i) \/ DeletePolicy(i) \/ WriteQueue(i)
           \/ Commit(i) \/ Rollback(i) \/ DropProject(i)
  BY <1>2, ReqEnds DEF CreatePolicy, PatchPolicy, DeletePolicy, WriteQueue, Commit, Rollback, DropProject
<1>3. CASE AssertPolicy(i)
  <2>1. CASE End(i)
    BY <2>1, ReqEnds
  <2>2. CASE /\ InProject(req[i].policy, req[i].queue)
             /\ Turn(i, [req[i] EXCEPT !.step = "queue"])
    <3> DEFINE r == [req[i] EXCEPT !.step = "queue"]
    <3>1. req[i] \in [step : {"assert", "queue"}, queue : Queues, policy : Policies \cup {None},
                      row : Rows \ {"gone"}]
      BY <1>3 DEF AssertPolicy, ReqsInv, ConfigShape
    <3>2. r \in [step : {"assert", "queue"}, queue : Queues, policy : Policies \cup {None},
                row : Rows \ {"gone"}]
          /\ r.step = "queue" /\ r.policy = req[i].policy /\ r.queue = req[i].queue
      BY <3>1
    <3>3. req' = [req EXCEPT ![i] = r]
      BY <2>2 DEF Turn
    <3> HIDE DEF r
    <3>4. ConfigShape(r)
      BY <2>2, <3>2 DEF ConfigShape, InProject
    <3> QED BY <3>3, <3>4, ReqGoesOn
  <2> QED BY <1>3, <2>1, <2>2 DEF AssertPolicy
<1>4. CASE CheckPolicyOverride(i)
  BY <1>4, ReqEnds, ReqTurns DEF CheckPolicyOverride, ConfigSteps
<1>5. CASE Resolve(i)
  <2>1. ASSUME NEW s,
               Turn(i, [step |-> "insert", queue |-> req[i].queue, keys |-> req[i].keys,
                        left |-> req[i].keys, many |-> req[i].many, snaps |-> s])
        PROVE  ReqsInv'
    <3> DEFINE r == [step |-> "insert", queue |-> req[i].queue, keys |-> req[i].keys,
                     left |-> req[i].keys, many |-> req[i].many, snaps |-> s]
    <3>1. "step" \in DOMAIN r /\ r.step \notin ConfigSteps
      BY DEF ConfigSteps
    <3>2. req' = [req EXCEPT ![i] = r]
      BY <2>1 DEF Turn
    <3> HIDE DEF r
    <3> QED BY <3>1, <3>2, ReqElsewhere
  <2> QED BY <1>5, <2>1, ReqEnds DEF Resolve
<1>6. CASE Insert(i)
  <2>1. CASE Onward(i)
    <3> DEFINE r == IF Len(req[i].left) = 1 THEN [req[i] EXCEPT !.step = "commit", !.left = <<>>]
                    ELSE [req[i] EXCEPT !.left = Tail(@)]
    <3>1. "step" \in DOMAIN req[i] /\ req[i].step = "insert"
      BY <1>6 DEF Insert, ReqsInv, ConfigShape
    <3>2. "step" \in DOMAIN r /\ r.step \in {"commit", "insert"}
      BY <3>1
    <3>3. req' = [req EXCEPT ![i] = r]
      BY <2>1 DEF Onward, Turn
    <3> HIDE DEF r
    <3>4. r.step \notin ConfigSteps
      BY <3>2 DEF ConfigSteps
    <3> QED BY <3>2, <3>3, <3>4, ReqElsewhere
  <2>2. End(i) \/ Onward(i) \/ Turn(i, [req[i] EXCEPT !.step = "existing"])
    BY <1>6 DEF Insert
  <2> QED BY <2>1, <2>2, ReqEnds, ReqTurns DEF ConfigSteps
<1>7. CASE Existing(i)
  <2> DEFINE row == job[req[i].queue][Head(req[i].left)]
             r   == [step |-> "commit", queue |-> req[i].queue, keys |-> req[i].keys,
                     many |-> FALSE, found |-> IF row = None THEN None ELSE row.by]
  <2>1. "step" \in DOMAIN r /\ r.step \notin ConfigSteps
    BY DEF ConfigSteps
  <2>2. req' = [req EXCEPT ![i] = r]
    BY <1>7 DEF Existing, Turn
  <2> HIDE DEF r
  <2> QED BY <2>1, <2>2, ReqElsewhere
<1> QED BY <1>0, <1>1, <1>2, <1>3, <1>4, <1>5, <1>6, <1>7

\* The steps that write policies or queues.
LEMMA PolicyWrites ==
    ASSUME ReqsInv, RowsInv, NEW i \in Requests, CreatePolicy(i) \/ PatchPolicy(i)
    PROVE  RowsInv'
<1> DEFINE r == req[i].policy
           row == [row |-> "live", base |-> req[i].base, max |-> req[i].max]
<1>1. r \in Policies /\ row \in [row : Rows, base : Delays, max : Delays]
  BY DEF ReqsInv, ConfigShape, CreatePolicy, PatchPolicy, Rows
<1>2. queue' = queue
  BY DEF CreatePolicy, PatchPolicy
<1>3. policy' = policy \/ policy' = [policy EXCEPT ![r] = row]
  BY DEF CreatePolicy, PatchPolicy
<1>4. policy' \in [Policies -> [row : Rows, base : Delays, max : Delays]]
  BY <1>1, <1>3 DEF RowsInv
<1>5. \A x : Live(x) => Live(x)'
  BY <1>1, <1>3 DEF RowsInv, Live
<1> QED BY <1>2, <1>4, <1>5 DEF RowsInv

LEMMA PolicyDeleted ==
    ASSUME ReqsInv, RowsInv, NEW i \in Requests, DeletePolicy(i)
    PROVE  RowsInv'
<1> DEFINE r == req[i].policy
<1>1. r \in Policies
  BY DEF ReqsInv, ConfigShape, DeletePolicy
<1>2. policy' = [policy EXCEPT ![r] = [policy[r] EXCEPT !.row = "gone"]]
  BY DEF DeletePolicy
<1>3. [policy[r] EXCEPT !.row = "gone"] \in [row : Rows, base : Delays, max : Delays]
  BY <1>1 DEF RowsInv, Rows
<1>4. policy' \in [Policies -> [row : Rows, base : Delays, max : Delays]]
  BY <1>1, <1>2, <1>3 DEF RowsInv
<1>5. \A x : Live(x) /\ x # r => Live(x)'
  BY <1>1, <1>2 DEF RowsInv, Live
<1>6. \A q \in Queues : /\ queue[q] \in [row : Rows, policy : Policies \cup {None}]
                        /\ queue'[q] = IF queue[q].policy = r
                                       THEN [queue[q] EXCEPT !.policy = None] ELSE queue[q]
  BY DEF RowsInv, DeletePolicy
<1>7. \A q \in Queues : /\ queue'[q] \in [row : Rows, policy : Policies \cup {None}]
                        /\ queue'[q].policy = IF queue[q].policy = r THEN None ELSE queue[q].policy
  BY <1>6
<1>8. queue' \in [Queues -> [row : Rows, policy : Policies \cup {None}]]
  BY <1>7 DEF DeletePolicy
<1>9. \A q \in Queues : (queue[q].policy # None =>
          Live(queue[q].policy) /\ ProjectOf[queue[q].policy] = ProjectOf[q])'
  BY <1>5, <1>7 DEF RowsInv
<1> QED BY <1>4, <1>8, <1>9 DEF RowsInv

LEMMA QueueWritten ==
    ASSUME ReqsInv, RowsInv, NEW i \in Requests, WriteQueue(i)
    PROVE  RowsInv'
<1> DEFINE q == req[i].queue
           r == req[i].policy
<1>1. q \in Queues /\ r \in Policies \cup {None} /\ (r = None \/ ProjectOf[r] = ProjectOf[q])
  <2>1. req[i] \in [step : {"assert", "queue"}, queue : Queues, policy : Policies \cup {None},
                    row : Rows \ {"gone"}]
    BY DEF ReqsInv, ConfigShape, WriteQueue
  <2> QED BY <2>1 DEF ReqsInv, ConfigShape, WriteQueue
<1>2. policy' = policy
  BY DEF WriteQueue
<1>3. CASE UNCHANGED queue
  BY <1>2, <1>3 DEF RowsInv, Live
<1>4. CASE (r = None \/ Live(r)) /\ queue' = [queue EXCEPT ![q] = [row |-> "live", policy |-> r]]
  <2>1. queue' \in [Queues -> [row : Rows, policy : Policies \cup {None}]]
    BY <1>1, <1>4 DEF RowsInv, Rows
  <2>2. \A x \in Queues : queue'[x] = IF x = q THEN [row |-> "live", policy |-> r] ELSE queue[x]
    BY <1>1, <1>4 DEF RowsInv
  <2>3. \A x \in Queues : (queue[x].policy # None =>
            Live(queue[x].policy) /\ ProjectOf[queue[x].policy] = ProjectOf[x])'
    BY <1>1, <1>2, <1>4, <2>2 DEF RowsInv, Live
  <2> QED BY <1>2, <2>1, <2>3 DEF RowsInv
<1> QED BY <1>3, <1>4 DEF WriteQueue

\* The policies of a project go with its queues, and those of the other queues stay.
LEMMA ProjectDropped ==
    ASSUME ReqsInv, RowsInv, NEW i \in Requests, DropProject(i)
    PROVE  RowsInv'
<1> DEFINE ours == {x \in Policies \cup Queues : ProjectOf[x] = req[i].project}
<1>1. /\ policy' = [r \in Policies |-> IF r \in ours THEN [policy[r] EXCEPT !.row = "gone"]
                                                  ELSE policy[r]]
      /\ queue' = [q \in Queues |-> IF q \in ours THEN [row |-> "gone", policy |-> None]
                                               ELSE queue[q]]
  BY DEF DropProject
<1>2. \A r \in Policies : policy[r] \in [row : Rows, base : Delays, max : Delays]
  BY DEF RowsInv
<1>3. \A r \in Policies : policy'[r] \in [row : Rows, base : Delays, max : Delays]
  BY <1>1, <1>2 DEF Rows
<1>4. policy' \in [Policies -> [row : Rows, base : Delays, max : Delays]]
  BY <1>1, <1>3
<1>5. \A q \in Queues : queue'[q] \in [row : Rows, policy : Policies \cup {None}]
  BY <1>1 DEF RowsInv, Rows
<1>6. queue' \in [Queues -> [row : Rows, policy : Policies \cup {None}]]
  BY <1>1, <1>5
<1>7. \A x : Live(x) /\ x \notin ours => Live(x)'
  BY <1>1 DEF Live
<1>8. ASSUME NEW q \in Queues, queue'[q].policy # None
      PROVE  (Live(queue[q].policy) /\ ProjectOf[queue[q].policy] = ProjectOf[q])'
  <2>1. q \notin ours /\ queue'[q] = queue[q]
    BY <1>1, <1>8
  <2>2. Live(queue[q].policy) /\ ProjectOf[queue[q].policy] = ProjectOf[q]
    BY <1>8, <2>1 DEF RowsInv
  <2>3. queue[q].policy \notin ours
    BY <2>1, <2>2
  <2> QED BY <1>7, <2>1, <2>2, <2>3
<1> QED BY <1>4, <1>6, <1>8 DEF RowsInv

LEMMA ConfigStep ==
    ASSUME ReqsInv, RowsInv, [Next]_vars
    PROVE  ReqsInv' /\ RowsInv'
<1>1. CASE TenancyNext /\ UNCHANGED <<config, jobsVars>>
  BY <1>1, ReqTenancy DEF config, RowsInv, Live
<1>2. CASE SubmissionNext
  <2>1. PICK i \in Requests :
         \/ SubmissionAsks(i)
         \/ CreatePolicy(i) \/ PatchPolicy(i) \/ DeletePolicy(i)
         \/ AssertPolicy(i) \/ WriteQueue(i)
         \/ CheckPolicyOverride(i) \/ Resolve(i) \/ Insert(i) \/ Existing(i)
         \/ Commit(i) \/ Rollback(i) \/ DropProject(i)
    BY <1>2 DEF SubmissionNext
  <2>0. ReqsInv'
    BY <1>2, ReqSubmission
  <2>2. CASE SubmissionAsks(i)
    <3>1. UNCHANGED config
      BY <2>2 DEF SubmissionAsks, CreatePolicyAsk, PatchPolicyAsk, DeletePolicyAsk, QueueAsk, SubmitAsk
    <3> QED BY <2>0, <3>1 DEF config, RowsInv, Live
  <2>3. CASE AssertPolicy(i) \/ CheckPolicyOverride(i) \/ Resolve(i) \/ Insert(i) \/ Existing(i)
             \/ Commit(i) \/ Rollback(i)
    <3>1. UNCHANGED config
      BY <2>3 DEF AssertPolicy, CheckPolicyOverride, Resolve, Insert, Existing, Commit, Rollback
    <3> QED BY <2>0, <3>1 DEF config, RowsInv, Live
  <2>4. RowsInv'
    BY <2>0, <2>1, <2>2, <2>3, PolicyWrites, PolicyDeleted, QueueWritten, ProjectDropped
  <2> QED BY <2>0, <2>4
<1>3. CASE UNCHANGED vars
  BY <1>3 DEF vars, config, ReqsInv, RowsInv, Live
<1> QED BY <1>1, <1>2, <1>3 DEF Next

\* The policy of a queue exists and is of the queue's own project: however policies,
\* queues and projects are created, edited and deleted between the check and the write.
THEOREM ConfigStaysSound == Spec => []ConfigIsSound
<1>1. Init => ReqsInv /\ RowsInv
  BY ConfigInit
<1>2. ReqsInv /\ RowsInv /\ [Next]_vars => ReqsInv' /\ RowsInv'
  BY ConfigStep
<1>3. RowsInv => ConfigIsSound
  BY DEF RowsInv, ConfigIsSound
<1> QED BY <1>1, <1>2, <1>3, PTL DEF Spec
=============================================================================
