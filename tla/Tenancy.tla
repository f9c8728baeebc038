------------------------------ MODULE Tenancy ------------------------------
(***************************************************************************)
(* Accounts, organizations and their members, projects and API keys, and   *)
(* the way a request is authorized: it reads first (who calls, with which  *)
(* role, the target) and writes later, and other requests run in between.  *)
(* Submission adds retry policies, queues and jobs to the same requests.   *)
(***************************************************************************)
EXTENDS Integers, FiniteSets

CONSTANTS
    Users,      \* accounts, each named after its email
    Projects,
    OrgOf,      \* bound: the organization that may create a project
    Staff,      \* the roles at the start, by organization and user; its accounts exist
    Seeded,     \* the projects there are at the start
    Requests,   \* bound: the requests of a run, each served once
    None

Roles == {"member", "admin", "owner"}

ASSUME TenancyAssumption ==
    /\ OrgOf \in [Projects -> Users]
    /\ Seeded \subseteq Projects
    /\ None \notin Users \cup Projects \cup Roles
    /\ Staff \in [Users -> [Users -> Roles \cup {None}]]
    /\ \A o, u \in Users : Staff[o][u] # None => Staff[u][u] = "owner"

VARIABLES
    users,    \* the accounts; with each came an organization, named after it
    role,     \* by organization and user, organization_members
    project,  \* "free" until it is created, then "live", then "gone"
    apiKey,   \* how many keys the project has had; the last one is valid
    req       \* the requests: what is asked, by whom, and how far it is

tenants == <<users, role, project, apiKey>>

Rows   == {"free", "live", "gone"}
Fresh  == [step |-> "new"]
Over   == [step |-> "over"]

\* The roles that a body of POST /orgs/:orgId/members may name.
GrantableByAll == Roles        \* Faulty variant of Grantable.
Grantable      == {"member", "admin"}

TenancyTypeOK ==
    /\ users \subseteq Users
    /\ role \in [Users -> [Users -> Roles \cup {None}]]
    /\ project \in [Projects -> Rows]
    /\ apiKey \in [Projects -> Nat]
    /\ \A i \in Requests : req[i].step \in
           {"new", "register", "member", "target", "delete", "project", "drop", "rotate",
            "policy", "merge", "forget", "assert", "queue", "config", "check", "resolve",
            "insert", "existing", "commit", "over"}

TenancyInit ==
    /\ users = {u \in Users : Staff[u][u] = "owner"}
    /\ role = Staff
    /\ project = [p \in Projects |-> IF p \in Seeded THEN "live" ELSE "free"]
    /\ apiKey = [p \in Projects |-> IF p \in Seeded THEN 1 ELSE 0]
    /\ req = [i \in Requests |-> Fresh]

-----------------------------------------------------------------------------
\* Who calls, and what they may do.

\* requireAuth lets in a user with a token and an integration that shows the key its
\* project has now.
Callers == users \cup {[project |-> p, key |-> apiKey[p]] : p \in {x \in Projects : project[x] = "live"}}

AtLeast(min) == CASE min = "member" -> Roles
                  [] min = "admin"  -> {"admin", "owner"}
                  [] min = "owner"  -> {"owner"}

\* requireOrgRole and requireProjectRole: an API key is a member of its project only.
MayOrg(c, o, min) == c \in users /\ role[o][c] \in AtLeast(min)

MayProject(c, p, min) ==
    /\ project[p] = "live"
    /\ \/ MayOrg(c, OrgOf[p], min)
       \/ c \notin Users /\ c.project = p /\ min = "member"

Ask(i, r)  == req[i].step = "new" /\ req' = [req EXCEPT ![i] = r]
Turn(i, r) == req' = [req EXCEPT ![i] = r]
End(i)     == req' = [req EXCEPT ![i] = Over]

-----------------------------------------------------------------------------
\* Accounts and members.

\* POST /auth/register: no account has the email.  The password is hashed, and the
\* account, its organization and its owner come in one transaction, which the unique
\* index refuses if somebody was faster.
RegisterAsk(i, u) ==
    /\ u \notin users
    /\ Ask(i, [step |-> "register", user |-> u])
    /\ UNCHANGED tenants

Register(i) ==
    /\ req[i].step = "register"
    /\ LET u == req[i].user IN
       IF u \in users THEN UNCHANGED tenants
       ELSE /\ users' = users \cup {u}
            /\ role' = [role EXCEPT ![u][u] = "owner"]
            /\ UNCHANGED <<project, apiKey>>
    /\ End(i)

\* POST /orgs/:orgId/members: an admin names an account and a role.
AddMemberAsk(i, c, o, u, r) ==
    /\ MayOrg(c, o, "admin") /\ r \in Grantable
    /\ Ask(i, [step |-> "member", org |-> o, user |-> u, role |-> r])
    /\ UNCHANGED tenants

\* The upsert, whatever the row says by now.
AddMember(i) ==
    /\ req[i].step = "member"
    /\ IF req[i].user \in users
       THEN role' = [role EXCEPT ![req[i].org][req[i].user] = req[i].role]
       ELSE UNCHANGED role
    /\ End(i)
    /\ UNCHANGED <<users, project, apiKey>>

\* DELETE /orgs/:orgId/members/:userId: an admin, then the target's row, then the row
\* is deleted by its key.
RemoveMemberAsk(i, c, o, u) ==
    /\ MayOrg(c, o, "admin")
    /\ Ask(i, [step |-> "target", org |-> o, user |-> u])
    /\ UNCHANGED tenants

RemoveMemberRead(i) ==
    /\ req[i].step = "target"
    /\ \/ role[req[i].org][req[i].user] \in {None, "owner"} /\ End(i)
       \/ role[req[i].org][req[i].user] \in {"member", "admin"}
          /\ Turn(i, [req[i] EXCEPT !.step = "delete"])
    /\ UNCHANGED tenants

RemoveMember(i) ==
    /\ req[i].step = "delete"
    /\ role' = [role EXCEPT ![req[i].org][req[i].user] = None]
    /\ End(i)
    /\ UNCHANGED <<users, project, apiKey>>

-----------------------------------------------------------------------------
\* Projects.

\* POST /projects, which makes the first key, DELETE /projects/:projectId and POST
\* rotate-api-key: the role, then the write.
ProjectAsk(i, c, p, what) ==
    /\ \/ what = "project" /\ MayOrg(c, OrgOf[p], "admin") /\ project[p] = "free"
       \/ what = "drop" /\ MayProject(c, p, "owner")
       \/ what = "rotate" /\ MayProject(c, p, "admin") /\ apiKey[p] < 2
    /\ Ask(i, [step |-> what, project |-> p])
    /\ UNCHANGED tenants

\* The name is unique in the organization.
CreateProject(i) ==
    /\ req[i].step = "project"
    /\ LET p == req[i].project IN
       IF project[p] # "free" THEN UNCHANGED tenants
       ELSE /\ project' = [project EXCEPT ![p] = "live"]
            /\ apiKey' = [apiKey EXCEPT ![p] = 1]
            /\ UNCHANGED <<users, role>>
    /\ End(i)

\* The UPDATE finds no row once the project is gone; the answer names a key all the same.
RotateKey(i) ==
    /\ req[i].step = "rotate"
    /\ apiKey' = [apiKey EXCEPT ![req[i].project] =
                      IF project[req[i].project] = "live" THEN @ + 1 ELSE @]
    /\ End(i)
    /\ UNCHANGED <<users, role, project>>

-----------------------------------------------------------------------------
\* The steps that leave policies, queues and jobs alone; Submission has the deletion of
\* a project, which takes them along.
TenancyAsks(i) ==
    \/ \E u \in Users : RegisterAsk(i, u)
    \/ \E c, o \in users, u \in Users :
          \/ \E r \in Roles : AddMemberAsk(i, c, o, u, r)
          \/ RemoveMemberAsk(i, c, o, u)
    \/ \E c \in users, p \in Projects, w \in {"project", "drop", "rotate"} : ProjectAsk(i, c, p, w)

TenancyNext ==
    \E i \in Requests :
        \/ req[i].step = "new" /\ TenancyAsks(i)
        \/ Register(i) \/ AddMember(i) \/ RemoveMemberRead(i) \/ RemoveMember(i)
        \/ CreateProject(i) \/ RotateKey(i)
=============================================================================
