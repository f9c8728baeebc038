----------------------------- MODULE Submission -----------------------------
(***************************************************************************)
(* Retry policies, the policy of a queue, and the submission of jobs: the  *)
(* retry snapshot, deduplication by idempotency key and batches, in the    *)
(* steps of the requests of Tenancy.  What a job does once it is queued is *)
(* JobLifecycle's; the other settings of a queue are QueueClaim's.         *)
(***************************************************************************)
EXTENDS Tenancy, RetryBackoff, Sequences

CONSTANTS
    Policies,
    Queues,
    ProjectOf,      \* bound: the project that may create a policy or a queue
    Keys,           \* idempotency keys
    Inputs,         \* bound: the lists of keys that a batch may have
    Delays,         \* bound: values of base and max delay
    DefaultRetry,   \* DEFAULT_RETRY
    SeededPolicy,   \* retry_policy_id of the queues at the start
    Absent          \* the policies and queues that are not there at the start

ASSUME SubmissionAssumption ==
    /\ ProjectOf \in [Policies \cup Queues -> Projects]
    /\ Policies \cap Queues = {} /\ None \notin Policies \cup Queues \cup Keys
    /\ Delays \subseteq Nat
    /\ Inputs \subseteq Seq(Keys) \ {<<>>}
    /\ \A x \in (Policies \cup Queues) \ Absent : ProjectOf[x] \in Seeded
    /\ SeededPolicy # None =>
           /\ SeededPolicy \in Policies \ Absent
           /\ \A q \in Queues \ Absent : ProjectOf[q] = ProjectOf[SeededPolicy]

\* retry.ts:11.
ASSUME DefaultAssumption ==
    /\ DefaultRetry \in [base : Nat, max : Nat]
    /\ DefaultRetry.base <= DefaultRetry.max

VARIABLES
    policy,   \* the rows of retry_policies
    queue,    \* the rows of queues: whether there is one, and its policy
    job,      \* by queue and key, the job of that key; `by` names its request
    told      \* history: what submissions were answered to be the job of a key

jobsVars == <<job, told>>
config   == <<policy, queue>>
vars     == <<tenants, req, config, jobsVars>>

Snapshots == [policy : Policies \cup {None}, base : Delays \cup {DefaultRetry.base},
              max : Delays \cup {DefaultRetry.max}]

JobRows == [by : Requests, snap : Snapshots, kept : BOOLEAN]

ASSUME JobRowsAssumption == None \notin JobRows

SubmissionTypeOK ==
    /\ policy \in [Policies -> [row : Rows, base : Delays, max : Delays]]
    /\ queue \in [Queues -> [row : Rows, policy : Policies \cup {None}]]
    /\ job \in [Queues -> [Keys -> {None} \cup JobRows]]
    /\ told \subseteq [queue : Queues, key : Keys, by : Requests \cup {None}]

SubmissionInit ==
    /\ policy \in [Policies -> {[row |-> w, base |-> b, max |-> m] :
                                   w \in {"free", "live"}, b, m \in Delays}]
    /\ \A r \in Policies : policy[r].base < policy[r].max /\ (policy[r].row = "free" <=> r \in Absent)
    /\ queue = [q \in Queues |-> IF q \in Absent THEN [row |-> "free", policy |-> None]
                                  ELSE [row |-> "live", policy |-> SeededPolicy]]
    /\ job = [q \in Queues |-> [k \in Keys |-> None]]
    /\ told = {}

Live(r) == r \in Policies /\ policy[r].row = "live"

-----------------------------------------------------------------------------
\* Retry policies.

\* POST, PATCH and DELETE of a policy.  PATCH merges its fields, of which None is not
\* given, into the row that it has read.
CreatePolicyAsk(i, c, r, b, m) ==
    /\ MayProject(c, ProjectOf[r], "admin")
    /\ policy[r].row = "free" /\ b <= m
    /\ Ask(i, [step |-> "policy", policy |-> r, base |-> b, max |-> m])
    /\ UNCHANGED <<tenants, config, jobsVars>>

PatchPolicyAsk(i, c, r, b, m) ==
    /\ Live(r) /\ MayProject(c, ProjectOf[r], "admin")
    /\ b # None \/ m # None
    /\ LET base == IF b = None THEN policy[r].base ELSE b
           max  == IF m = None THEN policy[r].max ELSE m
       IN  /\ max >= base
           /\ Ask(i, [step |-> "merge", policy |-> r, base |-> base, max |-> max])
    /\ UNCHANGED <<tenants, config, jobsVars>>

DeletePolicyAsk(i, c, r) ==
    /\ Live(r) /\ MayProject(c, ProjectOf[r], "admin")
    /\ Ask(i, [step |-> "forget", policy |-> r])
    /\ UNCHANGED <<tenants, config, jobsVars>>

CreatePolicy(i) ==
    /\ req[i].step = "policy"
    /\ LET r == req[i].policy IN
       IF policy[r].row = "free" /\ project[ProjectOf[r]] = "live"
       THEN policy' = [policy EXCEPT ![r] =
                           [row |-> "live", base |-> req[i].base, max |-> req[i].max]]
       ELSE UNCHANGED policy
    /\ End(i)
    /\ UNCHANGED <<tenants, queue, jobsVars>>

\* Every column is written, over what another PATCH has written since.
PatchPolicy(i) ==
    /\ req[i].step = "merge"
    /\ policy' = IF Live(req[i].policy)
                 THEN [policy EXCEPT ![req[i].policy] =
                           [row |-> "live", base |-> req[i].base, max |-> req[i].max]]
                 ELSE policy
    /\ End(i)
    /\ UNCHANGED <<tenants, queue, jobsVars>>

\* ON DELETE SET NULL: the queues of the policy fall back to the platform default.
DeletePolicy(i) ==
    /\ req[i].step = "forget"
    /\ policy' = [policy EXCEPT ![req[i].policy].row = "gone"]
    /\ queue' = [q \in Queues |-> IF queue[q].policy = req[i].policy
                                  THEN [queue[q] EXCEPT !.policy = None] ELSE queue[q]]
    /\ End(i)
    /\ UNCHANGED <<tenants, jobsVars>>

-----------------------------------------------------------------------------
\* The policy of a queue.

\* POST /projects/:projectId/queues and PATCH /queues/:queueId.
QueueAsk(i, c, q, r) ==
    /\ MayProject(c, ProjectOf[q], "admin") /\ queue[q].row # "gone"
    /\ Ask(i, [step |-> "assert", queue |-> q, policy |-> r, row |-> queue[q].row])
    /\ UNCHANGED <<tenants, config, jobsVars>>

\* Faulty variant of InProject: any policy will do.
Exists(r, q) == r = None \/ Live(r)

InProject(r, q) == r = None \/ (Live(r) /\ ProjectOf[r] = ProjectOf[q])

AssertPolicy(i) ==
    /\ req[i].step = "assert"
    /\ IF InProject(req[i].policy, req[i].queue)
       THEN Turn(i, [req[i] EXCEPT !.step = "queue"]) ELSE End(i)
    /\ UNCHANGED <<tenants, config, jobsVars>>

\* The INSERT or UPDATE; a foreign key refuses a policy or a project that is gone.
WriteQueue(i) ==
    /\ req[i].step = "queue"
    /\ LET q == req[i].queue  r == req[i].policy IN
       IF queue[q].row = req[i].row /\ project[ProjectOf[q]] = "live" /\ (r = None \/ Live(r))
       THEN queue' = [queue EXCEPT ![q] = [row |-> "live", policy |-> r]]
       ELSE UNCHANGED queue
    /\ End(i)
    /\ UNCHANGED <<tenants, policy, jobsVars>>

-----------------------------------------------------------------------------
\* Submission of jobs.

\* POST /queues/:queueId/jobs and .../jobs/batch: the queue's row is read, and the
\* caller is a member or has the project's key.  `rs` are the policies that the inputs
\* name, None for those that name none.
SubmitAsk(i, c, q, ks, rs, many) ==
    /\ queue[q].row = "live" /\ MayProject(c, ProjectOf[q], "member")
    /\ Ask(i, [step |-> "check", queue |-> q, keys |-> ks, many |-> many, policies |-> rs,
               default |-> queue[q].policy])
    /\ UNCHANGED <<tenants, config, jobsVars>>

\* Every override is looked up, or the request is refused.  (The route looks them up one
\* after the other, and resolveRetry reads them so: what two inputs of a batch have read
\* is never compared, so one step stands for all.)
CheckPolicyOverride(i) ==
    /\ req[i].step = "check"
    /\ IF \A r \in req[i].policies : InProject(r, req[i].queue)
       THEN Turn(i, [req[i] EXCEPT !.step = "resolve"]) ELSE End(i)
    /\ UNCHANGED <<tenants, config, jobsVars>>

\* Faulty variant of SnapshotOf: no platform default.
SnapshotUnset(r) ==
    IF Live(r) THEN [policy |-> r, base |-> policy[r].base, max |-> policy[r].max]
               ELSE [policy |-> None, base |-> None, max |-> None]

\* The policy's delays, or the platform's if there is none or it is gone.
SnapshotOf(r) ==
    IF Live(r) THEN [policy |-> r, base |-> policy[r].base, max |-> policy[r].max]
               ELSE [policy |-> None, base |-> DefaultRetry.base, max |-> DefaultRetry.max]

\* BEGIN, and resolveRetry: the named policy, or else the one the queue had when it was
\* read.  A batch inserts its own row first, for which the queue must exist.
Resolve(i) ==
    /\ req[i].step = "resolve"
    /\ LET given == {IF r # None THEN r ELSE req[i].default : r \in req[i].policies}
       IN  IF req[i].many /\ queue[req[i].queue].row # "live" THEN End(i)
           ELSE Turn(i, [step |-> "insert", queue |-> req[i].queue, keys |-> req[i].keys,
                         left |-> req[i].keys, many |-> req[i].many,
                         snaps |-> {SnapshotOf(r) : r \in given}])
    /\ UNCHANGED <<tenants, config, jobsVars>>

\* What follows when the key at the head has its job, or is skipped.
Onward(i) ==
    Turn(i, IF Len(req[i].left) = 1 THEN [req[i] EXCEPT !.step = "commit", !.left = <<>>]
            ELSE [req[i] EXCEPT !.left = Tail(@)])

\* One row of INSERT ... ON CONFLICT DO NOTHING, with the snapshot of one of the inputs.
\* It waits for the transaction that has inserted the key and not ended.
Insert(i) ==
    /\ req[i].step = "insert"
    /\ LET q == req[i].queue  k == Head(req[i].left)  row == job[q][k] IN
       \/ /\ row = None /\ queue[q].row = "live"
          /\ \E s \in req[i].snaps :
                job' = [job EXCEPT ![q][k] = [by |-> i, snap |-> s, kept |-> FALSE]]
          /\ Onward(i)
       \/ /\ row = None /\ queue[q].row # "live"
          /\ End(i) /\ UNCHANGED job
       \/ /\ row # None /\ (row.kept \/ row.by = i)
          /\ IF req[i].many THEN Onward(i) ELSE Turn(i, [req[i] EXCEPT !.step = "existing"])
          /\ UNCHANGED job
    /\ UNCHANGED <<tenants, config, told>>

\* createJob reads the job that was there; it may be gone with its project.
Existing(i) ==
    /\ req[i].step = "existing"
    /\ LET row == job[req[i].queue][Head(req[i].left)] IN
       Turn(i, [step |-> "commit", queue |-> req[i].queue, keys |-> req[i].keys,
                many |-> FALSE, found |-> IF row = None THEN None ELSE row.by])
    /\ UNCHANGED <<tenants, config, jobsVars>>

\* COMMIT; the answer names the jobs, or is lost.
Commit(i) ==
    /\ req[i].step = "commit"
    /\ LET q    == req[i].queue
           mine == {k \in Keys : job[q][k] # None /\ job[q][k].by = i}
           says == IF "found" \in DOMAIN req[i]
                   THEN {[queue |-> q, key |-> Head(req[i].keys), by |-> req[i].found]}
                   ELSE {[queue |-> q, key |-> k, by |-> i] : k \in mine}
       IN  /\ job' = [job EXCEPT ![q] = [k \in Keys |-> IF k \in mine
                          THEN [job[q][k] EXCEPT !.kept = TRUE] ELSE job[q][k]]]
           /\ told' \in {told, told \cup says}
    /\ End(i)
    /\ UNCHANGED <<tenants, config>>

\* Faulty variant of Rollback: the statements were not in one transaction.
RollbackNothing(i) ==
    /\ req[i].step \in {"insert", "existing", "commit"}
    /\ End(i)
    /\ UNCHANGED <<tenants, config, jobsVars>>

\* An error, a lost connection, or the victim of two batches that wait for each other.
Rollback(i) ==
    /\ req[i].step \in {"insert", "existing", "commit"}
    /\ LET q == req[i].queue IN
       job' = [job EXCEPT ![q] = [k \in Keys |->
                  IF job[q][k] # None /\ job[q][k].by = i THEN None ELSE job[q][k]]]
    /\ End(i)
    /\ UNCHANGED <<tenants, config, told>>

-----------------------------------------------------------------------------
\* DELETE /projects/:projectId cascades; it waits for the transactions that have
\* inserted rows of its queues.
OpenOn(p) == \E i \in Requests : /\ req[i].step \in {"insert", "commit"}
                                 /\ ProjectOf[req[i].queue] = p
                                 /\ \/ req[i].many
                                    \/ \E k \in Keys : /\ job[req[i].queue][k] # None
                                                       /\ job[req[i].queue][k].by = i

DropProject(i) ==
    /\ req[i].step = "drop" /\ ~OpenOn(req[i].project)
    /\ LET p == req[i].project  ours == {x \in Policies \cup Queues : ProjectOf[x] = p} IN
       /\ project' = [project EXCEPT ![p] = "gone"]
       /\ policy' = [r \in Policies |-> IF r \in ours THEN [policy[r] EXCEPT !.row = "gone"]
                                                      ELSE policy[r]]
       /\ queue' = [q \in Queues |-> IF q \in ours THEN [row |-> "gone", policy |-> None]
                                                   ELSE queue[q]]
       /\ job' = [q \in Queues |-> IF q \in ours THEN [k \in Keys |-> None] ELSE job[q]]
    /\ End(i)
    /\ UNCHANGED <<users, role, apiKey, told>>

SubmissionAsks(i) ==
    \/ \E c \in users, r \in Policies :
          \/ \E b, m \in Delays : CreatePolicyAsk(i, c, r, b, m)
          \/ \E b, m \in Delays \cup {None} : PatchPolicyAsk(i, c, r, b, m)
          \/ DeletePolicyAsk(i, c, r)
    \/ \E c \in users, q \in Queues, r \in Policies \cup {None} : QueueAsk(i, c, q, r)
    \/ \E c \in Callers, q \in Queues :
          \/ \E k \in Keys, r \in Policies \cup {None} : SubmitAsk(i, c, q, <<k>>, {r}, FALSE)
          \/ \E ks \in Inputs : \E f \in [DOMAIN ks -> Policies \cup {None}] :
                SubmitAsk(i, c, q, ks, {f[n] : n \in DOMAIN ks}, TRUE)

SubmissionNext ==
    \E i \in Requests :
        \/ req[i].step = "new" /\ SubmissionAsks(i)
        \/ CreatePolicy(i) \/ PatchPolicy(i) \/ DeletePolicy(i)
        \/ AssertPolicy(i) \/ WriteQueue(i)
        \/ CheckPolicyOverride(i) \/ Resolve(i) \/ Insert(i) \/ Existing(i)
        \/ Commit(i) \/ Rollback(i) \/ DropProject(i)

Init == TenancyInit /\ SubmissionInit
Next == (TenancyNext /\ UNCHANGED <<config, jobsVars>>) \/ SubmissionNext
Spec == Init /\ [][Next]_vars

-----------------------------------------------------------------------------
\* Properties.

TypeOK == TenancyTypeOK /\ SubmissionTypeOK

\* DELETE never removes the row of an owner, although it looks at the role first and
\* deletes later, while other admins change roles (orgs.ts:101-111): nobody becomes an
\* owner in between.
OwnerRowStays ==
    [][\A o, u \in Users : role[o][u] = "owner" => role'[o][u] # None]_vars

\* The policy of a queue exists and is of the queue's own project, whatever is deleted
\* between the assertion and the write (queues.ts:58, 99).
ConfigIsSound ==
    \A q \in Queues : queue[q].row = "live" /\ queue[q].policy # None =>
        Live(queue[q].policy) /\ ProjectOf[queue[q].policy] = ProjectOf[q]

\* A job's snapshot is of a policy of its own project or the platform default, and each
\* delay that follows from it stays within its cap and 15 percent (retry.ts:47 caps
\* before the jitter) and is not below the base by more.
SnapshotIsSound ==
    \A q \in Queues, k \in Keys : job[q][k] # None =>
        LET s == job[q][k].snap IN
        /\ s.policy # None => ProjectOf[s.policy] = ProjectOf[q]
        /\ \A st \in Strategies, n \in 1..3, spin \in {0, Spins - 1} :
               LET d == Backoff([strategy |-> st, base |-> s.base, max |-> s.max, jitter |-> TRUE],
                                n, spin)
               IN  100 * d <= 115 * s.max + 50 /\ 100 * d >= 85 * s.base - 50

\* A key that was answered with a job, at the first submission or at a repeated one, by a
\* batch or alone, names the one job that has it, for as long as its queue exists; and
\* of a request that failed no job stays.
SubmittedOnce ==
    /\ \A t \in told : queue[t.queue].row = "live" =>
           job[t.queue][t.key] # None /\ job[t.queue][t.key].kept /\ job[t.queue][t.key].by = t.by
    /\ \A q \in Queues, k \in Keys :
           job[q][k] # None /\ ~job[q][k].kept => req[job[q][k].by].step \in {"insert", "commit"}
=============================================================================
