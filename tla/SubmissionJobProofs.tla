------------------------- MODULE SubmissionJobProofs -------------------------
(***************************************************************************)
(* The jobs that are submitted, for every set of requests, keys, queues    *)
(* and batches: one job per idempotency key (SubmittedOnce), with a sound  *)
(* retry snapshot (SnapshotIsSound), and the type invariant.               *)
(*                                                                         *)
(* What an answer says of a key is read in one step and told in a later    *)
(* one.  Owned says whose an uncommitted job is, so that only the commit   *)
(* and the rollback of its own request touch it; Named says what stays     *)
(* true of a committed one until its queue goes.                           *)
(*                                                                         *)
(* A snapshot is taken from what three earlier steps have read: the        *)
(* policy of the queue's row, the project of the override and, by another  *)
(* request, the delays a PATCH has merged.  ReqSound says what each of     *)
(* them still knows when it writes.                                        *)
(***************************************************************************)
EXTENDS SubmissionProofs, FiniteSetTheorems

KeyLists == Seq(Keys) \ {<<>>}
Asked1   == [step : {"check", "resolve"}, queue : Queues, keys : KeyLists, many : BOOLEAN,
             policies : SUBSET (Policies \cup {None}), default : Policies \cup {None}]
Opened   == [step : {"insert", "existing", "commit"}, queue : Queues, keys : KeyLists,
             left : Seq(Keys), many : BOOLEAN, snaps : SUBSET Snapshots]
Found    == [step : {"commit"}, queue : Queues, keys : KeyLists, many : BOOLEAN,
             found : Requests \cup {None}]
JobSteps == {"check", "resolve", "insert", "existing", "commit"}

\* What the requests that submit jobs hold, by their step.
JobShape(r) ==
    /\ "step" \in DOMAIN r
    /\ r.step \in {"check", "resolve"} => r \in Asked1 /\ (~r.many => Len(r.keys) = 1)
    /\ r.step = "insert" =>
           r \in Opened /\ r.left # <<>> /\ (~r.many => r.left = r.keys /\ Len(r.keys) = 1)
    /\ r.step = "existing" => r \in Opened /\ r.left = r.keys
    /\ r.step = "commit" => r \in Opened \/ r \in Found

\* The committed job of a key stays, and stays the one its answers name, while there is
\* the queue; a queue that is gone never comes back.
Settled(q, k) ==
    queue[q].row # "free" /\ (queue[q].row = "live" => job[q][k] # None /\ job[q][k].kept)
Named(q, k, b) == Settled(q, k) /\ (queue[q].row = "live" => job[q][k].by = b)

ReqOk(r) ==
    /\ JobShape(r)
    /\ r.step \in JobSteps => queue[r.queue].row # "free"
    /\ r.step = "existing" => Settled(r.queue, Head(r.keys))
    /\ r.step = "commit" /\ r \in Found => Named(r.queue, Head(r.keys), r.found)

\* A committed job's request is over; an uncommitted job's is in its transaction.
Owned(q, k) ==
    job[q][k] # None =>
        /\ queue[q].row = "live"
        /\ job[q][k].kept => req[job[q][k].by].step = "over"
        /\ ~job[q][k].kept =>
               LET r == req[job[q][k].by] IN
               /\ r \in Opened /\ r.queue = q
               /\ r.step = "commit" \/ (r.step = "insert" /\ r.many)

\* The inductive invariant, together with ReqsInv and RowsInv.
JobsInv ==
    /\ job \in [Queues -> [Keys -> {None} \cup JobRows]]
    /\ told \subseteq [queue : Queues, key : Keys, by : Requests \cup {None}]
    /\ \A i \in Requests : ReqOk(req[i])
    /\ \A q \in Queues, k \in Keys : Owned(q, k)
    /\ \A t \in told : Named(t.queue, t.key, t.by)

\* What every step keeps of the facts above.
Keeps ==
    /\ \A q \in Queues : queue[q].row # "free" => queue'[q].row # "free"
    /\ \A q \in Queues : queue'[q].row = "live" /\ queue[q].row # "free" => queue[q].row = "live"
    /\ \A q \in Queues, k \in Keys :
           queue'[q].row = "live" /\ job[q][k] # None /\ job[q][k].kept => job'[q][k] = job[q][k]

LEMMA NamedKept ==
    ASSUME Keeps
    PROVE  \A q \in Queues, k \in Keys : /\ Settled(q, k) => Settled(q, k)'
                                         /\ \A b : Named(q, k, b) => Named(q, k, b)'
BY DEF Keeps, Settled, Named

LEMMA TailsAreKeys ==
    ASSUME NEW ks \in Seq(Keys), ks # <<>>, Len(ks) # 1
    PROVE  Tail(ks) \in Seq(Keys) /\ Tail(ks) # <<>>
<1>1. Len(ks) \in Nat /\ Len(ks) # 0
  OBVIOUS
<1>2. Tail(ks) \in Seq(Keys) /\ Len(Tail(ks)) = Len(ks) - 1
  BY <1>1
<1>3. Len(Tail(ks)) # 0 /\ Len(<<>>) = 0
  BY <1>1, <1>2
<1>4. Tail(ks) # <<>>
  BY <1>3, Zenon
<1> QED BY <1>2, <1>4

LEMMA HeadsAreKeys ==
    ASSUME NEW ks \in KeyLists
    PROVE  Head(ks) \in Keys
BY DEF KeyLists

LEMMA OthersOk ==
    ASSUME Keeps, NEW r, ReqOk(r)
    PROVE  ReqOk(r)'
<1>1. r.step \in JobSteps => r.queue \in Queues /\ r.keys \in KeyLists
  BY DEF ReqOk, JobShape, JobSteps, Asked1, Opened, Found
<1>2. r.step \in JobSteps => r.queue \in Queues /\ Head(r.keys) \in Keys
  BY <1>1, HeadsAreKeys
<1>3. r.step \in JobSteps => queue'[r.queue].row # "free"
  BY <1>2 DEF ReqOk, Keeps
<1>4. r.step = "existing" => Settled(r.queue, Head(r.keys))'
  BY <1>2, NamedKept DEF ReqOk, JobSteps
<1>5. r.step = "commit" /\ r \in Found => Named(r.queue, Head(r.keys), r.found)'
  BY <1>2, NamedKept DEF ReqOk, JobSteps
<1> QED BY <1>3, <1>4, <1>5 DEF ReqOk

\* A request goes on to r while the jobs and what was told of them stay; it has no
\* uncommitted job, or r is in its transaction still.
LEMMA JobGoesOn ==
    ASSUME ReqsInv, JobsInv, Keeps, NEW i \in Requests, NEW r,
           req' = [req EXCEPT ![i] = r], UNCHANGED <<job, told>>,
           \A q \in Queues, k \in Keys : job[q][k] # None => queue'[q].row = "live",
           \/ req[i].step \notin {"insert", "commit", "over"}
           \/ req[i].step = "insert" /\ (~req[i].many \/ queue[req[i].queue].row # "live")
           \/ r \in Opened /\ r.queue = req[i].queue /\ req[i].step = "insert"
                 /\ (r.step = "commit" \/ (r.step = "insert" /\ r.many)),
           ReqOk(r)'
    PROVE  JobsInv'
<1>1. \A x \in Requests : req'[x] = IF x = i THEN r ELSE req[x]
  BY DEF ReqsInv
<1>2. ASSUME NEW x \in Requests PROVE ReqOk(req[x])'
  <2>1. CASE x = i
    <3>1. req'[x] = r
      BY <1>1, <2>1
    <3> QED BY <3>1 DEF ReqOk
  <2>2. CASE x # i
    <3>1. req'[x] = req[x] /\ ReqOk(req[x])
      BY <1>1, <2>2 DEF JobsInv
    <3>2. ReqOk(req[x]) => \A y : y = req[x] => ReqOk(y)'
      BY OthersOk
    <3> QED BY <3>1, <3>2 DEF ReqOk
  <2> QED BY <2>1, <2>2
<1>3. ASSUME NEW q \in Queues, NEW k \in Keys PROVE Owned(q, k)'
  <2> SUFFICES ASSUME job[q][k] # None PROVE Owned(q, k)'
    BY DEF Owned
  <2>1. job[q][k] \in JobRows /\ Owned(q, k) /\ job'[q][k] = job[q][k] /\ queue'[q].row = "live"
    BY DEF JobsInv
  <2>2. job[q][k].by \in Requests /\ job[q][k].kept \in BOOLEAN
    BY <2>1 DEF JobRows
  <2>3. CASE job[q][k].by # i
    BY <1>1, <2>1, <2>2, <2>3 DEF Owned
  <2>4. CASE job[q][k].by = i
    <3>1. ~job[q][k].kept /\ req[i].step # "over"
      BY <2>1, <2>2, <2>4 DEF Owned
    <3>2. /\ r \in Opened /\ r.queue = q
          /\ r.step = "commit" \/ (r.step = "insert" /\ r.many)
      BY <2>1, <2>4, <3>1 DEF Owned
    <3> QED BY <1>1, <2>1, <2>4, <3>1, <3>2 DEF Owned
  <2> QED BY <2>3, <2>4
<1>4. \A t \in told : t.queue \in Queues /\ t.key \in Keys
  BY DEF JobsInv
<1>5. \A t \in told : Named(t.queue, t.key, t.by)'
  BY <1>4, NamedKept DEF JobsInv
<1> QED BY <1>2, <1>3, <1>5 DEF JobsInv

\* The same for the requests that do not submit jobs.
LEMMA JobElsewhere ==
    ASSUME ReqsInv, JobsInv, Keeps, NEW i \in Requests, NEW r,
           req' = [req EXCEPT ![i] = r], UNCHANGED <<job, told>>,
           \A q \in Queues, k \in Keys : job[q][k] # None => queue'[q].row = "live",
           \/ req[i].step \notin {"insert", "commit", "over"}
           \/ req[i].step = "insert" /\ (~req[i].many \/ queue[req[i].queue].row # "live"),
           "step" \in DOMAIN r, r.step \notin JobSteps
    PROVE  JobsInv'
<1>1. ReqOk(r)'
  BY DEF ReqOk, JobShape, JobSteps
<1> QED BY <1>1, JobGoesOn

LEMMA KeepsSame ==
    ASSUME UNCHANGED <<queue, job>>
    PROVE  Keeps
BY DEF Keeps

LEMMA LiveJobs ==
    ASSUME JobsInv
    PROVE  \A q \in Queues, k \in Keys : job[q][k] # None => queue[q].row = "live"
BY DEF JobsInv, Owned

\* A request that leaves queues and jobs alone, and does not submit.
LEMMA JobAside ==
    ASSUME ReqsInv, JobsInv, UNCHANGED <<queue, job, told>>, NEW i \in Requests, NEW r,
           req' = [req EXCEPT ![i] = r], req[i].step \notin {"insert", "commit", "over"},
           "step" \in DOMAIN r, r.step \notin JobSteps
    PROVE  JobsInv'
BY KeepsSame, LiveJobs, JobElsewhere

LEMMA JobEnds ==
    ASSUME ReqsInv, JobsInv, UNCHANGED <<queue, job, told>>, NEW i \in Requests, End(i),
           req[i].step \notin {"insert", "commit", "over"}
    PROVE  JobsInv'
<1>1. "step" \in DOMAIN Over /\ Over.step \notin JobSteps
  BY DEF Over, JobSteps
<1> QED BY <1>1, JobAside DEF End

LEMMA OnceTenancy ==
    ASSUME ReqsInv, JobsInv, TenancyNext, UNCHANGED <<config, jobsVars>>
    PROVE  JobsInv'
<1>0. UNCHANGED <<queue, job, told>>
  BY DEF config, jobsVars
<1>1. ASSUME NEW i \in Requests, NEW u, RegisterAsk(i, u)
      PROVE  JobsInv'
  <2> DEFINE r == [step |-> "register", user |-> u]
  <2>1. "step" \in DOMAIN r /\ r.step \notin JobSteps /\ req' = [req EXCEPT ![i] = r]
        /\ req[i].step = "new"
    BY <1>1 DEF RegisterAsk, Ask, JobSteps
  <2> HIDE DEF r
  <2> QED BY <1>0, <2>1, JobAside
<1>2. ASSUME NEW i \in Requests, NEW c, NEW o, NEW u, NEW x, AddMemberAsk(i, c, o, u, x)
      PROVE  JobsInv'
  <2> DEFINE r == [step |-> "member", org |-> o, user |-> u, role |-> x]
  <2>1. "step" \in DOMAIN r /\ r.step \notin JobSteps /\ req' = [req EXCEPT ![i] = r]
        /\ req[i].step = "new"
    BY <1>2 DEF AddMemberAsk, Ask, JobSteps
  <2> HIDE DEF r
  <2> QED BY <1>0, <2>1, JobAside
<1>3. ASSUME NEW i \in Requests, NEW c, NEW o, NEW u, RemoveMemberAsk(i, c, o, u)
      PROVE  JobsInv'
  <2> DEFINE r == [step |-> "target", org |-> o, user |-> u]
  <2>1. "step" \in DOMAIN r /\ r.step \notin JobSteps /\ req' = [req EXCEPT ![i] = r]
        /\ req[i].step = "new"
    BY <1>3 DEF RemoveMemberAsk, Ask, JobSteps
  <2> HIDE DEF r
  <2> QED BY <1>0, <2>1, JobAside
<1>4. ASSUME NEW i \in Requests, NEW c, NEW p, NEW w \in {"project", "drop", "rotate"},
             ProjectAsk(i, c, p, w)
      PROVE  JobsInv'
  <2> DEFINE r == [step |-> w, project |-> p]
  <2>1. "step" \in DOMAIN r /\ r.step \notin JobSteps /\ req' = [req EXCEPT ![i] = r]
        /\ req[i].step = "new"
    BY <1>4 DEF ProjectAsk, Ask, JobSteps
  <2> HIDE DEF r
  <2> QED BY <1>0, <2>1, JobAside
<1>5. ASSUME NEW i \in Requests, TenancyAsks(i)
      PROVE  JobsInv'
  BY <1>1, <1>2, <1>3, <1>4, <1>5 DEF TenancyAsks
<1>6. ASSUME NEW i \in Requests,
             \/ Register(i) \/ AddMember(i) \/ RemoveMember(i) \/ CreateProject(i) \/ RotateKey(i)
      PROVE  JobsInv'
  BY <1>0, <1>6, JobEnds DEF Register, AddMember, RemoveMember, CreateProject, RotateKey
<1>7. ASSUME NEW i \in Requests, RemoveMemberRead(i)
      PROVE  JobsInv'
  <2>1. req[i].step = "target" /\ "step" \in DOMAIN req[i]
    BY <1>7 DEF RemoveMemberRead, ReqsInv, ConfigShape
  <2>2. CASE End(i)
    BY <1>0, <2>1, <2>2, JobEnds
  <2>3. CASE Turn(i, [req[i] EXCEPT !.step = "delete"])
    <3> DEFINE r == [req[i] EXCEPT !.step = "delete"]
    <3>1. "step" \in DOMAIN r /\ r.step \notin JobSteps /\ req' = [req EXCEPT ![i] = r]
      BY <2>1, <2>3 DEF Turn, JobSteps
    <3> HIDE DEF r
    <3> QED BY <1>0, <2>1, <3>1, JobAside
  <2> QED BY <1>7, <2>2, <2>3 DEF RemoveMemberRead
<1> QED BY <1>5, <1>6, <1>7 DEF TenancyNext

\* The steps of Submission that leave jobs alone.
LEMMA OnceAsks ==
    ASSUME ReqsInv, RowsInv, JobsInv, NEW i \in Requests, SubmissionAsks(i)
    PROVE  JobsInv'
<1>1. ASSUME NEW c, NEW p, NEW b, NEW m, CreatePolicyAsk(i, c, p, b, m)
      PROVE  JobsInv'
  <2> DEFINE r == [step |-> "policy", policy |-> p, base |-> b, max |-> m]
  <2>1. "step" \in DOMAIN r /\ r.step \notin JobSteps /\ req' = [req EXCEPT ![i] = r]
        /\ req[i].step = "new" /\ UNCHANGED <<queue, job, told>>
    BY <1>1 DEF CreatePolicyAsk, Ask, JobSteps, config, jobsVars
  <2> HIDE DEF r
  <2> QED BY <2>1, JobAside
<1>2. ASSUME NEW c, NEW p, NEW b, NEW m, PatchPolicyAsk(i, c, p, b, m)
      PROVE  JobsInv'
  <2> DEFINE r == [step |-> "merge", policy |-> p,
                   base |-> IF b = None THEN policy[p].base ELSE b,
                   max |-> IF m = None THEN policy[p].max ELSE m]
  <2>1. "step" \in DOMAIN r /\ r.step \notin JobSteps /\ req' = [req EXCEPT ![i] = r]
        /\ req[i].step = "new" /\ UNCHANGED <<queue, job, told>>
    BY <1>2 DEF PatchPolicyAsk, Ask, JobSteps, config, jobsVars
  <2> HIDE DEF r
  <2> QED BY <2>1, JobAside
<1>3. ASSUME NEW c, NEW p, DeletePolicyAsk(i, c, p)
      PROVE  JobsInv'
  <2> DEFINE r == [step |-> "forget", policy |-> p]
  <2>1. "step" \in DOMAIN r /\ r.step \notin JobSteps /\ req' = [req EXCEPT ![i] = r]
        /\ req[i].step = "new" /\ UNCHANGED <<queue, job, told>>
    BY <1>3 DEF DeletePolicyAsk, Ask, JobSteps, config, jobsVars
  <2> HIDE DEF r
  <2> QED BY <2>1, JobAside
<1>4. ASSUME NEW c, NEW q, NEW p, QueueAsk(i, c, q, p)
      PROVE  JobsInv'
  <2> DEFINE r == [step |-> "assert", queue |-> q, policy |-> p, row |-> queue[q].row]
  <2>1. "step" \in DOMAIN r /\ r.step \notin JobSteps /\ req' = [req EXCEPT ![i] = r]
        /\ req[i].step = "new" /\ UNCHANGED <<queue, job, told>>
    BY <1>4 DEF QueueAsk, Ask, JobSteps, config, jobsVars
  <2> HIDE DEF r
  <2> QED BY <2>1, JobAside
<1>5. ASSUME NEW c, NEW q \in Queues, NEW ks \in KeyLists, NEW rs \in SUBSET (Policies \cup {None}),
             NEW many \in BOOLEAN, ~many => Len(ks) = 1, SubmitAsk(i, c, q, ks, rs, many)
      PROVE  JobsInv'
  <2>0. PICK r : r = [step |-> "check", queue |-> q, keys |-> ks, many |-> many, policies |-> rs,
                      default |-> queue[q].policy]
    OBVIOUS
  <2>1. req' = [req EXCEPT ![i] = r] /\ req[i].step = "new" /\ UNCHANGED <<queue, job, told>>
        /\ queue[q].row = "live" /\ queue[q].policy \in Policies \cup {None}
    BY <1>5, <2>0 DEF SubmitAsk, Ask, config, jobsVars, RowsInv
  <2>2. r \in Asked1 /\ r.step = "check" /\ r.queue = q /\ r.keys = ks /\ r.many = many
    BY <2>0, <2>1 DEF Asked1
  <2>3. JobShape(r)
    BY <1>5, <2>2 DEF JobShape, Asked1
  <2>4. ReqOk(r)'
    BY <2>1, <2>2, <2>3 DEF ReqOk
  <2> QED BY <2>1, <2>4, KeepsSame, LiveJobs, JobGoesOn
<1>6. CASE \E c \in users, r \in Policies :
              \/ \E b, m \in Delays : CreatePolicyAsk(i, c, r, b, m)
              \/ \E b, m \in Delays \cup {None} : PatchPolicyAsk(i, c, r, b, m)
              \/ DeletePolicyAsk(i, c, r)
  BY <1>1, <1>2, <1>3, <1>6
<1>7. CASE \E c \in users, q \in Queues, r \in Policies \cup {None} : QueueAsk(i, c, q, r)
  BY <1>4, <1>7
<1>8. ASSUME NEW c \in Callers, NEW q \in Queues,
             \/ \E k \in Keys, r \in Policies \cup {None} : SubmitAsk(i, c, q, <<k>>, {r}, FALSE)
             \/ \E ks \in Inputs : \E f \in [DOMAIN ks -> Policies \cup {None}] :
                   SubmitAsk(i, c, q, ks, {f[n] : n \in DOMAIN ks}, TRUE)
      PROVE  JobsInv'
  <2>1. \A k \in Keys : <<k>> \in KeyLists /\ Len(<<k>>) = 1
    BY DEF KeyLists
  <2>2. Inputs \subseteq KeyLists
    BY SubmissionAssumption DEF KeyLists
  <2>3. \A ks : \A f \in [DOMAIN ks -> Policies \cup {None}] :
           {f[n] : n \in DOMAIN ks} \in SUBSET (Policies \cup {None})
    OBVIOUS
  <2>4. \A r \in Policies \cup {None} : {r} \in SUBSET (Policies \cup {None})
    OBVIOUS
  <2> QED BY <1>5, <1>8, <2>1, <2>2, <2>3, <2>4
<1> QED BY <1>6, <1>7, <1>8 DEF SubmissionAsks

LEMMA OnceConfig ==
    ASSUME ReqsInv, RowsInv, JobsInv, NEW i \in Requests,
           \/ CreatePolicy(i) \/ PatchPolicy(i) \/ DeletePolicy(i)
           \/ AssertPolicy(i) \/ WriteQueue(i)
    PROVE  JobsInv'
<1>0. "step" \in DOMAIN Over /\ Over.step \notin JobSteps
  BY DEF Over, JobSteps
<1>1. CASE CreatePolicy(i) \/ PatchPolicy(i)
  BY <1>1, JobEnds DEF CreatePolicy, PatchPolicy, jobsVars
<1>2. CASE DeletePolicy(i)
  <2>1. \A q \in Queues : queue'[q].row = queue[q].row
    BY <1>2 DEF DeletePolicy, RowsInv
  <2>2. UNCHANGED <<job, told>> /\ End(i) /\ req[i].step = "forget"
    BY <1>2 DEF DeletePolicy, jobsVars
  <2>3. Keeps
    BY <2>1, <2>2 DEF Keeps
  <2> QED BY <1>0, <2>1, <2>2, <2>3, LiveJobs, JobElsewhere DEF End
<1>3. CASE AssertPolicy(i)
  <2>1. req[i].step = "assert" /\ "step" \in DOMAIN req[i] /\ UNCHANGED <<queue, job, told>>
    BY <1>3 DEF AssertPolicy, ReqsInv, ConfigShape, config, jobsVars
  <2>2. CASE End(i)
    BY <2>1, <2>2, JobEnds
  <2>3. CASE Turn(i, [req[i] EXCEPT !.step = "queue"])
    <3> DEFINE r == [req[i] EXCEPT !.step = "queue"]
    <3>1. "step" \in DOMAIN r /\ r.step \notin JobSteps /\ req' = [req EXCEPT ![i] = r]
      BY <2>1, <2>3 DEF Turn, JobSteps
    <3> HIDE DEF r
    <3> QED BY <2>1, <3>1, JobAside
  <2> QED BY <1>3, <2>2, <2>3 DEF AssertPolicy
<1>4. CASE WriteQueue(i)
  <2>1. req[i] \in [step : {"assert", "queue"}, queue : Queues, policy : Policies \cup {None},
                    row : Rows \ {"gone"}]
    BY <1>4 DEF WriteQueue, ReqsInv, ConfigShape
  <2>2. \A q \in Queues : \/ queue'[q] = queue[q]
                          \/ queue[q].row # "gone" /\ queue'[q].row = "live"
    BY <1>4, <2>1 DEF WriteQueue, RowsInv
  <2>3. UNCHANGED <<job, told>> /\ End(i) /\ req[i].step = "queue"
    BY <1>4 DEF WriteQueue, jobsVars
  <2>4. \A q \in Queues : queue[q].row \in {"free", "live", "gone"}
    BY DEF RowsInv, Rows
  <2>5. Keeps
    BY <2>2, <2>3, <2>4 DEF Keeps
  <2>6. \A q \in Queues, k \in Keys : job[q][k] # None => queue'[q].row = "live"
    BY <2>2, LiveJobs
  <2> QED BY <1>0, <2>3, <2>5, <2>6, JobElsewhere DEF End
<1> QED BY <1>1, <1>2, <1>3, <1>4

\* The queues of the project go with their jobs; the others keep theirs.
LEMMA OnceDropped ==
    ASSUME ReqsInv, RowsInv, JobsInv, NEW i \in Requests, DropProject(i)
    PROVE  JobsInv'
<1> DEFINE ours == {x \in Policies \cup Queues : ProjectOf[x] = req[i].project}
<1>1. /\ req[i].step = "drop" /\ req' = [req EXCEPT ![i] = Over] /\ told' = told
      /\ \A q \in Queues : queue'[q] = IF q \in ours THEN [row |-> "gone", policy |-> None]
                                        ELSE queue[q]
      /\ job' = [q \in Queues |-> IF q \in ours THEN [k \in Keys |-> None] ELSE job[q]]
  BY DEF DropProject, End
<1> HIDE DEF ours
<1>2. \A q \in Queues, k \in Keys : job'[q][k] = IF q \in ours THEN None ELSE job[q][k]
  BY <1>1
<1>3. Keeps
  BY <1>1, <1>2 DEF Keeps
<1>4. \A x \in Requests : req'[x] = IF x = i THEN Over ELSE req[x]
  BY <1>1 DEF ReqsInv
<1>5. ReqOk(Over)' /\ Over.step = "over"
  BY DEF ReqOk, JobShape, JobSteps, Over
<1>6. ASSUME NEW x \in Requests PROVE ReqOk(req[x])'
  <2>1. CASE x = i
    <3>1. req'[x] = Over
      BY <1>4, <2>1
    <3> QED BY <1>5, <3>1 DEF ReqOk
  <2>2. CASE x # i
    <3>1. req'[x] = req[x] /\ ReqOk(req[x])
      BY <1>4, <2>2 DEF JobsInv
    <3>2. ReqOk(req[x]) => \A y : y = req[x] => ReqOk(y)'
      BY <1>3, OthersOk
    <3> QED BY <3>1, <3>2 DEF ReqOk
  <2> QED BY <2>1, <2>2
<1>7. ASSUME NEW q \in Queues, NEW k \in Keys PROVE Owned(q, k)'
  <2>1. CASE q \in ours \/ job[q][k] = None
    BY <1>2, <2>1 DEF Owned
  <2>2. CASE q \notin ours /\ job[q][k] # None
    <3>1. job'[q][k] = job[q][k] /\ queue'[q] = queue[q] /\ Owned(q, k)
          /\ job[q][k] \in JobRows
      BY <1>1, <1>2, <2>2 DEF JobsInv
    <3>2. job[q][k].by \in Requests /\ job[q][k].kept \in BOOLEAN
      BY <3>1 DEF JobRows
    <3>3. CASE job[q][k].by = i
      BY <1>1, <2>2, <3>1, <3>2, <3>3 DEF Owned
    <3>4. CASE job[q][k].by # i
      BY <1>4, <2>2, <3>1, <3>2, <3>4 DEF Owned
    <3> QED BY <3>3, <3>4
  <2> QED BY <2>1, <2>2
<1>8. \A t \in told' : Named(t.queue, t.key, t.by)'
  <2>1. \A t \in told : t.queue \in Queues /\ t.key \in Keys
    BY DEF JobsInv
  <2> QED BY <1>1, <1>3, <2>1, NamedKept DEF JobsInv
<1>9. job' \in [Queues -> [Keys -> {None} \cup JobRows]]
  BY <1>1 DEF JobsInv
<1> QED BY <1>1, <1>6, <1>7, <1>8, <1>9 DEF JobsInv

\* The steps of a submission before and after its inserts.
LEMMA OnceChecks ==
    ASSUME ReqsInv, RowsInv, JobsInv, NEW i \in Requests,
           CheckPolicyOverride(i) \/ Resolve(i) \/ Existing(i)
    PROVE  JobsInv'
<1>0. ReqOk(req[i]) /\ UNCHANGED <<queue, job, told>>
  BY DEF JobsInv, CheckPolicyOverride, Resolve, Existing, config, jobsVars
<1>1. CASE CheckPolicyOverride(i)
  <2>1. req[i].step = "check" /\ req[i] \in Asked1 /\ (~req[i].many => Len(req[i].keys) = 1)
        /\ queue[req[i].queue].row # "free"
    BY <1>0, <1>1 DEF CheckPolicyOverride, ReqOk, JobShape, JobSteps
  <2>2. CASE End(i)
    BY <1>0, <2>1, <2>2, JobEnds
  <2>3. CASE Turn(i, [req[i] EXCEPT !.step = "resolve"])
    <3>1. PICK r : r = [req[i] EXCEPT !.step = "resolve"]
      OBVIOUS
    <3>2. r \in Asked1 /\ r.step = "resolve" /\ r.queue = req[i].queue /\ r.keys = req[i].keys
          /\ r.many = req[i].many
      BY <2>1, <3>1 DEF Asked1
    <3>3. JobShape(r)
      BY <2>1, <3>2 DEF JobShape, Asked1
    <3>4. ReqOk(r)'
      BY <1>0, <2>1, <3>2, <3>3 DEF ReqOk
    <3>5. req' = [req EXCEPT ![i] = r]
      BY <2>3, <3>1 DEF Turn
    <3> QED BY <1>0, <2>1, <3>4, <3>5, KeepsSame, LiveJobs, JobGoesOn
  <2> QED BY <1>1, <2>2, <2>3 DEF CheckPolicyOverride
<1>2. CASE Resolve(i)
  <2>1. req[i].step = "resolve" /\ req[i] \in Asked1 /\ (~req[i].many => Len(req[i].keys) = 1)
        /\ queue[req[i].queue].row # "free"
    BY <1>0, <1>2 DEF Resolve, ReqOk, JobShape, JobSteps
  <2>2. CASE End(i)
    BY <1>0, <2>1, <2>2, JobEnds
  <2>3. ASSUME NEW ss \in SUBSET Snapshots,
               Turn(i, [step |-> "insert", queue |-> req[i].queue, keys |-> req[i].keys,
                        left |-> req[i].keys, many |-> req[i].many, snaps |-> ss])
        PROVE  JobsInv'
    <3>1. PICK r : r = [step |-> "insert", queue |-> req[i].queue, keys |-> req[i].keys,
                        left |-> req[i].keys, many |-> req[i].many, snaps |-> ss]
      OBVIOUS
    <3>2. r \in Opened /\ r.step = "insert" /\ r.queue = req[i].queue /\ r.keys = req[i].keys
          /\ r.left = r.keys /\ r.many = req[i].many /\ r.left # <<>>
      BY <2>1, <3>1 DEF Asked1, Opened, KeyLists
    <3>3. JobShape(r)
      BY <2>1, <3>2 DEF JobShape, Opened
    <3>4. ReqOk(r)'
      BY <1>0, <2>1, <3>2, <3>3 DEF ReqOk
    <3>5. req' = [req EXCEPT ![i] = r]
      BY <2>3, <3>1 DEF Turn
    <3> QED BY <1>0, <2>1, <3>4, <3>5, KeepsSame, LiveJobs, JobGoesOn
  <2>4. \A r : SnapshotOf(r) \in Snapshots
    BY DEF SnapshotOf, Live, RowsInv, Snapshots
  <2> QED BY <1>2, <2>2, <2>3, <2>4 DEF Resolve
<1>3. CASE Existing(i)
  <2>1. req[i].step = "existing" /\ req[i] \in Opened /\ req[i].left = req[i].keys
        /\ Settled(req[i].queue, Head(req[i].keys)) /\ queue[req[i].queue].row # "free"
    BY <1>0, <1>3 DEF Existing, ReqOk, JobShape, JobSteps
  <2>2. req[i].queue \in Queues /\ req[i].keys \in KeyLists /\ Head(req[i].keys) \in Keys
    BY <2>1, HeadsAreKeys DEF Opened
  <2>3. PICK row : row = job[req[i].queue][Head(req[i].keys)]
    OBVIOUS
  <2>4. row \in {None} \cup JobRows /\ (row # None => row.by \in Requests)
    BY <2>2, <2>3 DEF JobsInv, JobRows
  <2>5. PICK r : r = [step |-> "commit", queue |-> req[i].queue, keys |-> req[i].keys,
                      many |-> FALSE, found |-> IF row = None THEN None ELSE row.by]
    OBVIOUS
  <2>6. r \in Found /\ r.step = "commit" /\ r.queue = req[i].queue /\ r.keys = req[i].keys
        /\ (row # None => r.found = row.by)
    BY <2>2, <2>4, <2>5 DEF Found
  <2>7. JobShape(r)
    BY <2>6 DEF JobShape, Found
  <2>8. Named(r.queue, Head(r.keys), r.found)
    BY <2>1, <2>3, <2>6 DEF Named, Settled
  <2>9. ReqOk(r)'
    BY <1>0, <2>1, <2>2, <2>6, <2>7, <2>8, KeepsSame, NamedKept DEF ReqOk
  <2>10. req' = [req EXCEPT ![i] = r]
    BY <1>3, <2>1, <2>3, <2>5 DEF Existing, Turn
  <2> QED BY <1>0, <2>1, <2>9, <2>10, KeepsSame, LiveJobs, JobGoesOn
<1> QED BY <1>1, <1>2, <1>3

LEMMA RequestsStayOk ==
    ASSUME ReqsInv, JobsInv, Keeps, NEW i \in Requests, NEW r,
           req' = [req EXCEPT ![i] = r], ReqOk(r)'
    PROVE  \A x \in Requests : /\ ReqOk(req[x])'
                               /\ req'[x] = IF x = i THEN r ELSE req[x]
<1>1. \A x \in Requests : req'[x] = IF x = i THEN r ELSE req[x]
  BY DEF ReqsInv
<1>2. ASSUME NEW x \in Requests PROVE ReqOk(req[x])'
  <2>1. CASE x = i
    <3>1. req'[x] = r
      BY <1>1, <2>1
    <3> QED BY <3>1 DEF ReqOk
  <2>2. CASE x # i
    <3>1. req'[x] = req[x] /\ ReqOk(req[x])
      BY <1>1, <2>2 DEF JobsInv
    <3>2. ReqOk(req[x]) => \A y : y = req[x] => ReqOk(y)'
      BY OthersOk
    <3> QED BY <3>1, <3>2 DEF ReqOk
  <2> QED BY <2>1, <2>2
<1> QED BY <1>1, <1>2

\* What a request becomes when it has dealt with the key at the head.
LEMMA OnwardRequest ==
    ASSUME JobsInv, NEW i \in Requests, req[i].step = "insert", UNCHANGED queue, Onward(i)
    PROVE  \E r : /\ req' = [req EXCEPT ![i] = r] /\ ReqOk(r)'
                  /\ r \in Opened /\ r.queue = req[i].queue
                  /\ r.step = "commit" \/ (r.step = "insert" /\ r.many)
<1>1. ReqOk(req[i])
  BY DEF JobsInv
<1>2. req[i] \in Opened /\ req[i].left # <<>> /\ queue[req[i].queue].row # "free"
      /\ (~req[i].many => Len(req[i].left) = 1)
  BY <1>1 DEF ReqOk, JobShape, JobSteps
<1>3. CASE Len(req[i].left) = 1
  <2>1. PICK r : r = [req[i] EXCEPT !.step = "commit", !.left = <<>>]
    OBVIOUS
  <2>0. <<>> \in Seq(Keys)
    OBVIOUS
  <2>2. r \in Opened /\ r.step = "commit" /\ r.queue = req[i].queue
    BY <1>2, <2>0, <2>1 DEF Opened
  <2>3. r \notin Found
    BY <2>2 DEF Opened, Found
  <2>4. ReqOk(r)'
    BY <1>2, <2>2, <2>3 DEF ReqOk, JobShape, Opened
  <2>5. req' = [req EXCEPT ![i] = r]
    BY <1>3, <2>1 DEF Onward, Turn
  <2> QED BY <2>2, <2>4, <2>5
<1>4. CASE Len(req[i].left) # 1
  <2>1. PICK r : r = [req[i] EXCEPT !.left = Tail(req[i].left)]
    OBVIOUS
  <2>2. Tail(req[i].left) \in Seq(Keys) /\ Tail(req[i].left) # <<>>
    <3>1. req[i].left \in Seq(Keys)
      BY <1>2 DEF Opened
    <3> QED BY <1>2, <1>4, <3>1, TailsAreKeys
  <2>3. r \in Opened /\ r.step = "insert" /\ r.queue = req[i].queue /\ r.many
        /\ r.left # <<>>
    BY <1>2, <1>4, <2>1, <2>2 DEF Opened
  <2>4. ReqOk(r)'
    BY <1>2, <2>3 DEF ReqOk, JobShape, Opened
  <2>5. req' = [req EXCEPT ![i] = r]
    BY <1>4, <2>1 DEF Onward, Turn
  <2> QED BY <2>3, <2>4, <2>5
<1> QED BY <1>3, <1>4

\* A new row is its request's; the other two branches of Insert leave jobs alone.
LEMMA OnceInsert ==
    ASSUME ReqsInv, RowsInv, JobsInv, NEW i \in Requests, Insert(i)
    PROVE  JobsInv'
<1>1. req[i].step = "insert" /\ UNCHANGED <<queue, told>> /\ ReqOk(req[i])
  BY DEF Insert, JobsInv, config
<1>2. req[i] \in Opened /\ req[i].left # <<>> /\ queue[req[i].queue].row # "free"
      /\ (~req[i].many => req[i].left = req[i].keys /\ Len(req[i].keys) = 1)
  BY <1>1 DEF ReqOk, JobShape, JobSteps
<1>3. PICK q, k : q = req[i].queue /\ k = Head(req[i].left)
  OBVIOUS
<1>4. q \in Queues /\ k \in Keys
  <2>1. req[i].left \in KeyLists
    BY <1>2 DEF Opened, KeyLists
  <2> QED BY <1>2, <1>3, <2>1, HeadsAreKeys DEF Opened
<1>5. CASE /\ job[q][k] = None /\ queue[q].row = "live"
           /\ \E s \in req[i].snaps :
                 job' = [job EXCEPT ![q][k] = [by |-> i, snap |-> s, kept |-> FALSE]]
           /\ Onward(i)
  <2>1. PICK r : /\ req' = [req EXCEPT ![i] = r] /\ ReqOk(r)'
                 /\ r \in Opened /\ r.queue = q
                 /\ r.step = "commit" \/ (r.step = "insert" /\ r.many)
    BY <1>1, <1>3, <1>5, OnwardRequest
  <2>2. PICK row : /\ \E s \in req[i].snaps : row = [by |-> i, snap |-> s, kept |-> FALSE]
                   /\ job' = [job EXCEPT ![q][k] = row]
    BY <1>5
  <2>3. row \in JobRows /\ row.by = i /\ row.kept = FALSE
    BY <1>2, <2>2 DEF JobRows, Opened
  <2>4. job' \in [Queues -> [Keys -> {None} \cup JobRows]]
    BY <1>4, <2>2, <2>3 DEF JobsInv
  <2>5. \A x \in Queues, y \in Keys : job'[x][y] = IF x = q /\ y = k THEN row ELSE job[x][y]
    BY <1>4, <2>2 DEF JobsInv
  <2>6. Keeps
    BY <1>1, <1>5, <2>5 DEF Keeps
  <2>7. \A x \in Requests : ReqOk(req[x])' /\ req'[x] = IF x = i THEN r ELSE req[x]
    BY <2>1, <2>6, RequestsStayOk
  <2>8. ASSUME NEW x \in Queues, NEW y \in Keys PROVE Owned(x, y)'
    <3>1. CASE x = q /\ y = k
      BY <1>1, <1>5, <2>1, <2>3, <2>5, <2>7, <3>1 DEF Owned
    <3>2. CASE ~(x = q /\ y = k) /\ job[x][y] # None
      <4>1. job[x][y] \in JobRows /\ Owned(x, y) /\ job'[x][y] = job[x][y]
        BY <2>5, <3>2 DEF JobsInv
      <4>2. job[x][y].by \in Requests /\ job[x][y].kept \in BOOLEAN
        BY <4>1 DEF JobRows
      <4>3. CASE job[x][y].by # i
        BY <1>1, <2>7, <3>2, <4>1, <4>2, <4>3 DEF Owned
      <4>4. CASE job[x][y].by = i
        <5>1. ~job[x][y].kept /\ x = q
          BY <1>1, <1>3, <3>2, <4>1, <4>2, <4>4 DEF Owned
        <5> QED BY <1>1, <1>5, <2>1, <2>7, <4>1, <4>4, <5>1 DEF Owned
      <4> QED BY <4>3, <4>4
    <3>3. CASE ~(x = q /\ y = k) /\ job[x][y] = None
      BY <2>5, <3>3 DEF Owned
    <3> QED BY <3>1, <3>2, <3>3
  <2>9. \A t \in told : Named(t.queue, t.key, t.by)'
    <3>1. \A t \in told : t.queue \in Queues /\ t.key \in Keys
      BY DEF JobsInv
    <3> QED BY <2>6, <3>1, NamedKept DEF JobsInv
  <2> QED BY <1>1, <2>4, <2>7, <2>8, <2>9 DEF JobsInv
<1>6. CASE job[q][k] = None /\ queue[q].row # "live" /\ End(i) /\ UNCHANGED job
  <2>1. "step" \in DOMAIN Over /\ Over.step \notin JobSteps
    BY DEF Over, JobSteps
  <2> QED BY <1>1, <1>3, <1>6, <2>1, KeepsSame, LiveJobs, JobElsewhere DEF End
<1>7. CASE job[q][k] # None /\ req[i].many /\ Onward(i) /\ UNCHANGED job
  BY <1>1, <1>7, OnwardRequest, KeepsSame, LiveJobs, JobGoesOn
<1>8. CASE /\ job[q][k] # None /\ (job[q][k].kept \/ job[q][k].by = i) /\ ~req[i].many
           /\ Turn(i, [req[i] EXCEPT !.step = "existing"]) /\ UNCHANGED job
  <2>1. PICK r : r = [req[i] EXCEPT !.step = "existing"]
    OBVIOUS
  <2>2. r \in Opened /\ r.step = "existing" /\ r.left = r.keys /\ r.queue = q
        /\ Head(r.keys) = k
    BY <1>2, <1>3, <1>8, <2>1 DEF Opened
  <2>3. job[q][k].kept
    <3>1. Owned(q, k) /\ job[q][k] \in JobRows
      BY <1>4, <1>8 DEF JobsInv
    <3>2. job[q][k].kept \in BOOLEAN
      BY <3>1 DEF JobRows
    <3> QED BY <1>1, <1>8, <3>1, <3>2 DEF Owned
  <2>4. Settled(q, k)'
    BY <1>1, <1>2, <1>3, <1>8, <2>3 DEF Settled
  <2>5. JobShape(r)
    BY <2>2 DEF JobShape, Opened
  <2>6. Settled(r.queue, Head(r.keys))'
    BY <2>2, <2>4 DEF Settled
  <2>7. ReqOk(r)'
    BY <1>1, <1>2, <1>3, <2>2, <2>5, <2>6 DEF ReqOk
  <2>8. req' = [req EXCEPT ![i] = r]
    BY <1>8, <2>1 DEF Turn
  <2> QED BY <1>1, <1>8, <2>7, <2>8, KeepsSame, LiveJobs, JobGoesOn
<1> QED BY <1>3, <1>5, <1>6, <1>7, <1>8 DEF Insert

\* The end of a transaction touches the uncommitted jobs of its own request only.
LEMMA Mine ==
    ASSUME JobsInv, NEW i \in Requests, req[i].step \in {"insert", "existing", "commit"},
           NEW q \in Queues, NEW k \in Keys, job[q][k] # None, job[q][k].by = i
    PROVE  ~job[q][k].kept /\ q = req[i].queue
<1>1. Owned(q, k) /\ job[q][k] \in JobRows
  BY DEF JobsInv
<1>2. job[q][k].kept \in BOOLEAN
  BY <1>1 DEF JobRows
<1> QED BY <1>1, <1>2 DEF Owned

LEMMA OverIsOk ==
    ASSUME TRUE
    PROVE  ReqOk(Over)' /\ Over.step = "over"
BY DEF ReqOk, JobShape, JobSteps, Over

LEMMA OnceCommit ==
    ASSUME ReqsInv, RowsInv, JobsInv, NEW i \in Requests, Commit(i)
    PROVE  JobsInv'
<1>1. req[i].step = "commit" /\ UNCHANGED queue /\ ReqOk(req[i]) /\ req' = [req EXCEPT ![i] = Over]
  BY DEF Commit, JobsInv, config, End
<1>2. req[i] \in Opened \cup Found /\ queue[req[i].queue].row # "free"
  BY <1>1 DEF ReqOk, JobShape, JobSteps
<1>3. PICK q : q = req[i].queue
  OBVIOUS
<1>4. q \in Queues
  BY <1>2, <1>3 DEF Opened, Found
<1>5. PICK mine : mine = {k \in Keys : job[q][k] # None /\ job[q][k].by = i}
  OBVIOUS
<1>6. job' = [job EXCEPT ![q] = [k \in Keys |-> IF k \in mine
                  THEN [job[q][k] EXCEPT !.kept = TRUE] ELSE job[q][k]]]
  BY <1>3, <1>5 DEF Commit
<1>7. \A k \in mine : /\ k \in Keys /\ job[q][k] \in JobRows /\ job[q][k].by = i /\ job[q][k] # None
                      /\ [job[q][k] EXCEPT !.kept = TRUE] \in JobRows
                      /\ [job[q][k] EXCEPT !.kept = TRUE].by = i
                      /\ [job[q][k] EXCEPT !.kept = TRUE].kept
  <2>1. \A k \in mine : k \in Keys /\ job[q][k] \in JobRows /\ job[q][k].by = i /\ job[q][k] # None
    BY <1>4, <1>5 DEF JobsInv
  <2> QED BY <2>1 DEF JobRows
<1>8. \A x \in Queues, y \in Keys :
          job'[x][y] = IF x = q /\ y \in mine THEN [job[x][y] EXCEPT !.kept = TRUE] ELSE job[x][y]
  BY <1>4, <1>6 DEF JobsInv
<1>9. job' \in [Queues -> [Keys -> {None} \cup JobRows]]
  <2>1. [k \in Keys |-> IF k \in mine THEN [job[q][k] EXCEPT !.kept = TRUE] ELSE job[q][k]]
            \in [Keys -> {None} \cup JobRows]
    BY <1>4, <1>7 DEF JobsInv
  <2> QED BY <1>6, <2>1 DEF JobsInv
<1>10. \A x \in Queues, y \in Keys : job[x][y] # None /\ job[x][y].by = i => x = q /\ y \in mine
                                                                          /\ ~job[x][y].kept
  BY <1>1, <1>3, <1>5, Mine
<1>11. Keeps
  <2>1. \A x \in Queues, y \in Keys : job[x][y] # None /\ job[x][y].kept => ~(x = q /\ y \in mine)
    BY <1>7, <1>10
  <2> QED BY <1>1, <1>8, <2>1 DEF Keeps
<1>12. \A x \in Requests : ReqOk(req[x])' /\ req'[x] = IF x = i THEN Over ELSE req[x]
  BY <1>1, <1>11, OverIsOk, RequestsStayOk
<1>13. ASSUME NEW x \in Queues, NEW y \in Keys PROVE Owned(x, y)'
  <2>1. CASE job[x][y] = None
    <3>1. job'[x][y] = None
      BY <1>7, <1>8, <2>1
    <3> QED BY <3>1 DEF Owned
  <2>2. CASE job[x][y] # None
    <3>1. job[x][y] \in JobRows /\ Owned(x, y)
      BY <2>2 DEF JobsInv
    <3>2. job[x][y].by \in Requests /\ job[x][y].kept \in BOOLEAN
      BY <3>1 DEF JobRows
    <3>3. CASE job[x][y].by = i
      <4>1. job'[x][y].by = i /\ job'[x][y].kept
        <5>1. x = q /\ y \in mine
          BY <1>10, <2>2, <3>3
        <5>2. job'[x][y] = [job[q][y] EXCEPT !.kept = TRUE]
          BY <1>8, <5>1
        <5> QED BY <1>7, <5>1, <5>2
      <4> QED BY <1>1, <1>12, <2>2, <3>1, <4>1, OverIsOk DEF Owned
    <3>4. CASE job[x][y].by # i
      <4>1. job'[x][y] = job[x][y]
        BY <1>7, <1>8, <3>4
      <4> QED BY <1>1, <1>12, <2>2, <3>1, <3>2, <3>4, <4>1 DEF Owned
    <3> QED BY <3>3, <3>4
  <2> QED BY <2>1, <2>2
<1>14. \A t \in told : Named(t.queue, t.key, t.by)'
  <2>1. \A t \in told : t.queue \in Queues /\ t.key \in Keys
    BY DEF JobsInv
  <2> QED BY <1>11, <2>1, NamedKept DEF JobsInv
<1>15. ASSUME NEW t, t \in told', t \notin told
       PROVE  t \in [queue : Queues, key : Keys, by : Requests \cup {None}]
              /\ Named(t.queue, t.key, t.by)'
  <2>1. CASE "found" \in DOMAIN req[i]
    <3>1. PICK k, b : k = Head(req[i].keys) /\ b = req[i].found
      OBVIOUS
    <3>2. t = [queue |-> q, key |-> k, by |-> b]
      BY <1>3, <1>15, <2>1, <3>1 DEF Commit
    <3>3. req[i] \in Found
      BY <1>2, <2>1 DEF Opened
    <3>4. k \in Keys /\ b \in Requests \cup {None}
      BY <3>1, <3>3, HeadsAreKeys DEF Found
    <3>5. Named(q, k, b)
      BY <1>1, <1>3, <3>1, <3>3 DEF ReqOk
    <3>6. Named(q, k, b)'
      BY <1>4, <1>11, <3>4, <3>5, NamedKept
    <3>7. t.queue = q /\ t.key = k /\ t.by = b
      BY <3>2
    <3> QED BY <1>4, <3>2, <3>4, <3>6, <3>7 DEF Named, Settled
  <2>2. CASE "found" \notin DOMAIN req[i]
    <3>1. PICK k \in mine : t = [queue |-> q, key |-> k, by |-> i]
      BY <1>3, <1>5, <1>15, <2>2 DEF Commit
    <3>2. job'[q][k].kept /\ job'[q][k].by = i /\ job'[q][k] \in JobRows
      BY <1>4, <1>7, <1>8
    <3>3. job'[q][k] # None
      BY <3>2, JobRowsAssumption
    <3> QED BY <1>1, <1>2, <1>3, <1>4, <1>7, <3>1, <3>2, <3>3 DEF Named, Settled
  <2> QED BY <2>1, <2>2
<1>16. told' \subseteq [queue : Queues, key : Keys, by : Requests \cup {None}]
  BY <1>15 DEF JobsInv
<1>17. \A t \in told' : Named(t.queue, t.key, t.by)'
  BY <1>14, <1>15
<1> QED BY <1>9, <1>12, <1>13, <1>16, <1>17 DEF JobsInv

LEMMA OnceRollback ==
    ASSUME ReqsInv, RowsInv, JobsInv, NEW i \in Requests, Rollback(i)
    PROVE  JobsInv'
<1>1. /\ req[i].step \in {"insert", "existing", "commit"} /\ UNCHANGED <<queue, told>>
      /\ ReqOk(req[i]) /\ req' = [req EXCEPT ![i] = Over]
  BY DEF Rollback, JobsInv, config, End
<1>2. req[i] \in Opened \cup Found
  BY <1>1 DEF ReqOk, JobShape
<1>3. PICK q : q = req[i].queue
  OBVIOUS
<1>4. q \in Queues
  BY <1>2, <1>3 DEF Opened, Found
<1>5. job' = [job EXCEPT ![q] = [k \in Keys |->
                  IF job[q][k] # None /\ job[q][k].by = i THEN None ELSE job[q][k]]]
  BY <1>3 DEF Rollback
<1>6. \A x \in Queues, y \in Keys :
          job'[x][y] = IF x = q /\ job[x][y] # None /\ job[x][y].by = i THEN None ELSE job[x][y]
  BY <1>4, <1>5 DEF JobsInv
<1>7. job' \in [Queues -> [Keys -> {None} \cup JobRows]]
  BY <1>4, <1>5 DEF JobsInv
<1>8. \A x \in Queues, y \in Keys : job[x][y] # None /\ job[x][y].by = i => x = q /\ ~job[x][y].kept
  BY <1>1, <1>3, Mine
<1>9. Keeps
  BY <1>1, <1>6, <1>8 DEF Keeps
<1>10. \A x \in Requests : ReqOk(req[x])' /\ req'[x] = IF x = i THEN Over ELSE req[x]
  BY <1>1, <1>9, OverIsOk, RequestsStayOk
<1>11. ASSUME NEW x \in Queues, NEW y \in Keys PROVE Owned(x, y)'
  <2>1. CASE job'[x][y] = None
    BY <2>1 DEF Owned
  <2>2. CASE job'[x][y] # None
    <3>1. job'[x][y] = job[x][y] /\ job[x][y].by # i /\ job[x][y] # None
      BY <1>6, <1>8, <2>2
    <3>2. job[x][y] \in JobRows /\ Owned(x, y)
      BY <3>1 DEF JobsInv
    <3>3. job[x][y].by \in Requests /\ job[x][y].kept \in BOOLEAN
      BY <3>2 DEF JobRows
    <3> QED BY <1>1, <1>10, <3>1, <3>2, <3>3 DEF Owned
  <2> QED BY <2>1, <2>2
<1>12. \A t \in told : Named(t.queue, t.key, t.by)'
  <2>1. \A t \in told : t.queue \in Queues /\ t.key \in Keys
    BY DEF JobsInv
  <2> QED BY <1>9, <2>1, NamedKept DEF JobsInv
<1> QED BY <1>1, <1>7, <1>10, <1>11, <1>12 DEF JobsInv

LEMMA OnceInit == Init => JobsInv
<1> SUFFICES ASSUME Init PROVE JobsInv
  OBVIOUS
<1>1. \A i \in Requests : ReqOk(req[i])
  BY DEF Init, TenancyInit, Fresh, ReqOk, JobShape, JobSteps
<1>2. /\ job \in [Queues -> [Keys -> {None} \cup JobRows]] /\ told = {}
      /\ \A q \in Queues, k \in Keys : job[q][k] = None
  BY DEF Init, SubmissionInit
<1> QED BY <1>1, <1>2 DEF JobsInv, Owned

LEMMA OnceStep ==
    ASSUME ReqsInv, RowsInv, JobsInv, [Next]_vars
    PROVE  JobsInv'
<1>1. CASE TenancyNext /\ UNCHANGED <<config, jobsVars>>
  BY <1>1, OnceTenancy
<1>2. CASE SubmissionNext
  <2>1. PICK i \in Requests :
         \/ SubmissionAsks(i)
         \/ CreatePolicy(i) \/ PatchPolicy(i) \/ DeletePolicy(i)
         \/ AssertPolicy(i) \/ WriteQueue(i)
         \/ CheckPolicyOverride(i) \/ Resolve(i) \/ Insert(i) \/ Existing(i)
         \/ Commit(i) \/ Rollback(i) \/ DropProject(i)
    BY <1>2 DEF SubmissionNext
  <2> QED BY <2>1, OnceAsks, OnceConfig, OnceChecks, OnceInsert, OnceCommit, OnceRollback,
             OnceDropped
<1>3. CASE UNCHANGED vars
  <2>1. UNCHANGED <<req, queue, job, told>>
    BY <1>3 DEF vars, config, jobsVars
  <2> QED BY <2>1 DEF JobsInv, ReqOk, Owned, Named, Settled
<1> QED BY <1>1, <1>2, <1>3 DEF Next

\* Whatever requests interleave, repeat a key or fail, every answer about a key names the
\* one committed job of that key while its queue exists, and no job stays of a request
\* that failed (jobs.ts, createJob and createBatch).
THEOREM SubmittedOnceAlways == Spec => []SubmittedOnce
<1>1. Init => ReqsInv /\ RowsInv /\ JobsInv
  BY ConfigInit, OnceInit
<1>2. ReqsInv /\ RowsInv /\ JobsInv /\ [Next]_vars => ReqsInv' /\ RowsInv' /\ JobsInv'
  BY ConfigStep, OnceStep
<1>3. JobsInv => SubmittedOnce
  <2> SUFFICES ASSUME JobsInv PROVE SubmittedOnce
    OBVIOUS
  <2>1. ASSUME NEW t \in told, queue[t.queue].row = "live"
        PROVE  job[t.queue][t.key] # None /\ job[t.queue][t.key].kept /\ job[t.queue][t.key].by = t.by
    BY <2>1 DEF JobsInv, Named, Settled
  <2>2. ASSUME NEW q \in Queues, NEW k \in Keys, job[q][k] # None, ~job[q][k].kept
        PROVE  req[job[q][k].by].step \in {"insert", "commit"}
    BY <2>2 DEF JobsInv, Owned
  <2> QED BY <2>1, <2>2 DEF SubmittedOnce
<1> QED BY <1>1, <1>2, <1>3, PTL DEF Spec
-----------------------------------------------------------------------------
\* The steps that a request can be at, and what those hold that lead to a snapshot: a
\* pair of delays that were compared when the request came, a policy whose project was.
StepNames == {"new", "register", "member", "target", "delete", "project", "drop", "rotate",
              "policy", "merge", "forget", "assert", "queue", "config", "check", "resolve",
              "insert", "existing", "commit", "over"}
SoundSteps == {"policy", "merge", "check", "resolve", "insert"}

SnapSound(s, q) ==
    /\ s.base <= s.max
    /\ s.policy # None => ProjectOf[s.policy] = ProjectOf[q]

ReqSound(r) ==
    /\ r.step \in StepNames
    /\ r.step \in {"policy", "merge"} => r.base <= r.max
    /\ r.step \in {"check", "resolve"} /\ r.default # None =>
           ProjectOf[r.default] = ProjectOf[r.queue]
    /\ r.step = "resolve" =>
           \A x \in r.policies : x # None => ProjectOf[x] = ProjectOf[r.queue]
    /\ r.step = "insert" => \A s \in r.snaps : SnapSound(s, r.queue)

\* The inductive invariant of the snapshots, together with ReqsInv, RowsInv and JobsInv.
SoundInv ==
    /\ project \in [Projects -> Rows]
    /\ apiKey \in [Projects -> Nat]
    /\ \A r \in Policies : policy[r].base <= policy[r].max
    /\ \A i \in Requests : ReqSound(req[i])
    /\ \A q \in Queues, k \in Keys : job[q][k] # None => SnapSound(job[q][k].snap, q)

\* A request goes on to r; projects, policies and jobs stay.
LEMMA SoundReq ==
    ASSUME ReqsInv, SoundInv, NEW i \in Requests, NEW r, req' = [req EXCEPT ![i] = r], ReqSound(r)
    PROVE  \A k \in Requests : ReqSound(req'[k])
<1>1. \A k \in Requests : req'[k] = IF k = i THEN r ELSE req[k]
  BY DEF ReqsInv
<1>2. ASSUME NEW k \in Requests PROVE ReqSound(req'[k])
  <2>1. CASE k = i
    <3>1. req'[k] = r
      BY <1>1, <2>1
    <3> QED BY <3>1
  <2>2. CASE k # i
    <3>1. req'[k] = req[k] /\ ReqSound(req[k])
      BY <1>1, <2>2 DEF SoundInv
    <3> QED BY <3>1
  <2> QED BY <2>1, <2>2
<1> QED BY <1>2

LEMMA SoundAside ==
    ASSUME ReqsInv, SoundInv, NEW i \in Requests, NEW r, req' = [req EXCEPT ![i] = r], ReqSound(r),
           UNCHANGED <<project, apiKey, policy, job>>
    PROVE  SoundInv'
<1>1. \A k \in Requests : ReqSound(req'[k])
  BY SoundReq
<1> QED BY <1>1 DEF SoundInv

LEMMA SoundElsewhere ==
    ASSUME NEW r, r.step \in StepNames \ SoundSteps
    PROVE  ReqSound(r)
BY DEF ReqSound, SoundSteps

LEMMA SoundOver ==
    ASSUME TRUE
    PROVE  ReqSound(Over)
BY DEF ReqSound, StepNames, Over

LEMMA SoundEnds ==
    ASSUME ReqsInv, SoundInv, NEW i \in Requests, End(i), UNCHANGED <<project, apiKey, policy, job>>
    PROVE  SoundInv'
BY SoundOver, SoundAside DEF End

LEMMA SoundTenancy ==
    ASSUME ReqsInv, SoundInv, TenancyNext, UNCHANGED <<config, jobsVars>>
    PROVE  SoundInv'
<1>0. UNCHANGED <<policy, job>>
  BY DEF config, jobsVars
<1>1. ASSUME NEW i \in Requests, NEW u, RegisterAsk(i, u)
      PROVE  SoundInv'
  <2> DEFINE r == [step |-> "register", user |-> u]
  <2>1. r.step \in StepNames \ SoundSteps /\ req' = [req EXCEPT ![i] = r]
        /\ UNCHANGED <<project, apiKey>>
    BY <1>1 DEF RegisterAsk, Ask, StepNames, SoundSteps, tenants
  <2> HIDE DEF r
  <2> QED BY <1>0, <2>1, SoundElsewhere, SoundAside
<1>2. ASSUME NEW i \in Requests, NEW c, NEW o, NEW u, NEW x, AddMemberAsk(i, c, o, u, x)
      PROVE  SoundInv'
  <2> DEFINE r == [step |-> "member", org |-> o, user |-> u, role |-> x]
  <2>1. r.step \in StepNames \ SoundSteps /\ req' = [req EXCEPT ![i] = r]
        /\ UNCHANGED <<project, apiKey>>
    BY <1>2 DEF AddMemberAsk, Ask, StepNames, SoundSteps, tenants
  <2> HIDE DEF r
  <2> QED BY <1>0, <2>1, SoundElsewhere, SoundAside
<1>3. ASSUME NEW i \in Requests, NEW c, NEW o, NEW u, RemoveMemberAsk(i, c, o, u)
      PROVE  SoundInv'
  <2> DEFINE r == [step |-> "target", org |-> o, user |-> u]
  <2>1. r.step \in StepNames \ SoundSteps /\ req' = [req EXCEPT ![i] = r]
        /\ UNCHANGED <<project, apiKey>>
    BY <1>3 DEF RemoveMemberAsk, Ask, StepNames, SoundSteps, tenants
  <2> HIDE DEF r
  <2> QED BY <1>0, <2>1, SoundElsewhere, SoundAside
<1>4. ASSUME NEW i \in Requests, NEW c, NEW p, NEW w \in {"project", "drop", "rotate"},
             ProjectAsk(i, c, p, w)
      PROVE  SoundInv'
  <2> DEFINE r == [step |-> w, project |-> p]
  <2>1. r.step \in StepNames \ SoundSteps /\ req' = [req EXCEPT ![i] = r]
        /\ UNCHANGED <<project, apiKey>>
    BY <1>4 DEF ProjectAsk, Ask, StepNames, SoundSteps, tenants
  <2> HIDE DEF r
  <2> QED BY <1>0, <2>1, SoundElsewhere, SoundAside
<1>5. ASSUME NEW i \in Requests, TenancyAsks(i)
      PROVE  SoundInv'
  BY <1>1, <1>2, <1>3, <1>4, <1>5 DEF TenancyAsks
<1>6. ASSUME NEW i \in Requests, Register(i) \/ AddMember(i) \/ RemoveMember(i)
      PROVE  SoundInv'
  BY <1>0, <1>6, SoundEnds DEF Register, AddMember, RemoveMember, tenants
<1>7. ASSUME NEW i \in Requests, RemoveMemberRead(i)
      PROVE  SoundInv'
  <2>1. "step" \in DOMAIN req[i] /\ UNCHANGED <<project, apiKey>>
    BY <1>7 DEF RemoveMemberRead, ReqsInv, ConfigShape, tenants
  <2>2. CASE End(i)
    BY <1>0, <2>1, <2>2, SoundEnds
  <2>3. CASE Turn(i, [req[i] EXCEPT !.step = "delete"])
    <3> DEFINE r == [req[i] EXCEPT !.step = "delete"]
    <3>1. r.step \in StepNames \ SoundSteps /\ req' = [req EXCEPT ![i] = r]
      BY <2>1, <2>3 DEF Turn, StepNames, SoundSteps
    <3> HIDE DEF r
    <3> QED BY <1>0, <2>1, <3>1, SoundElsewhere, SoundAside
  <2> QED BY <1>7, <2>2, <2>3 DEF RemoveMemberRead
<1>8. ASSUME NEW i \in Requests, CreateProject(i) \/ RotateKey(i)
      PROVE  SoundInv'
  <2>1. req' = [req EXCEPT ![i] = Over]
    BY <1>8 DEF CreateProject, RotateKey, End
  <2>2. \A k \in Requests : ReqSound(req'[k])
    BY <2>1, SoundOver, SoundReq
  <2>3. project' \in [Projects -> Rows] /\ apiKey' \in [Projects -> Nat]
    BY <1>8 DEF CreateProject, RotateKey, SoundInv, tenants, Rows
  <2> QED BY <1>0, <2>2, <2>3 DEF SoundInv
<1> QED BY <1>5, <1>6, <1>7, <1>8 DEF TenancyNext

\* A policy in its row or in an override is of the queue's project, and a PATCH was
\* refused if the merged delays cross.
LEMMA SoundAsks ==
    ASSUME ReqsInv, RowsInv, SoundInv, NEW i \in Requests, SubmissionAsks(i)
    PROVE  SoundInv'
<1>1. ASSUME NEW c, NEW p, NEW b, NEW m, CreatePolicyAsk(i, c, p, b, m)
      PROVE  SoundInv'
  <2> DEFINE r == [step |-> "policy", policy |-> p, base |-> b, max |-> m]
  <2>1. req' = [req EXCEPT ![i] = r] /\ UNCHANGED <<project, apiKey, policy, job>>
    BY <1>1 DEF CreatePolicyAsk, Ask, tenants, config, jobsVars
  <2>2. ReqSound(r)
    BY <1>1 DEF CreatePolicyAsk, ReqSound, StepNames
  <2> HIDE DEF r
  <2> QED BY <2>1, <2>2, SoundAside
<1>2. ASSUME NEW c, NEW p, NEW b, NEW m, PatchPolicyAsk(i, c, p, b, m)
      PROVE  SoundInv'
  <2> DEFINE base == IF b = None THEN policy[p].base ELSE b
             max  == IF m = None THEN policy[p].max ELSE m
             r    == [step |-> "merge", policy |-> p, base |-> base, max |-> max]
  <2>1. req' = [req EXCEPT ![i] = r] /\ UNCHANGED <<project, apiKey, policy, job>>
    BY <1>2 DEF PatchPolicyAsk, Ask, tenants, config, jobsVars
  <2>2. max >= base
    BY <1>2 DEF PatchPolicyAsk
  <2> HIDE DEF base, max
  <2>3. ReqSound(r)
    BY <2>2 DEF ReqSound, StepNames
  <2> HIDE DEF r
  <2> QED BY <2>1, <2>3, SoundAside
<1>3. ASSUME NEW c, NEW p, DeletePolicyAsk(i, c, p)
      PROVE  SoundInv'
  <2> DEFINE r == [step |-> "forget", policy |-> p]
  <2>1. r.step \in StepNames \ SoundSteps /\ req' = [req EXCEPT ![i] = r]
        /\ UNCHANGED <<project, apiKey, policy, job>>
    BY <1>3 DEF DeletePolicyAsk, Ask, StepNames, SoundSteps, tenants, config, jobsVars
  <2> HIDE DEF r
  <2> QED BY <2>1, SoundElsewhere, SoundAside
<1>4. ASSUME NEW c, NEW q, NEW p, QueueAsk(i, c, q, p)
      PROVE  SoundInv'
  <2> DEFINE r == [step |-> "assert", queue |-> q, policy |-> p, row |-> queue[q].row]
  <2>1. r.step \in StepNames \ SoundSteps /\ req' = [req EXCEPT ![i] = r]
        /\ UNCHANGED <<project, apiKey, policy, job>>
    BY <1>4 DEF QueueAsk, Ask, StepNames, SoundSteps, tenants, config, jobsVars
  <2> HIDE DEF r
  <2> QED BY <2>1, SoundElsewhere, SoundAside
<1>5. ASSUME NEW c, NEW q \in Queues, NEW ks, NEW rs, NEW many, SubmitAsk(i, c, q, ks, rs, many)
      PROVE  SoundInv'
  <2> DEFINE r == [step |-> "check", queue |-> q, keys |-> ks, many |-> many, policies |-> rs,
                   default |-> queue[q].policy]
  <2>1. req' = [req EXCEPT ![i] = r] /\ UNCHANGED <<project, apiKey, policy, job>>
    BY <1>5 DEF SubmitAsk, Ask, tenants, config, jobsVars
  <2>2. queue[q].policy # None => ProjectOf[queue[q].policy] = ProjectOf[q]
    BY DEF RowsInv
  <2>3. ReqSound(r)
    BY <2>2 DEF ReqSound, StepNames
  <2> HIDE DEF r
  <2> QED BY <2>1, <2>3, SoundAside
<1> QED BY <1>1, <1>2, <1>3, <1>4, <1>5 DEF SubmissionAsks

LEMMA SoundPolicies ==
    ASSUME ReqsInv, RowsInv, SoundInv, NEW i \in Requests,
           CreatePolicy(i) \/ PatchPolicy(i) \/ DeletePolicy(i)
    PROVE  SoundInv'
<1>1. req' = [req EXCEPT ![i] = Over] /\ UNCHANGED <<project, apiKey, job>>
  BY DEF CreatePolicy, PatchPolicy, DeletePolicy, End, tenants, jobsVars
<1>2. \A k \in Requests : ReqSound(req'[k])
  BY <1>1, SoundOver, SoundReq
<1>3. ASSUME NEW x \in Policies PROVE policy'[x].base <= policy'[x].max
  <2>1. policy[x].base <= policy[x].max /\ policy[x] \in [row : Rows, base : Delays, max : Delays]
    BY DEF SoundInv, RowsInv
  <2>2. CASE CreatePolicy(i) \/ PatchPolicy(i)
    <3>1. req[i].base <= req[i].max
      BY <2>2 DEF SoundInv, ReqSound, CreatePolicy, PatchPolicy
    <3>2. PICK row : row = [row |-> "live", base |-> req[i].base, max |-> req[i].max]
      OBVIOUS
    <3>3. row.base <= row.max
      BY <3>1, <3>2
    <3>4. policy' = policy \/ policy' = [policy EXCEPT ![req[i].policy] = row]
      BY <2>2, <3>2 DEF CreatePolicy, PatchPolicy
    <3>5. policy'[x] = policy[x] \/ policy'[x] = row
      BY <3>4 DEF RowsInv
    <3> QED BY <2>1, <3>3, <3>5
  <2>3. CASE DeletePolicy(i)
    <3>1. policy'[x] = policy[x] \/ policy'[x] = [policy[x] EXCEPT !.row = "gone"]
      BY <2>3 DEF DeletePolicy, RowsInv
    <3> QED BY <2>1, <3>1
  <2> QED BY <2>2, <2>3
<1> QED BY <1>1, <1>2, <1>3 DEF SoundInv

LEMMA SoundQueue ==
    ASSUME ReqsInv, SoundInv, NEW i \in Requests, AssertPolicy(i) \/ WriteQueue(i)
    PROVE  SoundInv'
<1>1. "step" \in DOMAIN req[i] /\ UNCHANGED <<project, apiKey, policy, job>>
  BY DEF AssertPolicy, WriteQueue, ReqsInv, ConfigShape, tenants, config, jobsVars
<1>2. CASE End(i)
  BY <1>1, <1>2, SoundEnds
<1>3. CASE Turn(i, [req[i] EXCEPT !.step = "queue"])
  <2> DEFINE r == [req[i] EXCEPT !.step = "queue"]
  <2>1. r.step \in StepNames \ SoundSteps /\ req' = [req EXCEPT ![i] = r]
    BY <1>1, <1>3 DEF Turn, StepNames, SoundSteps
  <2> HIDE DEF r
  <2> QED BY <1>1, <2>1, SoundElsewhere, SoundAside
<1> QED BY <1>2, <1>3 DEF AssertPolicy, WriteQueue

LEMMA SoundDropped ==
    ASSUME ReqsInv, RowsInv, JobsInv, SoundInv, NEW i \in Requests, DropProject(i)
    PROVE  SoundInv'
<1> DEFINE ours == {x \in Policies \cup Queues : ProjectOf[x] = req[i].project}
<1>1. /\ req' = [req EXCEPT ![i] = Over] /\ apiKey' = apiKey
      /\ project' = [project EXCEPT ![req[i].project] = "gone"]
      /\ policy' = [r \in Policies |-> IF r \in ours THEN [policy[r] EXCEPT !.row = "gone"]
                                                     ELSE policy[r]]
      /\ job' = [q \in Queues |-> IF q \in ours THEN [k \in Keys |-> None] ELSE job[q]]
  BY DEF DropProject, End
<1> HIDE DEF ours
<1>2. \A k \in Requests : ReqSound(req'[k])
  BY <1>1, SoundOver, SoundReq
<1>3. project' \in [Projects -> Rows]
  BY <1>1 DEF SoundInv, Rows
<1>4. ASSUME NEW x \in Policies PROVE policy'[x].base <= policy'[x].max
  <2>1. policy[x].base <= policy[x].max /\ policy[x] \in [row : Rows, base : Delays, max : Delays]
    BY DEF SoundInv, RowsInv
  <2>2. policy'[x] = policy[x] \/ policy'[x] = [policy[x] EXCEPT !.row = "gone"]
    BY <1>1
  <2> QED BY <2>1, <2>2
<1>5. \A q \in Queues, k \in Keys : job'[q][k] # None => job'[q][k] = job[q][k]
  BY <1>1
<1> QED BY <1>1, <1>2, <1>3, <1>4, <1>5 DEF SoundInv

\* The check of the override, the snapshot itself, and what follows until the rows are
\* there: each takes the snapshot as it found it.
LEMMA SoundChecks ==
    ASSUME ReqsInv, RowsInv, JobsInv, SoundInv, NEW i \in Requests,
           CheckPolicyOverride(i) \/ Resolve(i) \/ Existing(i)
    PROVE  SoundInv'
<1>0. UNCHANGED <<project, apiKey, policy, job>> /\ ReqOk(req[i]) /\ ReqSound(req[i])
  BY DEF CheckPolicyOverride, Resolve, Existing, tenants, config, jobsVars, JobsInv, SoundInv
<1>1. CASE CheckPolicyOverride(i)
  <2>1. req[i] \in Asked1 /\ req[i].step = "check"
    BY <1>0, <1>1 DEF CheckPolicyOverride, ReqOk, JobShape
  <2>2. CASE End(i)
    BY <1>0, <2>2, SoundEnds
  <2>3. CASE /\ \A x \in req[i].policies : InProject(x, req[i].queue)
             /\ Turn(i, [req[i] EXCEPT !.step = "resolve"])
    <3>1. PICK r : r = [req[i] EXCEPT !.step = "resolve"]
      OBVIOUS
    <3>2. r.step = "resolve" /\ r.default = req[i].default /\ r.policies = req[i].policies
          /\ r.queue = req[i].queue
      BY <2>1, <3>1 DEF Asked1
    <3>3. ReqSound(r)
      BY <1>0, <2>1, <2>3, <3>2 DEF ReqSound, StepNames, InProject
    <3> QED BY <1>0, <2>3, <3>1, <3>3, SoundAside DEF Turn
  <2> QED BY <1>1, <2>2, <2>3 DEF CheckPolicyOverride
<1>2. CASE Resolve(i)
  <2>1. req[i] \in Asked1 /\ req[i].step = "resolve"
    BY <1>0, <1>2 DEF Resolve, ReqOk, JobShape
  <2>2. PICK q : q = req[i].queue
    OBVIOUS
  <2>3. PICK ss : ss = {SnapshotOf(x) : x \in {IF x # None THEN x ELSE req[i].default :
                                                  x \in req[i].policies}}
    OBVIOUS
  <2>4. ASSUME NEW p, p # None => ProjectOf[p] = ProjectOf[q] PROVE SnapSound(SnapshotOf(p), q)
    <3>1. CASE Live(p)
      <4>1. SnapshotOf(p) = [policy |-> p, base |-> policy[p].base, max |-> policy[p].max]
        BY <3>1 DEF SnapshotOf
      <4>2. p \in Policies
        BY <3>1 DEF Live
      <4>3. p # None
        BY <4>2, SubmissionAssumption
      <4> QED BY <2>4, <4>1, <4>2, <4>3 DEF SoundInv, SnapSound
    <3>2. CASE ~Live(p)
      BY <3>2, DefaultAssumption DEF SnapshotOf, SnapSound
    <3> QED BY <3>1, <3>2
  <2>5. \A x \in req[i].policies : x # None => ProjectOf[x] = ProjectOf[q]
    BY <1>0, <2>1, <2>2 DEF ReqSound
  <2>6. req[i].default # None => ProjectOf[req[i].default] = ProjectOf[q]
    BY <1>0, <2>1, <2>2 DEF ReqSound
  <2>7. \A x \in req[i].policies : SnapSound(SnapshotOf(IF x # None THEN x ELSE req[i].default), q)
    <3> TAKE x \in req[i].policies
    <3>1. PICK p : p = IF x # None THEN x ELSE req[i].default
      OBVIOUS
    <3>2. p # None => ProjectOf[p] = ProjectOf[q]
      BY <2>5, <2>6, <3>1
    <3> QED BY <2>4, <3>1, <3>2
  <2>8. \A s \in ss : SnapSound(s, q)
    BY <2>3, <2>7
  <2>9. CASE End(i)
    BY <1>0, <2>9, SoundEnds
  <2>10. CASE Turn(i, [step |-> "insert", queue |-> req[i].queue, keys |-> req[i].keys,
                      left |-> req[i].keys, many |-> req[i].many, snaps |-> ss])
    <3>1. PICK r : r = [step |-> "insert", queue |-> req[i].queue, keys |-> req[i].keys,
                        left |-> req[i].keys, many |-> req[i].many, snaps |-> ss]
      OBVIOUS
    <3>2. r.step = "insert" /\ r.snaps = ss /\ r.queue = q
      BY <2>2, <3>1
    <3>3. ReqSound(r)
      BY <2>8, <3>2 DEF ReqSound, StepNames
    <3> QED BY <1>0, <2>10, <3>1, <3>3, SoundAside DEF Turn
  <2> QED BY <1>2, <2>3, <2>9, <2>10 DEF Resolve
<1>3. CASE Existing(i)
  <2>1. PICK b : req' = [req EXCEPT ![i] = [step |-> "commit", queue |-> req[i].queue,
                            keys |-> req[i].keys, many |-> FALSE, found |-> b]]
    BY <1>3 DEF Existing, Turn
  <2>2. PICK r : r = [step |-> "commit", queue |-> req[i].queue, keys |-> req[i].keys,
                      many |-> FALSE, found |-> b]
    OBVIOUS
  <2>3. r.step \in StepNames \ SoundSteps
    BY <2>2 DEF StepNames, SoundSteps
  <2> QED BY <1>0, <2>1, <2>2, <2>3, SoundElsewhere, SoundAside
<1> QED BY <1>1, <1>2, <1>3

LEMMA SoundInsert ==
    ASSUME ReqsInv, JobsInv, SoundInv, NEW i \in Requests, Insert(i)
    PROVE  SoundInv'
<1>1. req[i].step = "insert" /\ UNCHANGED <<project, apiKey, policy>> /\ ReqOk(req[i])
      /\ \A s \in req[i].snaps : SnapSound(s, req[i].queue)
  BY DEF Insert, tenants, config, JobsInv, SoundInv, ReqSound
<1>2. req[i] \in Opened
  BY <1>1 DEF ReqOk, JobShape
<1>3. \A r : Turn(i, r) => req' = [req EXCEPT ![i] = r]
  BY DEF Turn
<1>4. \A k \in Requests : ReqSound(req'[k])
  <2>1. CASE End(i)
    BY <2>1, SoundOver, SoundReq DEF End
  <2>2. CASE Turn(i, [req[i] EXCEPT !.step = "existing"])
    <3>1. PICK r : r = [req[i] EXCEPT !.step = "existing"]
      OBVIOUS
    <3>2. r.step \in StepNames \ SoundSteps
      BY <1>2, <3>1 DEF Opened, StepNames, SoundSteps
    <3> QED BY <1>3, <2>2, <3>1, <3>2, SoundElsewhere, SoundReq
  <2>3. CASE Onward(i)
    <3>1. PICK r : r = IF Len(req[i].left) = 1
                       THEN [req[i] EXCEPT !.step = "commit", !.left = <<>>]
                       ELSE [req[i] EXCEPT !.left = Tail(@)]
      OBVIOUS
    <3>2. r.step = "commit" \/ (r.step = "insert" /\ r.snaps = req[i].snaps /\ r.queue = req[i].queue)
      BY <1>1, <1>2, <3>1 DEF Opened
    <3>3. ReqSound(r)
      BY <1>1, <3>2 DEF ReqSound, StepNames
    <3> QED BY <1>3, <2>3, <3>1, <3>3, SoundReq DEF Onward
  <2> QED BY <2>1, <2>2, <2>3 DEF Insert
<1>5. ASSUME NEW q \in Queues, NEW k \in Keys, job'[q][k] # None
      PROVE  SnapSound(job'[q][k].snap, q)
  <2>1. CASE job'[q][k] = job[q][k]
    BY <1>5, <2>1 DEF SoundInv
  <2>2. CASE job'[q][k] # job[q][k]
    <3>1. PICK row : /\ \E s \in req[i].snaps : row = [by |-> i, snap |-> s, kept |-> FALSE]
                     /\ job' = [job EXCEPT ![req[i].queue][Head(req[i].left)] = row]
      BY <2>2 DEF Insert
    <3>2. q = req[i].queue /\ job'[q][k] = row
      BY <2>2, <3>1 DEF JobsInv
    <3>3. row.snap \in req[i].snaps
      BY <3>1
    <3> QED BY <1>1, <3>2, <3>3
  <2> QED BY <2>1, <2>2
<1> QED BY <1>1, <1>4, <1>5 DEF SoundInv

LEMMA SoundOutcome ==
    ASSUME ReqsInv, JobsInv, SoundInv, NEW i \in Requests, Commit(i) \/ Rollback(i)
    PROVE  SoundInv'
<1>1. req' = [req EXCEPT ![i] = Over] /\ UNCHANGED <<project, apiKey, policy>>
  BY DEF Commit, Rollback, End, tenants, config
<1>2. \A k \in Requests : ReqSound(req'[k])
  BY <1>1, SoundOver, SoundReq
<1>3. ASSUME NEW q \in Queues, NEW k \in Keys, job'[q][k] # None
      PROVE  SnapSound(job'[q][k].snap, q)
  <2>1. job[q][k] \in {None} \cup JobRows
    BY DEF JobsInv
  <2>2. /\ job[q][k] # None
        /\ \/ job'[q][k] = job[q][k]
           \/ job[q][k].by = i /\ job'[q][k] = [job[q][k] EXCEPT !.kept = TRUE]
    <3>1. CASE Commit(i)
      <4>1. PICK mine : mine = {y \in Keys : job[req[i].queue][y] # None
                                             /\ job[req[i].queue][y].by = i}
        OBVIOUS
      <4>2. job' = [job EXCEPT ![req[i].queue] = [y \in Keys |-> IF y \in mine
                       THEN [job[req[i].queue][y] EXCEPT !.kept = TRUE] ELSE job[req[i].queue][y]]]
        BY <3>1, <4>1 DEF Commit
      <4>3. job'[q][k] = IF q = req[i].queue /\ k \in mine
                         THEN [job[q][k] EXCEPT !.kept = TRUE] ELSE job[q][k]
        BY <4>2 DEF JobsInv
      <4> QED BY <1>3, <4>1, <4>3
    <3>2. CASE Rollback(i)
      <4>1. job' = [job EXCEPT ![req[i].queue] = [y \in Keys |->
                       IF job[req[i].queue][y] # None /\ job[req[i].queue][y].by = i
                       THEN None ELSE job[req[i].queue][y]]]
        BY <3>2 DEF Rollback
      <4>2. job'[q][k] \in {None, job[q][k]}
        BY <4>1 DEF JobsInv
      <4> QED BY <1>3, <4>2
    <3> QED BY <3>1, <3>2
  <2>3. job[q][k] \in JobRows
    BY <2>1, <2>2
  <2>4. job'[q][k].snap = job[q][k].snap
    BY <2>2, <2>3 DEF JobRows
  <2> QED BY <2>2, <2>4 DEF SoundInv
<1> QED BY <1>1, <1>2, <1>3 DEF SoundInv

LEMMA SoundInit == Init => SoundInv
<1> SUFFICES ASSUME Init PROVE SoundInv
  OBVIOUS
<1>1. \A i \in Requests : ReqSound(req[i])
  BY DEF Init, TenancyInit, Fresh, ReqSound, StepNames
<1>2. project \in [Projects -> Rows] /\ apiKey \in [Projects -> Nat]
  BY DEF Init, TenancyInit, Rows
<1>3. ASSUME NEW x \in Policies PROVE policy[x].base <= policy[x].max
  <2>1. policy[x].base < policy[x].max /\ policy[x].base \in Nat /\ policy[x].max \in Nat
    BY SubmissionAssumption DEF Init, SubmissionInit
  <2> QED BY <2>1
<1>4. \A q \in Queues, k \in Keys : job[q][k] = None
  BY DEF Init, SubmissionInit
<1> QED BY <1>1, <1>2, <1>3, <1>4 DEF SoundInv

LEMMA SoundStep ==
    ASSUME ReqsInv, RowsInv, JobsInv, SoundInv, [Next]_vars
    PROVE  SoundInv'
<1>1. CASE TenancyNext /\ UNCHANGED <<config, jobsVars>>
  BY <1>1, SoundTenancy
<1>2. CASE SubmissionNext
  <2>1. PICK i \in Requests :
         \/ SubmissionAsks(i)
         \/ CreatePolicy(i) \/ PatchPolicy(i) \/ DeletePolicy(i)
         \/ AssertPolicy(i) \/ WriteQueue(i)
         \/ CheckPolicyOverride(i) \/ Resolve(i) \/ Insert(i) \/ Existing(i)
         \/ Commit(i) \/ Rollback(i) \/ DropProject(i)
    BY <1>2 DEF SubmissionNext
  <2> QED BY <2>1, SoundAsks, SoundPolicies, SoundQueue, SoundChecks, SoundInsert, SoundOutcome,
             SoundDropped
<1>3. CASE UNCHANGED vars
  BY <1>3 DEF vars, tenants, config, jobsVars, SoundInv
<1> QED BY <1>1, <1>2, <1>3 DEF Next

-----------------------------------------------------------------------------
\* A power of two counts the subsets of an interval, so it is positive.
LEMMA PowerPositive ==
    ASSUME NEW n \in Nat
    PROVE  2 ^ n \in Nat /\ 2 ^ n >= 1
<1>1. IsFiniteSet(1..n) /\ Cardinality(1..n) = n
  BY FS_Interval
<1>2. IsFiniteSet(SUBSET (1..n)) /\ Cardinality(SUBSET (1..n)) = 2 ^ n
  BY <1>1, FS_SUBSET
<1>3. Cardinality(SUBSET (1..n)) \in Nat /\ SUBSET (1..n) # {}
  BY <1>2, FS_CardinalityType
<1>4. Cardinality(SUBSET (1..n)) # 0
  BY <1>2, <1>3, FS_EmptySet
<1> QED BY <1>2, <1>3, <1>4

LEMMA ProductGrows ==
    ASSUME NEW b \in Nat, NEW x \in Nat, x >= 1
    PROVE  b * x \in Nat /\ b * x >= b
<1>1. PICK y \in Nat : x = y + 1
  OBVIOUS
<1>2. b * (y + 1) = b * y + b /\ b * y \in Nat
  OBVIOUS
<1> QED BY <1>1, <1>2

\* No strategy asks for less than the base.
LEMMA AskedGrows ==
    ASSUME NEW s, s.strategy \in Strategies, s.base \in Nat, NEW n \in Nat \ {0}
    PROVE  Asked(s, n) \in Nat /\ Asked(s, n) >= s.base
<1>1. PICK m \in Nat : m = IF n > 1 THEN n ELSE 1
  OBVIOUS
<1>2. m >= 1 /\ m - 1 \in Nat
  BY <1>1
<1>3. PICK x : x = 2 ^ (m - 1)
  OBVIOUS
<1>4. x \in Nat /\ x >= 1
  BY <1>2, <1>3, PowerPositive
<1>5. /\ s.base * m \in Nat /\ s.base * m >= s.base
      /\ s.base * x \in Nat /\ s.base * x >= s.base
  BY <1>2, <1>4, ProductGrows
<1>6. Asked(s, n) = CASE s.strategy = "fixed"       -> s.base
                      [] s.strategy = "linear"      -> s.base * m
                      [] s.strategy = "exponential" -> s.base * x
  BY <1>1, <1>3 DEF Asked
<1> QED BY <1>5, <1>6 DEF Strategies

\* The jitter moves a delay by 15 percent at most, and rounds.
LEMMA JitterBounds ==
    ASSUME NEW d \in Nat, NEW spin \in 0..(Spins - 1)
    PROVE  /\ Jittered(d, spin) \in Nat
           /\ 100 * Jittered(d, spin) <= 115 * d + 50
           /\ 100 * Jittered(d, spin) >= 85 * d - 50
<1>1. PICK x : x = d * spin
  OBVIOUS
<1>2. x \in Nat /\ x <= 99 * d
  <2>1. PICK y \in Nat : 99 = spin + y
    BY DEF Spins
  <2>2. d * 99 = d * spin + d * y /\ d * y \in Nat /\ d * spin \in Nat
    BY <2>1
  <2> QED BY <1>1, <2>2
<1>3. d * (85 * Spins + 30 * spin) = 8500 * d + 30 * x
  BY <1>1 DEF Spins
<1>4. Jittered(d, spin) = (8500 * d + 30 * x + 5000) \div 10000
  BY <1>3 DEF Jittered, Spins
<1> QED BY <1>2, <1>4

\* computeBackoffMs, whatever the attempt, the strategy and the spin: a delay between the
\* base and the cap, but for the jitter.
THEOREM BackoffBounds ==
    ASSUME NEW s, s.strategy \in Strategies, s.jitter = TRUE, s.base \in Nat, s.max \in Nat,
           s.base <= s.max, NEW n \in Nat \ {0}, NEW spin \in 0..(Spins - 1)
    PROVE  /\ 100 * Backoff(s, n, spin) <= 115 * s.max + 50
           /\ 100 * Backoff(s, n, spin) >= 85 * s.base - 50
<1>1. PICK a : a = Asked(s, n)
  OBVIOUS
<1>2. a \in Nat /\ a >= s.base
  BY <1>1, AskedGrows
<1>3. PICK d \in Nat : d = Capped(a, s.max) /\ d <= s.max /\ d >= s.base
  BY <1>2 DEF Capped
<1>4. Backoff(s, n, spin) = Jittered(d, spin)
  BY <1>1, <1>3 DEF Backoff
<1>5. /\ Jittered(d, spin) \in Nat
      /\ 100 * Jittered(d, spin) <= 115 * d + 50
      /\ 100 * Jittered(d, spin) >= 85 * d - 50
  BY JitterBounds
<1> QED BY <1>3, <1>4, <1>5

\* The delays of every attempt, not of the first three only.
LEMMA SoundDelays ==
    ASSUME NEW s \in Snapshots, s.base <= s.max, NEW st \in Strategies, NEW n \in Nat \ {0},
           NEW spin \in 0..(Spins - 1)
    PROVE  LET d == Backoff([strategy |-> st, base |-> s.base, max |-> s.max, jitter |-> TRUE],
                            n, spin)
           IN  100 * d <= 115 * s.max + 50 /\ 100 * d >= 85 * s.base - 50
<1>1. s.base \in Nat /\ s.max \in Nat
  BY SubmissionAssumption, DefaultAssumption DEF Snapshots
<1>2. PICK t : t = [strategy |-> st, base |-> s.base, max |-> s.max, jitter |-> TRUE]
  OBVIOUS
<1>3. t.strategy = st /\ t.base = s.base /\ t.max = s.max /\ t.jitter = TRUE
  BY <1>2
<1>4. /\ 100 * Backoff(t, n, spin) <= 115 * t.max + 50
      /\ 100 * Backoff(t, n, spin) >= 85 * t.base - 50
  BY <1>1, <1>3, BackoffBounds
<1> QED BY <1>2, <1>3, <1>4

LEMMA SoundImplies ==
    ASSUME JobsInv, SoundInv
    PROVE  SnapshotIsSound
<1>1. ASSUME NEW q \in Queues, NEW k \in Keys, job[q][k] # None
      PROVE  /\ job[q][k].snap \in Snapshots
             /\ SnapSound(job[q][k].snap, q)
  BY <1>1 DEF JobsInv, SoundInv, JobRows
<1>2. 1..3 \subseteq Nat \ {0} /\ {0, Spins - 1} \subseteq 0..(Spins - 1)
  BY DEF Spins
<1>3. ASSUME NEW q \in Queues, NEW k \in Keys, job[q][k] # None,
             NEW st \in Strategies, NEW n \in 1..3, NEW spin \in {0, Spins - 1}
      PROVE  LET s == job[q][k].snap
                 d == Backoff([strategy |-> st, base |-> s.base, max |-> s.max, jitter |-> TRUE],
                              n, spin)
             IN  100 * d <= 115 * s.max + 50 /\ 100 * d >= 85 * s.base - 50
  <2>1. PICK s : s = job[q][k].snap
    OBVIOUS
  <2>2. s \in Snapshots /\ s.base <= s.max
    BY <1>1, <1>3, <2>1 DEF SnapSound
  <2>3. n \in Nat \ {0} /\ spin \in 0..(Spins - 1)
    BY <1>2
  <2> QED BY <2>1, <2>2, <2>3, SoundDelays
<1> QED BY <1>1, <1>3 DEF SnapshotIsSound, SnapSound

AllInv == MemberInv /\ ReqsInv /\ RowsInv /\ JobsInv /\ SoundInv

LEMMA AllInvariant ==
    /\ Init => AllInv
    /\ AllInv /\ [Next]_vars => AllInv'
<1>1. Init => AllInv
  BY MemberInit, ConfigInit, OnceInit, SoundInit DEF AllInv
<1>2. AllInv /\ [Next]_vars => AllInv'
  BY MemberStep, ConfigStep, OnceStep, SoundStep DEF AllInv
<1> QED BY <1>1, <1>2

\* A job's snapshot is of a policy of its own project or the platform default, whatever
\* is edited and deleted while the submission is under way, and the delays that follow
\* from it stay between base and cap, the jitter aside.
THEOREM SnapshotsSound == Spec => []SnapshotIsSound
<1>1. AllInv => SnapshotIsSound
  BY SoundImplies DEF AllInv
<1> QED BY <1>1, AllInvariant, PTL DEF Spec

\* Every reachable state is well typed, and each request at a step of its handler.
THEOREM SubmissionTypeCorrect == Spec => []TypeOK
<1>1. AllInv => TypeOK
  BY DEF AllInv, MemberInv, RowsInv, JobsInv, SoundInv, ReqSound, StepNames, TypeOK,
         TenancyTypeOK, SubmissionTypeOK
<1> QED BY <1>1, AllInvariant, PTL DEF Spec
=============================================================================
