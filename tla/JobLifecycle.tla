---------------------------- MODULE JobLifecycle ----------------------------
(***************************************************************************)
(* The life of a job: the rows of `jobs`, `job_executions` and             *)
(* `dead_letter_jobs`, the execution pipelines of the worker processes and *)
(* the failure detector of the scheduler.                                  *)
(*                                                                         *)
(* Every action is one committed database transaction, or one step of a    *)
(* process between two of them.  What makes a transaction one atomic step  *)
(* is the row lock its first UPDATE takes on the job (or on the execution) *)
(* and holds to the commit.  Which queue a claim may draw from, and the    *)
(* limits of a queue, are the subject of QueueClaim.                       *)
(***************************************************************************)
EXTENDS Integers, FiniteSets

CONSTANTS
    Jobs,             \* job rows that may be created
    Workers,          \* worker processes; a restarted process is a new one
    Pipes,            \* execute() calls that may be in flight at one time
    None,             \* SQL NULL
    MaxAttemptsCap,   \* CHECK (max_attempts BETWEEN 1 AND 100): the 100
    InitialMax,       \* values of max_attempts a job is created with
    ExtraAttempts,    \* extra attempts a manual retry may grant
    Freezes,          \* may a live process stall past a lease or a heartbeat?
    MaxFaults         \* bound: crashes, stops and database errors in a run

ASSUME CapAssumption == MaxAttemptsCap \in Nat \ {0}
ASSUME MaxAssumption == InitialMax \subseteq 1..MaxAttemptsCap
ASSUME ExtraAssumption == ExtraAttempts \subseteq Nat \ {0}
ASSUME FreezesAssumption == Freezes \in BOOLEAN
ASSUME FaultsAssumption == MaxFaults \in Nat
ASSUME NoneAssumption == None \notin Workers \cup Jobs

VARIABLES
    status,       \* jobs.status; "absent" before the INSERT
    attempts,     \* jobs.attempts
    maxAttempts,  \* jobs.max_attempts
    claimedBy,    \* jobs.claimed_by
    lease,        \* jobs.lease_expires_at against now(): none, live, expired
    result,       \* the attempt whose value jobs.result holds; 0 for NULL
    exec,         \* job_executions.status by job and attempt; "none": no row
    dlq,          \* dead_letter_jobs.status by job and attempts_made
    pipe,         \* the execute() calls and the job row each was given
    proc,         \* the worker process: up, draining or gone
    wstat,        \* workers.status; no statement tells draining from online
    silent,       \* workers whose last_heartbeat_at is older than the limit
    faults        \* crashes, stops and database errors so far (bounded)

jobVars  == <<status, attempts, claimedBy, lease, exec, dlq>>
workVars == <<proc, wstat, silent>>
vars     == <<jobVars, maxAttempts, result, pipe, workVars, faults>>

Attempts   == 1..MaxAttemptsCap
Pending    == {"scheduled", "queued"}
Active     == {"claimed", "running"}
Terminal   == {"completed", "failed", "cancelled"}
JobStatus  == {"absent"} \cup Pending \cup Active \cup Terminal
Failures   == {"failed", "lost"}     \* "timed_out" is "failed" here
Concluded  == {"succeeded"} \cup Failures
ExecStatus == {"none", "running"} \cup Concluded
DlqStatus  == {"none", "pending", "retried", "discarded"}

IdlePipe == [phase |-> "idle", worker |-> None, job |-> None, base |-> 0, max |-> 0]

PipeRecord == [phase  : {"idle", "launched", "handling", "failing"},
               worker : Workers \cup {None},
               job    : Jobs \cup {None},
               base   : 0..MaxAttemptsCap,
               max    : 0..MaxAttemptsCap]

TypeOK ==
    /\ status \in [Jobs -> JobStatus]
    /\ attempts \in [Jobs -> 0..MaxAttemptsCap]
    /\ maxAttempts \in [Jobs -> 0..MaxAttemptsCap]
    /\ claimedBy \in [Jobs -> Workers \cup {None}]
    /\ lease \in [Jobs -> {"none", "live", "expired"}]
    /\ result \in [Jobs -> 0..MaxAttemptsCap]
    /\ exec \in [Jobs -> [Attempts -> ExecStatus]]
    /\ dlq \in [Jobs -> [Attempts -> DlqStatus]]
    /\ pipe \in [Pipes -> PipeRecord]
    /\ proc \in [Workers -> {"up", "draining", "gone"}]
    /\ wstat \in [Workers -> {"online", "offline", "dead"}]
    /\ silent \in SUBSET Workers
    /\ faults \in 0..MaxFaults

Init ==
    /\ status = [j \in Jobs |-> "absent"]
    /\ attempts = [j \in Jobs |-> 0]
    /\ maxAttempts = [j \in Jobs |-> 0]
    /\ claimedBy = [j \in Jobs |-> None]
    /\ lease = [j \in Jobs |-> "none"]
    /\ result = [j \in Jobs |-> 0]
    /\ exec = [j \in Jobs |-> [n \in Attempts |-> "none"]]
    /\ dlq = [j \in Jobs |-> [n \in Attempts |-> "none"]]
    /\ pipe = [p \in Pipes |-> IdlePipe]
    /\ proc = [w \in Workers |-> "up"]
    /\ wstat = [w \in Workers |-> "online"]
    /\ silent = {}
    /\ faults = 0

-----------------------------------------------------------------------------
\* What the actions are built from.

\* job.attempts + 1 of the row the pipeline was launched with.
Attempt(p) == pipe[p].base + 1

\* The pipeline's process still executes code.
Busy(p, phase) == pipe[p].phase = phase

Release(p) == pipe' = [pipe EXCEPT ![p] = IdlePipe]

\* Rows of job_executions that are still 'running'.
RunningExecs(j) == {n \in Attempts : exec[j][n] = "running"}

\* A pipeline of a live process works on j, on the claim j is held under.
Tended(j) == \E p \in Pipes : pipe[p].phase # "idle" /\ pipe[p].job = j

Fault == faults < MaxFaults /\ faults' = faults + 1

\* DELETE-free bookkeeping of a failed attempt that leaves the job unowned.
Unown(j) ==
    /\ claimedBy' = [claimedBy EXCEPT ![j] = None]
    /\ lease' = [lease EXCEPT ![j] = "none"]

\* failExecution: concludes execution n of j as `kind`, once; then retries the
\* job or buries it, if the job is still claimed or running.  `max` is the
\* max_attempts of the row the caller holds, not of the row in the table.
FailStolen(j, n) == exec[j][n] # "running" /\ UNCHANGED jobVars

\* Faulty variants of FailOrphan: the job's UPDATE is guarded by 'claimed' alone;
\* the execution's UPDATE is not guarded at all.
FailOrphanRunning(j, n, kind) ==
    /\ exec[j][n] = "running" /\ status[j] # "claimed"
    /\ exec' = [exec EXCEPT ![j][n] = kind]
    /\ UNCHANGED <<status, attempts, claimedBy, lease, dlq>>

FailOrphanUnguarded(j, n, kind) ==
    /\ status[j] \notin Active
    /\ exec' = [exec EXCEPT ![j][n] = kind]
    /\ UNCHANGED <<status, attempts, claimedBy, lease, dlq>>

FailOrphan(j, n, kind) ==
    /\ exec[j][n] = "running" /\ status[j] \notin Active
    /\ exec' = [exec EXCEPT ![j][n] = kind]
    /\ UNCHANGED <<status, attempts, claimedBy, lease, dlq>>

\* Faulty variant of FailRetry: the last attempt is retried too.
FailRetryLast(j, n, max, kind) ==
    /\ exec[j][n] = "running" /\ status[j] \in Active /\ n <= max
    /\ exec' = [exec EXCEPT ![j][n] = kind]
    /\ status' = [status EXCEPT ![j] = "scheduled"]
    /\ attempts' = [attempts EXCEPT ![j] = n]
    /\ Unown(j)
    /\ UNCHANGED dlq

FailRetry(j, n, max, kind) ==
    /\ exec[j][n] = "running" /\ status[j] \in Active /\ n < max
    /\ exec' = [exec EXCEPT ![j][n] = kind]
    /\ status' = [status EXCEPT ![j] = "scheduled"]
    /\ attempts' = [attempts EXCEPT ![j] = n]
    /\ Unown(j)
    /\ UNCHANGED dlq

\* Faulty variant of FailBury: the attempt is counted twice.
FailBuryTwice(j, n, max, kind) ==
    /\ exec[j][n] = "running" /\ status[j] \in Active /\ n >= max
    /\ exec' = [exec EXCEPT ![j][n] = kind]
    /\ status' = [status EXCEPT ![j] = "failed"]
    /\ attempts' = [attempts EXCEPT ![j] = n + 1]
    /\ Unown(j)
    /\ dlq' = [dlq EXCEPT ![j][n] = "pending"]

FailBury(j, n, max, kind) ==
    /\ exec[j][n] = "running" /\ status[j] \in Active /\ n >= max
    /\ exec' = [exec EXCEPT ![j][n] = kind]
    /\ status' = [status EXCEPT ![j] = "failed"]
    /\ attempts' = [attempts EXCEPT ![j] = n]
    /\ Unown(j)
    /\ dlq' = [dlq EXCEPT ![j][n] = "pending"]

FailJob(j, n, max, kind) ==
    \/ FailStolen(j, n)
    \/ FailOrphan(j, n, kind)
    \/ FailRetry(j, n, max, kind)
    \/ FailBury(j, n, max, kind)

-----------------------------------------------------------------------------
\* The API and the cron materializer.

\* createJob, createBatch, materializeDueSchedules: INSERT INTO jobs.
Create(j, max, s) ==
    /\ status[j] = "absent"
    /\ status' = [status EXCEPT ![j] = s]
    /\ maxAttempts' = [maxAttempts EXCEPT ![j] = max]
    /\ UNCHANGED <<attempts, claimedBy, lease, exec, dlq, result, pipe, workVars, faults>>

\* Faulty variant of Cancel: a claimed or running job is cancelled too.
CancelActive(j) ==
    /\ status[j] \in Pending \cup Active
    /\ status' = [status EXCEPT ![j] = "cancelled"]
    /\ UNCHANGED <<attempts, maxAttempts, claimedBy, lease, result, exec, dlq,
                   pipe, workVars, faults>>

\* cancelJob.
Cancel(j) ==
    /\ status[j] \in Pending
    /\ status' = [status EXCEPT ![j] = "cancelled"]
    /\ UNCHANGED <<attempts, maxAttempts, claimedBy, lease, result, exec, dlq,
                   pipe, workVars, faults>>

\* Faulty variants of RetryNow: no CHECK on max_attempts; the letters of the job
\* are left pending.
RetryNowUnchecked(j, extra) ==
    /\ status[j] \in Terminal
    /\ status' = [status EXCEPT ![j] = "queued"]
    /\ maxAttempts' = [maxAttempts EXCEPT ![j] = attempts[j] + extra]
    /\ Unown(j)
    /\ UNCHANGED <<attempts, exec, dlq, result, pipe, workVars, faults>>

RetryNowUnresolved(j, extra) ==
    /\ status[j] \in Terminal
    /\ attempts[j] + extra <= MaxAttemptsCap
    /\ status' = [status EXCEPT ![j] = "queued"]
    /\ maxAttempts' = [maxAttempts EXCEPT ![j] = attempts[j] + extra]
    /\ Unown(j)
    /\ UNCHANGED <<attempts, exec, dlq, result, pipe, workVars, faults>>

\* retryJobNow: the CHECK on max_attempts aborts the transaction beyond the cap.
RetryNow(j, extra) ==
    /\ status[j] \in Terminal
    /\ attempts[j] + extra <= MaxAttemptsCap
    /\ status' = [status EXCEPT ![j] = "queued"]
    /\ maxAttempts' = [maxAttempts EXCEPT ![j] = attempts[j] + extra]
    /\ Unown(j)
    /\ dlq' = [dlq EXCEPT ![j] = [n \in Attempts |->
                  IF dlq[j][n] = "pending" THEN "retried" ELSE dlq[j][n]]]
    /\ UNCHANGED <<attempts, exec, result, pipe, workVars, faults>>

\* discardDlqEntry.
Discard(j, n) ==
    /\ dlq[j][n] = "pending"
    /\ dlq' = [dlq EXCEPT ![j][n] = "discarded"]
    /\ UNCHANGED <<status, attempts, maxAttempts, claimedBy, lease, result, exec,
                   pipe, workVars, faults>>

-----------------------------------------------------------------------------
\* The worker: claim, start, run the handler, conclude.

\* Faulty variant of ClaimRow: a claimed job is handed out again.
ClaimRowAgain(w, j) ==
    /\ proc[w] = "up"
    /\ status[j] \in {"queued", "claimed"}
    /\ status' = [status EXCEPT ![j] = "claimed"]
    /\ claimedBy' = [claimedBy EXCEPT ![j] = w]
    /\ lease' = [lease EXCEPT ![j] = "live"]
    /\ UNCHANGED <<attempts, maxAttempts, result, exec, dlq, workVars>>

\* The claiming UPDATE for one row of a live worker's poll.
ClaimRow(w, j) ==
    /\ proc[w] = "up"
    /\ status[j] = "queued"
    /\ status' = [status EXCEPT ![j] = "claimed"]
    /\ claimedBy' = [claimedBy EXCEPT ![j] = w]
    /\ lease' = [lease EXCEPT ![j] = "live"]
    /\ UNCHANGED <<attempts, maxAttempts, result, exec, dlq, workVars>>

\* claimFromQueue commits and pollLoop launches the pipeline.  Nothing reads
\* workers.status: a worker that was declared dead goes on claiming.
Claim(w, j, p) ==
    /\ ClaimRow(w, j)
    /\ pipe[p] = IdlePipe
    /\ pipe' = [pipe EXCEPT ![p] = [phase |-> "launched", worker |-> w, job |-> j,
                                    base |-> attempts[j], max |-> maxAttempts[j]]]
    /\ UNCHANGED faults

\* The claim commits and its rows never reach launch(): a later queue of the same
\* claimJobs call throws, or the answer of the COMMIT is lost.
ClaimLost(w, j) == ClaimRow(w, j) /\ Fault /\ UNCHANGED pipe

InsertExecution(p) ==
    LET j == pipe[p].job IN
    /\ Busy(p, "launched")
    /\ exec[j][Attempt(p)] = "none"
    /\ exec' = [exec EXCEPT ![j][Attempt(p)] = "running"]
    /\ status' = [status EXCEPT ![j] = IF @ = "claimed" THEN "running" ELSE @]
    /\ UNCHANGED <<attempts, maxAttempts, claimedBy, lease, result, dlq, workVars>>

\* startExecution: the INSERT is not conditional on the job's row, and the
\* rowCount of the UPDATE that follows it is not looked at.
StartExecution(p) ==
    /\ InsertExecution(p)
    /\ pipe' = [pipe EXCEPT ![p].phase = "handling"]
    /\ UNCHANGED faults

\* UNIQUE (job_id, attempt) rejects the INSERT: the transaction rolls back and
\* execute() rejects, outside its try block.
StartConflict(p) ==
    /\ Busy(p, "launched")
    /\ exec[pipe[p].job][Attempt(p)] # "none"
    /\ Release(p)
    /\ UNCHANGED <<jobVars, maxAttempts, result, workVars, faults>>

\* startExecution fails on the connection, before or after it committed.
StartError(p) ==
    /\ Fault /\ Release(p)
    /\ \/ InsertExecution(p)
       \/ Busy(p, "launched") /\ UNCHANGED <<jobVars, maxAttempts, result, workVars>>

\* Faulty variants of Complete: the lease is cleared outside the guard; the
\* execution is overwritten outside the guard; the attempt is not counted.
CompleteClearsLease(j, n) ==
    /\ exec' = [exec EXCEPT ![j][n] = IF @ = "running" THEN "succeeded" ELSE @]
    /\ lease' = [lease EXCEPT ![j] = "none"]
    /\ IF status[j] = "running"
       THEN /\ status' = [status EXCEPT ![j] = "completed"]
            /\ attempts' = [attempts EXCEPT ![j] = n]
            /\ result' = [result EXCEPT ![j] = n]
       ELSE UNCHANGED <<status, attempts, result>>
    /\ UNCHANGED <<maxAttempts, claimedBy, dlq, workVars>>

CompleteOverwrites(j, n) ==
    /\ exec' = [exec EXCEPT ![j][n] = "succeeded"]
    /\ IF status[j] = "running"
       THEN /\ status' = [status EXCEPT ![j] = "completed"]
            /\ attempts' = [attempts EXCEPT ![j] = n]
            /\ result' = [result EXCEPT ![j] = n]
            /\ lease' = [lease EXCEPT ![j] = "none"]
       ELSE UNCHANGED <<status, attempts, result, lease>>
    /\ UNCHANGED <<maxAttempts, claimedBy, dlq, workVars>>

CompleteUncounted(j, n) ==
    /\ exec' = [exec EXCEPT ![j][n] = IF @ = "running" THEN "succeeded" ELSE @]
    /\ IF status[j] = "running"
       THEN /\ status' = [status EXCEPT ![j] = "completed"]
            /\ result' = [result EXCEPT ![j] = n]
            /\ lease' = [lease EXCEPT ![j] = "none"]
       ELSE UNCHANGED <<status, result, lease>>
    /\ UNCHANGED <<attempts, maxAttempts, claimedBy, dlq, workVars>>

\* completeExecution: the job is completed if it is running, whichever attempt
\* runs; the execution succeeds if it is still running.
Complete(j, n) ==
    /\ exec' = [exec EXCEPT ![j][n] = IF @ = "running" THEN "succeeded" ELSE @]
    /\ IF status[j] = "running"
       THEN /\ status' = [status EXCEPT ![j] = "completed"]
            /\ attempts' = [attempts EXCEPT ![j] = n]
            /\ result' = [result EXCEPT ![j] = n]
            /\ lease' = [lease EXCEPT ![j] = "none"]
       ELSE UNCHANGED <<status, attempts, result, lease>>
    /\ UNCHANGED <<maxAttempts, claimedBy, dlq, workVars>>

CompleteExecution(p) ==
    /\ Busy(p, "handling")
    /\ Complete(pipe[p].job, Attempt(p))
    /\ Release(p)
    /\ UNCHANGED faults

\* completeExecution throws inside the try block of execute(): the catch block
\* reports the attempt as failed, whether or not the completion committed.
CompleteError(p) ==
    /\ Busy(p, "handling") /\ Fault
    /\ pipe' = [pipe EXCEPT ![p].phase = "failing"]
    /\ \/ Complete(pipe[p].job, Attempt(p))
       \/ UNCHANGED <<jobVars, maxAttempts, result, workVars>>

\* The handler throws, is unknown or overruns timeout_ms: failExecution.  On a timeout
\* the pipeline ends; that the handler, which lost the race, ends with it is an
\* assumption (handlers must observe their AbortSignal).
FailExecution(p) ==
    /\ pipe[p].phase \in {"handling", "failing"}
    /\ FailJob(pipe[p].job, Attempt(p), pipe[p].max, "failed")
    /\ Release(p)
    /\ UNCHANGED <<maxAttempts, result, workVars, faults>>

\* failExecution rolls back on a database error and execute() rejects.
FailError(p) ==
    /\ pipe[p].phase \in {"handling", "failing"}
    /\ Fault /\ Release(p)
    /\ UNCHANGED <<jobVars, maxAttempts, result, workVars>>

-----------------------------------------------------------------------------
\* Time, processes and heartbeats.

\* Faulty variant of LeaseExpires: the lease does not cover timeout_ms.
LeaseTooShort(j) ==
    /\ lease[j] = "live"
    /\ lease' = [lease EXCEPT ![j] = "expired"]
    /\ UNCHANGED <<status, attempts, maxAttempts, claimedBy, result, exec, dlq,
                   pipe, workVars, faults>>

\* now() passes lease_expires_at = claim time + timeout_ms + grace.  A process
\* that is never stalled concludes within the lease.
LeaseExpires(j) ==
    /\ lease[j] = "live"
    /\ Freezes \/ ~Tended(j)
    /\ lease' = [lease EXCEPT ![j] = "expired"]
    /\ UNCHANGED <<status, attempts, maxAttempts, claimedBy, result, exec, dlq,
                   pipe, workVars, faults>>

\* deadWorkerAfterMs pass without a heartbeat.
GoSilent(w) ==
    /\ w \notin silent
    /\ Freezes \/ proc[w] = "gone"
    /\ silent' = silent \cup {w}
    /\ UNCHANGED <<jobVars, maxAttempts, result, pipe, proc, wstat, faults>>

\* heartbeat: last_heartbeat_at alone is refreshed, never the status.
Heartbeat(w) ==
    /\ proc[w] # "gone"
    /\ w \in silent
    /\ silent' = silent \ {w}
    /\ UNCHANGED <<jobVars, maxAttempts, result, pipe, proc, wstat, faults>>

DropPipes(w) ==
    pipe' = [p \in Pipes |-> IF pipe[p].worker = w THEN IdlePipe ELSE pipe[p]]

\* The process is killed.
Crash(w) ==
    /\ proc[w] # "gone" /\ Fault
    /\ proc' = [proc EXCEPT ![w] = "gone"]
    /\ DropPipes(w)
    /\ UNCHANGED <<jobVars, maxAttempts, result, wstat, silent>>

\* stop(): the poll loop has ended; setWorkerStatus writes draining (here: online) over
\* any status, dead too, or fails, which is ignored.
StopBegin(w) ==
    /\ proc[w] = "up" /\ Fault
    /\ proc' = [proc EXCEPT ![w] = "draining"]
    /\ wstat' \in {wstat, [wstat EXCEPT ![w] = "online"]}
    /\ UNCHANGED <<jobVars, maxAttempts, result, pipe, silent>>

\* Drained, or the drain timeout passed: offline, if that write does not fail, then
\* process.exit, which ends whatever is still in flight.
StopEnd(w) ==
    /\ proc[w] = "draining"
    /\ proc' = [proc EXCEPT ![w] = "gone"]
    /\ wstat' \in {wstat, [wstat EXCEPT ![w] = "offline"]}
    /\ DropPipes(w)
    /\ UNCHANGED <<jobVars, maxAttempts, result, silent, faults>>

-----------------------------------------------------------------------------
\* The scheduler's tick.

\* promoteDueJobs, for one of the rows whose run_at has arrived.
PromoteDue(j) ==
    /\ status[j] = "scheduled"
    /\ status' = [status EXCEPT ![j] = "queued"]
    /\ UNCHANGED <<attempts, maxAttempts, claimedBy, lease, result, exec, dlq,
                   pipe, workVars, faults>>

\* reapExpired, first statement: every worker silent for too long is dead.
Overdue == {w \in silent : wstat[w] = "online"}

DeclareDead ==
    /\ Overdue # {}
    /\ wstat' = [w \in Workers |-> IF w \in Overdue THEN "dead" ELSE wstat[w]]
    /\ UNCHANGED <<jobVars, maxAttempts, result, pipe, proc, silent, faults>>

\* Faulty variants of Reapable: the comparison with now() is lost; claimed jobs
\* are not scanned; only dead owners count.
ReapableAlways(j) == status[j] \in Active /\ lease[j] # "none"

ReapableRunning(j) ==
    /\ status[j] = "running"
    /\ \/ lease[j] = "expired"
       \/ claimedBy[j] \in Workers /\ wstat[claimedBy[j]] = "dead"

ReapableDead(j) ==
    /\ status[j] \in Active
    /\ claimedBy[j] \in Workers /\ wstat[claimedBy[j]] = "dead"

\* reapExpired, the rows of a batch: the lease has passed or the owner is dead.
Reapable(j) ==
    /\ status[j] \in Active
    /\ \/ lease[j] = "expired"
       \/ claimedBy[j] \in Workers /\ wstat[claimedBy[j]] = "dead"

\* The latest running execution is lost, against the row's own max_attempts.
ReapLost(j) ==
    /\ Reapable(j)
    /\ \E n \in RunningExecs(j) :
          /\ \A m \in RunningExecs(j) : m <= n
          /\ FailJob(j, n, maxAttempts[j], "lost")
    /\ UNCHANGED <<maxAttempts, result, pipe, workVars, faults>>

\* No execution was started: back to the queue, no attempt consumed.
ReapUnstarted(j) ==
    /\ Reapable(j)
    /\ RunningExecs(j) = {}
    /\ status' = [status EXCEPT ![j] = "queued"]
    /\ Unown(j)
    /\ UNCHANGED <<attempts, maxAttempts, result, exec, dlq, pipe, workVars, faults>>

-----------------------------------------------------------------------------

JobStep(j) ==
    \/ \E max \in InitialMax, s \in Pending : Create(j, max, s)
    \/ Cancel(j)
    \/ \E extra \in ExtraAttempts : RetryNow(j, extra)
    \/ \E n \in Attempts : Discard(j, n)
    \/ \E w \in Workers, p \in Pipes : Claim(w, j, p)
    \/ \E w \in Workers : ClaimLost(w, j)
    \/ LeaseExpires(j)
    \/ PromoteDue(j)
    \/ ReapLost(j)
    \/ ReapUnstarted(j)

PipeStep(p) ==
    \/ StartExecution(p)
    \/ StartConflict(p)
    \/ StartError(p)
    \/ CompleteExecution(p)
    \/ CompleteError(p)
    \/ FailExecution(p)
    \/ FailError(p)

WorkerStep(w) ==
    \/ GoSilent(w)
    \/ Heartbeat(w)
    \/ Crash(w)
    \/ StopBegin(w)
    \/ StopEnd(w)

Next ==
    \/ \E j \in Jobs : JobStep(j)
    \/ \E p \in Pipes : PipeStep(p)
    \/ \E w \in Workers : WorkerStep(w)
    \/ DeclareDead

Spec == Init /\ [][Next]_vars

\* What the code's scheduling gives: a process that lives runs its pipelines to
\* their end (the handler races a timer), polls, and time passes; some process
\* leads, and its ticks promote, declare dead and reap.  No user, crash, stop or
\* database error is owed.
PipeProgress(p) ==
    \/ StartExecution(p)
    \/ StartConflict(p)
    \/ CompleteExecution(p)
    \/ FailExecution(p)

\* Time, and the reaper's own scan of a job.
ReaperFairness ==
    \A j \in Jobs : WF_vars(LeaseExpires(j) \/ ReapLost(j) \/ ReapUnstarted(j))

Fairness ==
    /\ ReaperFairness
    /\ \A p \in Pipes : WF_vars(PipeProgress(p))
    /\ \A j \in Jobs :
          /\ WF_vars(\E w \in Workers, p \in Pipes : Claim(w, j, p))
          /\ WF_vars(PromoteDue(j))
    /\ \A w \in Workers : WF_vars(proc[w] = "gone" /\ GoSilent(w))
    /\ WF_vars(DeclareDead)

FairSpec == Spec /\ Fairness

\* Nothing else is owed: every pipeline may hang for ever.
ReaperSpec == Spec /\ ReaperFairness

-----------------------------------------------------------------------------
\* Safety, whatever the processes do: stalls, crashes, lost answers.

\* Executions are numbered 1, 2, ... without a gap, one attempt opens only when
\* the one before has been concluded, and jobs.attempts names a concluded
\* attempt (UNIQUE (job_id, attempt) and the guards of startExecution,
\* completeExecution, failExecution together; no statement checks it).
NumberingOf(j) ==
    /\ \A n \in Attempts :
          exec[j][n] # "none" => \A m \in 1..(n - 1) : exec[j][m] \in Concluded
    /\ attempts[j] > 0 => exec[j][attempts[j]] \in Concluded

AttemptNumbering == \A j \in Jobs : NumberingOf(j)

\* A running job has a running execution: only then does the reaper charge the
\* attempt and take the path to the retry or the dead letter queue, instead of
\* putting the job back uncharged.
RunningIsExecuted ==
    \A j \in Jobs : status[j] = "running" => RunningExecs(j) # {}

\* A job held by a worker can be recovered: it names its owner and carries a
\* lease, without which no clause of the reaper's scan would ever match it.  A
\* job that waits or has failed carries neither.
OwnershipOf(j) ==
    IF status[j] \in Active
    THEN lease[j] # "none" /\ claimedBy[j] # None
    ELSE lease[j] = "none" /\ (claimedBy[j] # None => status[j] = "completed")

ActiveIsRecoverable == \A j \in Jobs : OwnershipOf(j)

\* A failed job rests, and the dead letter queue mirrors it: the letter of its
\* last attempt is pending or discarded, none of its executions is open, and
\* none can still be opened by a pipeline launched earlier.  A pending letter
\* is always that of the last attempt of a job that is failed now.
FailedOf(j) ==
    /\ \A n \in Attempts :
          dlq[j][n] = "pending" => status[j] = "failed" /\ attempts[j] = n
    /\ status[j] = "failed" =>
          /\ dlq[j][attempts[j]] \in {"pending", "discarded"}
          /\ RunningExecs(j) = {}
          /\ \A p \in Pipes : pipe[p].phase = "launched" /\ pipe[p].job = j
                                  => exec[j][Attempt(p)] # "none"

FailedIsQuiet == \A j \in Jobs : FailedOf(j)

\* A concluded execution is never changed again, however many late conclusions
\* arrive for it (001_initial.sql: executions are immutable once finished).
ExecutionsImmutable ==
    [][\A j \in Jobs, n \in Attempts :
          exec[j][n] \in Concluded => exec'[j][n] = exec[j][n]]_vars

-----------------------------------------------------------------------------
\* The implementation of JobContract: scheduled and queued are pending, claimed
\* and running are active; claimed_by outlives a completion as an audit trail
\* and is an owner only while the job is active.

PhaseOf(j) ==
    CASE status[j] \in Pending     -> "pending"
      [] status[j] \in Active      -> "active"
      [] status[j] = "completed"   -> "succeeded"
      [] status[j] = "failed"      -> "dead"
      [] OTHER                     -> status[j]

phaseBar  == [j \in Jobs |-> PhaseOf(j)]
ownerBar  == [j \in Jobs |-> IF status[j] \in Active THEN claimedBy[j] ELSE None]
openBar   == [j \in Jobs |-> RunningExecs(j) # {}]
letterBar == [j \in Jobs |-> \E n \in Attempts : dlq[j][n] = "pending"]

Contract == INSTANCE JobContract WITH
    phase <- phaseBar, owner <- ownerBar, open <- openBar, letter <- letterBar

\* Every run of the lifecycle, zombies and crashes included, is one the contract
\* allows (docs/architecture.md, the job state machine).
ImplementsContract == Contract!ContractSpec

-----------------------------------------------------------------------------
\* Safety when no live process stalls past a lease (Freezes = FALSE).

\* At most one pipeline (a call of execute()) runs a job, or is about to: the single
\* most important invariant of docs/architecture.md, for handlers that end when
\* their signal aborts.
Executes(p, j) == pipe[p].phase \in {"launched", "handling"} /\ pipe[p].job = j

OneExecutor ==
    \A j \in Jobs, p, q \in Pipes : Executes(p, j) /\ Executes(q, j) => p = q

\* jobs.attempts counts the concluded executions (001_initial.sql).
AttemptsCountConcluded ==
    \A j \in Jobs :
        attempts[j] = Cardinality({n \in Attempts : exec[j][n] \in Concluded})

\* No attempt is opened beyond max_attempts: total work per job is bounded.
WithinBudget ==
    \A j \in Jobs, n \in Attempts : exec[j][n] # "none" => n <= maxAttempts[j]

\* The result of a completed job is that of its last attempt, which succeeded.
ResultOfLastAttempt ==
    \A j \in Jobs : status[j] = "completed" =>
        result[j] = attempts[j] /\ exec[j][result[j]] = "succeeded"

\* A late result is discarded: a job is never completed by an execution that
\* had already been concluded as lost.
LateResultDiscarded ==
    [][\A j \in Jobs : status[j] # "completed" /\ status'[j] = "completed"
           => exec[j][result'[j]] = "running"]_vars

\* A job whose lease has not passed and whose owner heartbeats is left alone.
HealthyJobKept ==
    [][\A j \in Jobs, n \in Attempts :
          exec[j][n] = "running" /\ exec'[j][n] = "lost"
              => lease[j] = "expired" \/ claimedBy[j] \in silent]_vars

\* A claim just made by a worker that heartbeats is not one the next tick of the
\* reaper would take away (scheduler.test.ts, "does not touch healthy running
\* jobs").
FreshClaimKept ==
    [][\A j \in Jobs :
          status[j] = "queued" /\ status'[j] = "claimed" /\ claimedBy'[j] \notin silent
              => ~Reapable(j)']_vars

-----------------------------------------------------------------------------
\* Liveness.

\* A claim ends: whenever a job is claimed or running, the time comes when it is not
\* (each claim or running ~> neither, which is the same as always, later, neither).
ClaimReleased ==
    \A j \in Jobs : []<>(status[j] \notin Active)

\* A submitted job is concluded: completed, dead-lettered or cancelled.
JobConcludes ==
    \A j \in Jobs : status[j] \in Pending \cup Active ~> status[j] \in Terminal
=============================================================================
