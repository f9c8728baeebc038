----------------------------- MODULE QueueClaim -----------------------------
(***************************************************************************)
(* Claiming from queues with a concurrency limit and a rate limit          *)
(* (core/claim.ts), against everything that moves while a claim runs: the  *)
(* other claimers, the jobs that conclude, the users who cancel, pause,    *)
(* reconfigure and delete, and the clock.                                  *)
(*                                                                         *)
(* A claim is a transaction of several statements under READ COMMITTED, so *)
(* each statement is an action and reads what is committed when it runs.   *)
(* now() is the time of BEGIN, which comes before the wait for the lock.   *)
(* Time is kept as ages in whole seconds: 0 is the current second.         *)
(*                                                                         *)
(* Left out: the order of queues and of jobs within a queue.  Priorities   *)
(* may be changed at any time, so a claimer may meet its candidates in any *)
(* order and take any of the claimable rows.                               *)
(***************************************************************************)
EXTENDS Integers, FiniteSets

CONSTANTS
    Queues, Jobs, Workers,
    QueueOf,        \* jobs.queue_id
    None,           \* SQL NULL; no limit, no lock holder
    Capacity,       \* free executions a worker may poll with
    Limits,         \* values of queues.max_concurrency
    Rates,          \* values of queues.rate_limit_per_sec
    MaxUpsets,      \* bound: rollbacks, jobs put back and edits (but Resume) in a run
    Watched         \* bound: the jobs of which liveness is checked

ASSUME JobsAssumption == IsFiniteSet(Jobs) /\ QueueOf \in [Jobs -> Queues]
ASSUME CapacityAssumption == Capacity \in Nat \ {0}
ASSUME LimitsAssumption == Limits \subseteq Nat \ {0}
ASSUME RatesAssumption == Rates \subseteq (Nat \ {0}) \cup {None}
ASSUME NoneAssumption == None \notin Workers \cup Queues \cup Nat
ASSUME BoundAssumption == MaxUpsets \in Nat /\ Watched \subseteq Jobs

VARIABLES
    exists,       \* queues that have a row
    paused,       \* queues.is_paused
    maxConc,      \* queues.max_concurrency
    rate,         \* queues.rate_limit_per_sec
    deleting,     \* queues whose DELETE request has counted no active job
    status,       \* jobs.status as far as claims care
    claimedAt,    \* jobs.claimed_at: this second (0), the last (1), else None
    cancelling,   \* jobs whose row an uncommitted cancelJob has locked
    pc,           \* where a claimer is in claimJobs
    todo,         \* the rest of its candidates
    want,         \* the capacity it was called with
    got,          \* `claimed`: the jobs of the queues it has done
    cur,          \* the queue its transaction is about
    age,          \* the age of its transaction's now()
    seen,         \* the limits of the queue row it read
    slots,        \* `slots`
    taken,        \* rows its uncommitted UPDATE has locked
    lock,         \* the holder of a queue's advisory lock
    upsets,       \* rollbacks, jobs put back and edits so far (bounded)
    peak,         \* history: the largest max_concurrency since the queue was idle
    peakRate,     \* history: the same of rate_limit_per_sec
    sentAt        \* history: the age of a job's last claim, never cleared

queueVars == <<exists, paused, maxConc, rate, deleting, peak, peakRate>>
jobVars   == <<status, claimedAt, cancelling, sentAt>>
callVars  == <<todo, want, got>>
txVars    == <<cur, age, seen, slots, taken>>
claimerVars == <<pc, callVars, txVars, lock>>
vars      == <<queueVars, jobVars, claimerVars, upsets>>

Ages      == {0, 1}
Inside    == {"count", "rate", "update", "commit"}   \* lock held
InTx      == {"lock"} \cup Inside
JobStatus == {"new", "scheduled", "queued", "active", "done", "deleted"}

JobsOf(q)    == {j \in Jobs : QueueOf[j] = q}
Active(q)    == {j \in JobsOf(q) : status[j] = "active"}
Taken        == UNION {taken[w] : w \in Workers}
Lesser(a, b) == IF a < b THEN a ELSE b

\* Faulty variant of Claimable: the subquery does not lock, so it skips no row.
ClaimableUnlocked(q) == {j \in JobsOf(q) : status[j] = "queued"}

\* A row another transaction has locked is skipped.
Claimable(q) ==
    {j \in JobsOf(q) : status[j] = "queued"} \ (cancelling \cup Taken)

\* What remainingRateBudget counts: claimed_at is not before the second of now().
Recent(q, a) == {j \in JobsOf(q) : claimedAt[j] # None /\ claimedAt[j] <= a}

Raise(old, new) ==
    IF old = None \/ new = None THEN None ELSE IF old < new THEN new ELSE old

TypeOK ==
    /\ exists \in SUBSET Queues
    /\ paused \in SUBSET Queues
    /\ deleting \in SUBSET Queues
    /\ maxConc \in [Queues -> Limits]
    /\ peak \in [Queues -> Limits]
    /\ rate \in [Queues -> Rates]
    /\ peakRate \in [Queues -> Rates]
    /\ status \in [Jobs -> JobStatus]
    /\ claimedAt \in [Jobs -> Ages \cup {None}]
    /\ sentAt \in [Jobs -> Ages \cup {None}]
    /\ cancelling \in SUBSET Jobs
    /\ pc \in [Workers -> {"idle", "scan"} \cup InTx]
    /\ todo \in [Workers -> SUBSET Queues]
    /\ want \in [Workers -> 0..Capacity]
    /\ got \in [Workers -> SUBSET Jobs]
    /\ cur \in [Workers -> Queues \cup {None}]
    /\ age \in [Workers -> Ages]
    /\ seen \in [Workers -> [max : Limits \cup {0}, rate : Rates \cup {None}]]
    /\ slots \in [Workers -> Int]
    /\ taken \in [Workers -> SUBSET Jobs]
    /\ lock \in [Queues -> Workers \cup {None}]
    /\ upsets \in 0..MaxUpsets

Unread == [max |-> 0, rate |-> None]

Init ==
    /\ exists = Queues /\ paused = {} /\ deleting = {}
    /\ maxConc \in [Queues -> Limits] /\ peak = maxConc
    /\ rate \in [Queues -> Rates] /\ peakRate = rate
    /\ status = [j \in Jobs |-> "new"]
    /\ claimedAt = [j \in Jobs |-> None] /\ sentAt = claimedAt
    /\ cancelling = {}
    /\ pc = [w \in Workers |-> "idle"]
    /\ todo = [w \in Workers |-> {}]
    /\ want = [w \in Workers |-> 0]
    /\ got = [w \in Workers |-> {}]
    /\ cur = [w \in Workers |-> None]
    /\ age = [w \in Workers |-> 0]
    /\ seen = [w \in Workers |-> Unread]
    /\ slots = [w \in Workers |-> 0]
    /\ taken = [w \in Workers |-> {}]
    /\ lock = [q \in Queues |-> None]
    /\ upsets = 0

-----------------------------------------------------------------------------
\* The claimer.

\* Bound: one of the counted disturbances.
Upset == upsets < MaxUpsets /\ upsets' = upsets + 1

Goto(w, label) == pc' = [pc EXCEPT ![w] = label]

\* Faulty variant of EndTx: a session-level advisory lock, which no COMMIT frees.
EndTxKeepsLock(w) ==
    /\ cur' = [cur EXCEPT ![w] = None]
    /\ age' = [age EXCEPT ![w] = 0]
    /\ seen' = [seen EXCEPT ![w] = Unread]
    /\ slots' = [slots EXCEPT ![w] = 0]
    /\ taken' = [taken EXCEPT ![w] = {}]
    /\ UNCHANGED lock

\* The transaction is over, committed or rolled back: its row locks and its
\* advisory lock are released.
EndTx(w) ==
    /\ lock' = [q \in Queues |-> IF lock[q] = w THEN None ELSE lock[q]]
    /\ cur' = [cur EXCEPT ![w] = None]
    /\ age' = [age EXCEPT ![w] = 0]
    /\ seen' = [seen EXCEPT ![w] = Unread]
    /\ slots' = [slots EXCEPT ![w] = 0]
    /\ taken' = [taken EXCEPT ![w] = {}]

\* claimJobs: the lock-free scan for queues that may have work.
Prescan(w) ==
    /\ pc[w] = "idle"
    /\ todo' = [todo EXCEPT ![w] =
            {q \in exists \ paused : \E j \in JobsOf(q) : status[j] = "queued"}]
    /\ \E n \in 1..Capacity : want' = [want EXCEPT ![w] = n]
    /\ Goto(w, "scan")
    /\ UNCHANGED <<queueVars, jobVars, got, txVars, lock, upsets>>

\* claimFromQueue: BEGIN, and the request for the queue's advisory lock.
Begin(w, q) ==
    /\ pc[w] = "scan"
    /\ q \in todo[w]
    /\ Cardinality(got[w]) < want[w]
    /\ todo' = [todo EXCEPT ![w] = @ \ {q}]
    /\ cur' = [cur EXCEPT ![w] = q]
    /\ Goto(w, "lock")
    /\ UNCHANGED <<queueVars, jobVars, want, got, age, seen, slots, taken, lock, upsets>>

\* Out of candidates or of capacity: the rows go to launch().
Return(w) ==
    /\ pc[w] = "scan"
    /\ todo[w] = {} \/ Cardinality(got[w]) >= want[w]
    /\ todo' = [todo EXCEPT ![w] = {}]
    /\ got' = [got EXCEPT ![w] = {}]
    /\ want' = [want EXCEPT ![w] = 0]
    /\ Goto(w, "idle")
    /\ UNCHANGED <<queueVars, jobVars, txVars, lock, upsets>>

\* Faulty variant of LockQueue: claimers of a queue do not exclude each other.
LockQueueAlways(w) ==
    /\ pc[w] = "lock"
    /\ cur[w] \in exists \ paused
    /\ lock' = [lock EXCEPT ![cur[w]] = w]
    /\ seen' = [seen EXCEPT ![w] = [max |-> maxConc[cur[w]], rate |-> rate[cur[w]]]]
    /\ Goto(w, "count")
    /\ UNCHANGED <<queueVars, jobVars, callVars, cur, age, slots, taken, upsets>>

\* pg_advisory_xact_lock is granted and the queue's row is read.  What others do
\* between the two cannot be told from the same done before the grant.
LockQueue(w) ==
    /\ pc[w] = "lock"
    /\ lock[cur[w]] = None
    /\ cur[w] \in exists \ paused
    /\ lock' = [lock EXCEPT ![cur[w]] = w]
    /\ seen' = [seen EXCEPT ![w] = [max |-> maxConc[cur[w]], rate |-> rate[cur[w]]]]
    /\ Goto(w, "count")
    /\ UNCHANGED <<queueVars, jobVars, callVars, cur, age, slots, taken, upsets>>

\* The queue was deleted or paused meanwhile: no claim, COMMIT.
SkipQueue(w) ==
    /\ pc[w] = "lock"
    /\ lock[cur[w]] = None
    /\ cur[w] \notin exists \ paused
    /\ EndTx(w)
    /\ Goto(w, "scan")
    /\ UNCHANGED <<queueVars, jobVars, callVars, upsets>>

CountActive(w) ==
    /\ pc[w] = "count"
    /\ slots' = [slots EXCEPT ![w] =
            Lesser(want[w] - Cardinality(got[w]),
                   seen[w].max - Cardinality(Active(cur[w])))]
    /\ Goto(w, IF seen[w].rate = None THEN "update" ELSE "rate")
    /\ UNCHANGED <<queueVars, jobVars, callVars, cur, age, seen, taken, lock, upsets>>

\* Faulty variant of CountRecent: the window is the second of the wall clock, not
\* the second of now() that the claim will be stamped with.
CountRecentByClock(w) ==
    /\ pc[w] = "rate"
    /\ slots' = [slots EXCEPT ![w] =
            Lesser(@, seen[w].rate - Cardinality(Recent(cur[w], 0)))]
    /\ Goto(w, "update")
    /\ UNCHANGED <<queueVars, jobVars, callVars, cur, age, seen, taken, lock, upsets>>

CountRecent(w) ==
    /\ pc[w] = "rate"
    /\ slots' = [slots EXCEPT ![w] =
            Lesser(@, seen[w].rate - Cardinality(Recent(cur[w], age[w])))]
    /\ Goto(w, "update")
    /\ UNCHANGED <<queueVars, jobVars, callVars, cur, age, seen, taken, lock, upsets>>

NoSlots(w) ==
    /\ pc[w] = "update"
    /\ slots[w] <= 0
    /\ EndTx(w)
    /\ Goto(w, "scan")
    /\ UNCHANGED <<queueVars, jobVars, callVars, upsets>>

\* LIMIT slots ... FOR UPDATE SKIP LOCKED, and the UPDATE of those rows.
TakeRows(w) ==
    /\ pc[w] = "update"
    /\ slots[w] > 0
    /\ \E S \in SUBSET Claimable(cur[w]) :
          /\ Cardinality(S) = Lesser(slots[w], Cardinality(Claimable(cur[w])))
          /\ taken' = [taken EXCEPT ![w] = S]
    /\ Goto(w, "commit")
    /\ UNCHANGED <<queueVars, jobVars, callVars, cur, age, seen, slots, lock, upsets>>

\* COMMIT: the rows are claimed as of the BEGIN, and the lock is free.
Commit(w) ==
    LET S == taken[w] IN
    /\ pc[w] = "commit"
    /\ status' = [j \in Jobs |-> IF j \in S THEN "active" ELSE status[j]]
    /\ claimedAt' = [j \in Jobs |-> IF j \in S THEN age[w] ELSE claimedAt[j]]
    /\ sentAt' = [j \in Jobs |-> IF j \in S THEN age[w] ELSE sentAt[j]]
    /\ got' = [got EXCEPT ![w] = @ \cup S]
    /\ EndTx(w)
    /\ Goto(w, "scan")
    /\ UNCHANGED <<queueVars, cancelling, todo, want, upsets>>

\* A statement fails: ROLLBACK, claimJobs rejects, and the jobs of the queues it
\* had done are never launched.
Abort(w) ==
    /\ pc[w] \in InTx
    /\ Upset
    /\ EndTx(w)
    /\ todo' = [todo EXCEPT ![w] = {}]
    /\ got' = [got EXCEPT ![w] = {}]
    /\ want' = [want EXCEPT ![w] = 0]
    /\ Goto(w, "idle")
    /\ UNCHANGED <<queueVars, jobVars>>

-----------------------------------------------------------------------------
\* The other writers of jobs.  A row a claim has locked makes them wait.

Free(j) == j \notin Taken \cup cancelling

SetStatus(j, s) == status' = [status EXCEPT ![j] = s]

Move(j, from, to) ==
    /\ status[j] = from /\ Free(j)
    /\ SetStatus(j, to)
    /\ UNCHANGED <<queueVars, cancelling, sentAt, claimerVars>>

PutBack(j) == claimedAt' = [claimedAt EXCEPT ![j] = None] /\ Upset

\* createJob, createBatch, the cron materializer.
Enqueue(j) ==
    /\ QueueOf[j] \in exists
    /\ \E s \in {"queued", "scheduled"} : Move(j, "new", s)
    /\ UNCHANGED <<claimedAt, upsets>>

\* promoteDueJobs.
Promote(j) == Move(j, "scheduled", "queued") /\ UNCHANGED <<claimedAt, upsets>>

\* completeExecution keeps claimed_at.
Succeed(j) == Move(j, "active", "done") /\ UNCHANGED <<claimedAt, upsets>>

\* failExecution clears it, on the last attempt and before a retry; so do the
\* reaper's requeue and retryJobNow.
Bury(j) ==
    /\ Move(j, "active", "done")
    /\ claimedAt' = [claimedAt EXCEPT ![j] = None]
    /\ UNCHANGED upsets

Retry(j) == Move(j, "active", "scheduled") /\ PutBack(j)

Requeue(j) == Move(j, "active", "queued") /\ PutBack(j)

RetryNow(j) == Move(j, "done", "queued") /\ PutBack(j)

\* cancelJob holds the row from its UPDATE to its COMMIT.
CancelUpdate(j) ==
    /\ status[j] \in {"queued", "scheduled"} /\ Free(j)
    /\ cancelling' = cancelling \cup {j}
    /\ UNCHANGED <<queueVars, status, claimedAt, sentAt, claimerVars, upsets>>

CancelCommit(j) ==
    /\ j \in cancelling
    /\ cancelling' = cancelling \ {j}
    /\ SetStatus(j, "done")
    /\ UNCHANGED <<queueVars, claimedAt, sentAt, claimerVars, upsets>>

-----------------------------------------------------------------------------
\* Queue administration.

\* No job is active and no claim is under way in the queue.
Idle(q) == Active(q) = {} /\ lock[q] = None

\* Faulty variant of Patch: the limit is stored one too low, past its CHECK.
PatchOffByOne(q, m, r) ==
    /\ q \in exists /\ Upset
    /\ maxConc' = [maxConc EXCEPT ![q] = m - 1]
    /\ UNCHANGED <<exists, paused, rate, peak, peakRate, deleting, jobVars, claimerVars>>

\* PATCH /queues/:queueId, any of the limits.
Patch(q, m, r) ==
    /\ q \in exists /\ Upset
    /\ <<m, r>> # <<maxConc[q], rate[q]>>
    /\ maxConc' = [maxConc EXCEPT ![q] = m]
    /\ rate' = [rate EXCEPT ![q] = r]
    /\ peak' = [peak EXCEPT ![q] = IF Idle(q) THEN m ELSE Raise(@, m)]
    /\ peakRate' = [peakRate EXCEPT ![q] =
            IF lock[q] = None /\ \A j \in JobsOf(q) : sentAt[j] = None
            THEN r ELSE Raise(@, r)]
    /\ UNCHANGED <<exists, paused, deleting, jobVars, claimerVars>>

Pause(q) ==
    /\ q \in exists \ paused /\ Upset
    /\ paused' = paused \cup {q}
    /\ UNCHANGED <<exists, maxConc, rate, deleting, peak, peakRate, jobVars, claimerVars>>

Resume(q) ==
    /\ q \in exists \cap paused
    /\ paused' = paused \ {q}
    /\ UNCHANGED <<exists, maxConc, rate, deleting, peak, peakRate, jobVars, claimerVars, upsets>>

\* DELETE /queues/:queueId: the count, and in a later statement of its own, the
\* DELETE that cascades to the jobs.
DeleteCheck(q) ==
    /\ q \in exists \ deleting /\ Upset
    /\ Active(q) = {}
    /\ deleting' = deleting \cup {q}
    /\ UNCHANGED <<exists, paused, maxConc, rate, peak, peakRate, jobVars, claimerVars>>

DeleteQueue(q) ==
    /\ q \in deleting
    /\ \A j \in JobsOf(q) : Free(j)
    /\ deleting' = deleting \ {q}
    /\ exists' = exists \ {q}
    /\ status' = [j \in Jobs |-> IF QueueOf[j] = q THEN "deleted" ELSE status[j]]
    /\ claimedAt' = [j \in Jobs |-> IF QueueOf[j] = q THEN None ELSE claimedAt[j]]
    /\ UNCHANGED <<paused, maxConc, rate, peak, peakRate, cancelling, sentAt, claimerVars,
                   upsets>>

-----------------------------------------------------------------------------
\* A second passes.  Bound: no claim transaction lives through two of them.

Older(a) == IF a = 0 THEN 1 ELSE None

Tick ==
    /\ \A w \in Workers : age[w] = 0
    /\ age' = [w \in Workers |-> IF pc[w] \in InTx THEN 1 ELSE 0]
    /\ claimedAt' = [j \in Jobs |-> Older(claimedAt[j])]
    /\ sentAt' = [j \in Jobs |-> Older(sentAt[j])]
    /\ UNCHANGED <<queueVars, status, cancelling, pc, callVars, cur, seen,
                   slots, taken, lock, upsets>>

-----------------------------------------------------------------------------

ClaimStep(w) ==
    \/ Prescan(w)
    \/ \E q \in Queues : Begin(w, q)
    \/ Return(w)
    \/ LockQueue(w)
    \/ SkipQueue(w)
    \/ CountActive(w)
    \/ CountRecent(w)
    \/ NoSlots(w)
    \/ TakeRows(w)
    \/ Commit(w)

WriteStep(j) ==
    \/ Enqueue(j)
    \/ Promote(j)
    \/ Succeed(j)
    \/ Bury(j)
    \/ Retry(j)
    \/ Requeue(j)
    \/ RetryNow(j)
    \/ CancelUpdate(j)
    \/ CancelCommit(j)

AdminStep(q) ==
    \/ \E m \in Limits, r \in Rates : Patch(q, m, r)
    \/ Pause(q)
    \/ Resume(q)
    \/ DeleteCheck(q)
    \/ DeleteQueue(q)

Next ==
    \/ \E w \in Workers : ClaimStep(w) \/ Abort(w)
    \/ \E j \in Jobs : WriteStep(j)
    \/ \E q \in Queues : AdminStep(q)
    \/ Tick

Spec == Init /\ [][Next]_vars

\* Workers poll for ever, a waiter gets the advisory lock (Postgres queues them),
\* executions end, the leader promotes and time passes.  No user has to act.
Fairness ==
    /\ \A w \in Workers :
          /\ WF_vars(ClaimStep(w))
          /\ SF_vars(LockQueue(w) \/ SkipQueue(w))
    /\ \A j \in Jobs : WF_vars(Succeed(j) \/ Bury(j) \/ Promote(j) \/ CancelCommit(j))
    /\ WF_vars(Tick)

FairSpec == Spec /\ Fairness

-----------------------------------------------------------------------------
\* Safety.

\* The active jobs of a queue never exceed the largest limit it has had since it
\* was last idle, however claims, conclusions and PATCHes interleave
\* (architecture.md: the mutex makes the check and the claim atomic per queue).
WithinLimit == \A q \in Queues : Cardinality(Active(q)) <= peak[q]

\* The claims recorded in one second never exceed the rate limit of that second,
\* also those of a transaction that waited for the lock into the next second.
RateKept ==
    \A q \in Queues, a \in Ages : peakRate[q] # None =>
        Cardinality({j \in JobsOf(q) : claimedAt[j] = a}) <= peakRate[q]

\* A row is in the hands of one transaction at a time: what a claim has locked
\* is still queued, and no other claim and no cancel in flight has it.
RowLockedOnce ==
    /\ \A w \in Workers, j \in Jobs : j \in taken[w] =>
          /\ QueueOf[j] = cur[w]
          /\ status[j] = "queued"
          /\ j \notin cancelling
    /\ \A v, w \in Workers : v # w => taken[v] \cap taken[w] = {}

\* No more jobs are dispatched in a second than the rate limit allows
\* (architecture.md: "rate budget for the current second").
RateRespected ==
    \A q \in Queues, a \in Ages : peakRate[q] # None =>
        Cardinality({j \in JobsOf(q) : sentAt[j] = a}) <= peakRate[q]

\* A queue is not deleted while it has active jobs (api.md: 409 while jobs are
\* running).
DeleteSparesActive ==
    [][\A q \in exists : q \notin exists' => Active(q) = {}]_vars

\* Liveness: a queued job is claimed, or cancelled, or its queue is paused.
QueuedIsServed ==
    \A j \in Watched :
        status[j] = "queued" ~> status[j] # "queued" \/ QueueOf[j] \in paused
=============================================================================
