----------------------------- MODULE Statistics -----------------------------
(***************************************************************************)
(* What the read-only routes compute from the rows: counts by status, the  *)
(* throughput of each minute, durations, success rates, the progress of a  *)
(* batch. Instants are whole seconds, rates are permille.                  *)
(***************************************************************************)
EXTENDS Integers, Sequences
LOCAL INSTANCE FiniteSetsExt
LOCAL INSTANCE SequencesExt

Minute == 60
Day    == 24 * 60 * Minute
Null   == -1     \* NULL: an instant that is after none, a figure that is not there

JobStatuses == {"scheduled", "queued", "claimed", "running", "completed", "failed", "cancelled"}
Failures    == {"failed", "timed_out", "lost"}

MinuteOf(t) == t - (t % Minute)

\* The executions of the jobs of some queues, and those that ended less than `span` ago.
ExecutionsOf(executions, jobs, queues) ==
    {e \in executions : \E j \in jobs : j.id = e.job /\ j.queue \in queues}
Ended(executions, now, span) == {e \in executions : e.finished > now - span}

Outcomes(executions) ==
    [succeeded |-> Quantify(executions, LAMBDA e : e.status = "succeeded"),
     failed    |-> Quantify(executions, LAMBDA e : e.status \in Failures)]

CountsOf(jobs) == [s \in JobStatuses |-> Quantify(jobs, LAMBDA j : j.status = s)]

Pending(dead, queue) == Quantify(dead, LAMBDA d : d.queue = queue /\ d.status = "pending")

\* GROUP BY date_trunc('minute', finished_at): a minute without an execution has no row.
ThroughputRows(executions, now, minutes) ==
    LET recent == Ended(executions, now, minutes * Minute)
    IN  [m \in {MinuteOf(e.finished) : e \in recent} |->
            Outcomes({e \in recent : MinuteOf(e.finished) = m})]

\* The chart ends at the minute of the API's own clock, read after the database's.
FillBuckets(rows, minutes, clock) ==
    [i \in 1 .. minutes |->
        LET t == MinuteOf(clock) - (minutes - i) * Minute
        IN  IF t \in DOMAIN rows THEN rows[t] ELSE [succeeded |-> 0, failed |-> 0]]

\* Math.round((ok / total) * 1000) / 10
SuccessRate(ok, total) == IF total > 0 THEN (2000 * ok + total) \div (2 * total) ELSE Null

\* round(avg(..)) and percentile_cont(percent / 100), which interpolates; halves go up.
Mean(values) ==
    IF values = <<>> THEN Null
    ELSE (2 * FoldSeq(+, 0, values) + Len(values)) \div (2 * Len(values))
Percentile(values, percent) ==
    IF values = <<>> THEN Null
    ELSE LET rank == percent * (Len(values) - 1)
             low  == 1 + rank \div 100
             high == IF rank % 100 = 0 THEN low ELSE low + 1
         IN  (100 * values[low] + (rank % 100) * (values[high] - values[low]) + 50) \div 100

Durations(executions) ==
    LET ok     == {e \in executions : e.status = "succeeded"}
        sorted == SetToSortSeq(ok, LAMBDA e, f : e.ms < f.ms \/ (e.ms = f.ms /\ e.job < f.job))
    IN  [i \in DOMAIN sorted |-> sorted[i].ms]

OldestQueued(jobs) ==
    LET queued == {j.runAt : j \in {k \in jobs : k.status = "queued"}}
    IN  IF queued = {} THEN Null ELSE Min(queued)

QueueStats(queue, jobs, executions, dead, now, clock, minutes) ==
    LET mine   == {j \in jobs : j.queue = queue}
        oldest == OldestQueued(mine)
        own    == ExecutionsOf(executions, jobs, {queue})
        today  == Ended(own, now, Day)
    IN  [counts       |-> CountsOf(mine),
         dlqPending   |-> Pending(dead, queue),
         oldestQueued |-> IF oldest = Null THEN Null ELSE now - oldest,
         throughput   |-> FillBuckets(ThroughputRows(own, now, minutes), minutes, clock),
         avg          |-> Mean(Durations(today)),
         p50          |-> Percentile(Durations(today), 50),
         p95          |-> Percentile(Durations(today), 95),
         successRate  |-> SuccessRate(Outcomes(today).succeeded,
                                      Quantify(today, LAMBDA e : TRUE))]

QueueHealth(queue, jobs, dead, now) ==
    LET mine == {j \in jobs : j.queue = queue}
        DoneToday(s) == Quantify(mine, LAMBDA j : j.status = s /\ j.completedAt > now - Day)
    IN  [scheduled  |-> CountsOf(mine)["scheduled"],
         queued     |-> CountsOf(mine)["queued"],
         running    |-> CountsOf(mine)["claimed"] + CountsOf(mine)["running"],
         completed  |-> DoneToday("completed"),
         failed     |-> DoneToday("failed"),
         dlqPending |-> Pending(dead, queue),
         oldestQueuedAt |-> OldestQueued(mine)]

\* The ten failures that ended last; any of those that ended together.
RecentFailures(executions) ==
    LET failures == {e \in executions : e.status \in Failures}
        shown    == Min({10, Quantify(failures, LAMBDA e : TRUE)})
    IN  {recent \in kSubset(shown, failures) :
            \A e \in recent, f \in failures \ recent : f.finished =< e.finished}

\* The overview of a project, which owns `queues`; the workers are those of the platform.
\* `recent` is the set of the lists of failures it may show.
ProjectOverview(queues, jobs, executions, dead, workers, now, clock) ==
    LET own    == ExecutionsOf(executions, jobs, queues)
        totals == Outcomes(Ended(own, now, Day))
        health == [x \in queues |-> QueueHealth(x, jobs, dead, now)]
    IN  [workersOnline |-> Quantify(workers, LAMBDA w : w.status \in {"online", "draining"}),
         workersTotal  |-> Quantify(workers, LAMBDA w : TRUE),
         completed     |-> totals.succeeded,
         failed        |-> totals.failed,
         successRate   |-> SuccessRate(totals.succeeded, totals.succeeded + totals.failed),
         backlog       |-> MapThenSumSet(LAMBDA x : health[x].queued, queues),
         dlqPending    |-> MapThenSumSet(LAMBDA x : health[x].dlqPending, queues),
         throughput    |-> FillBuckets(ThroughputRows(own, now, 60), 60, clock),
         queues        |-> health,
         recent        |-> RecentFailures(own)]

\* A line of the worker listing: what the worker holds, and what it ended in the last hour.
WorkerSummary(worker, jobs, executions, now) ==
    [active |-> Quantify(jobs, LAMBDA j : /\ j.claimedBy = worker
                                          /\ j.status \in {"claimed", "running"}),
     ended  |-> Outcomes(Ended({e \in executions : e.worker = worker}, now, 60 * Minute))]

\* batchProgress: `total` is the number of inputs the batch was submitted with.
BatchProgress(batch, jobs) ==
    [total |-> batch.total, counts |-> CountsOf({j \in jobs : j.batch = batch.id})]
=============================================================================
