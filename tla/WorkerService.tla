--------------------------- MODULE WorkerService ---------------------------
(***************************************************************************)
(* One worker process: the poll loop and its capacity, the map of running  *)
(* pipelines, and the graceful shutdown, against the rows the process      *)
(* holds.  JobLifecycle has the attempts, executions and dead letters of   *)
(* these rows and many workers; here a row is what this worker sees of it. *)
(*                                                                         *)
(* What is counted are pipelines, calls of execute().  A handler that      *)
(* outlives its timeout is told to by an AbortSignal; one that ignores it  *)
(* goes on behind a pipeline that has ended, and no module sees it.        *)
(***************************************************************************)
EXTENDS Integers, FiniteSets

CONSTANTS
    Jobs,         \* rows this worker's queues may offer
    Calls,        \* names of the execute() calls of one job at one time
    Concurrency,  \* WORKER_CONCURRENCY
    None,         \* no call
    MaxUpsets     \* bound: crashes, stalls, database errors, false alarms

ASSUME ConcurrencyAssumption == Concurrency \in Nat \ {0}
ASSUME UpsetsAssumption == MaxUpsets \in Nat
ASSUME CallsAssumption == None \notin Calls /\ IsFiniteSet(Calls)
ASSUME JobsAssumption == IsFiniteSet(Jobs)

VARIABLES
    row,       \* jobs.status; claimed and running: by this worker
    wstat,     \* workers.status of this worker
    loop,      \* where pollLoop is
    asked,     \* the capacity its claimJobs was called with
    got,       \* rows that claimJobs has committed and not yet returned
    pipe,      \* by job, the execute() calls; open: its execution row is 'running'
    inflight,  \* this.inflight, from job to the call whose promise it holds
    running,   \* this.running
    stage,     \* how far stop() and the shutdown of main.ts have come
    awaited,   \* the promises that allSettled was given
    drained,   \* what the race of drain and timeout answered
    rejoined,  \* history: jobs claimed again under a call that has not ended yet
    dropped,   \* history: jobs of which an error lost the last claim or report
    revoked,   \* history: how often a job was taken from under its calls
    upsets

procVars == <<loop, asked, got, running, stage, awaited, drained>>
pipeVars == <<pipe, inflight>>
history  == <<rejoined, dropped, revoked>>
vars     == <<row, wstat, procVars, pipeVars, history, upsets>>

Active == {"claimed", "running"}
Stages == {"up", "waitLoop", "scheduler", "drain", "offline", "closing", "exited"}
Idle   == [step |-> "idle", open |-> FALSE]

TypeOK ==
    /\ row \in [Jobs -> {"queued", "done"} \cup Active]
    /\ wstat \in {"online", "draining", "offline", "dead"}
    /\ loop \in {"claiming", "sleep", "ended"}
    /\ asked \in 0..Concurrency
    /\ got \in SUBSET Jobs
    /\ pipe \in [Jobs -> [Calls -> [step : {"idle", "start", "handler"}, open : BOOLEAN]]]
    /\ inflight \in [Jobs -> Calls \cup {None}]
    /\ running \in BOOLEAN /\ drained \in BOOLEAN
    /\ stage \in Stages
    /\ awaited \in SUBSET (Jobs \X Calls)
    /\ rejoined \in SUBSET Jobs /\ dropped \in SUBSET Jobs
    /\ revoked \in [Jobs -> 0..MaxUpsets]
    /\ upsets \in 0..MaxUpsets

\* start(): the row is registered, the loop and the signal handlers are set up.
Init ==
    /\ row = [j \in Jobs |-> "queued"]
    /\ wstat = "online"
    /\ loop = "claiming" /\ asked = Concurrency /\ got = {}
    /\ pipe = [j \in Jobs |-> [c \in Calls |-> Idle]]
    /\ inflight = [j \in Jobs |-> None]
    /\ running = TRUE /\ stage = "up"
    /\ awaited = {} /\ drained = FALSE
    /\ rejoined = {} /\ dropped = {} /\ revoked = [j \in Jobs |-> 0] /\ upsets = 0

Alive      == stage # "exited"
CallsOf(j) == {c \in Calls : pipe[j][c].step # "idle"}
Busy       == {j \in Jobs : CallsOf(j) # {}}
InFlight   == {j \in Jobs : inflight[j] # None}      \* keys: inflight.size
Upset      == upsets < MaxUpsets /\ upsets' = upsets + 1

-----------------------------------------------------------------------------
\* The poll loop.

\* Faulty variants of Poll: the capacity does not count what is running; it is one
\* too large.
PollBlind(size) ==
    IF running THEN loop' = "claiming" /\ asked' = Concurrency
               ELSE loop' = "ended" /\ asked' = 0

PollOneMore(size) ==
    IF running THEN loop' = "claiming" /\ asked' = Concurrency - size + 1
               ELSE loop' = "ended" /\ asked' = 0

\* The head of the loop, with `size` entries in the map: leave, ask for the free
\* capacity, or sleep.  It runs in the turn of what precedes it.
Poll(size) ==
    \/ ~running /\ loop' = "ended" /\ asked' = 0
    \/ running /\ size < Concurrency /\ loop' = "claiming" /\ asked' = Concurrency - size
    \/ running /\ size >= Concurrency /\ loop' = "sleep" /\ asked' = 0

\* One queue's transaction of claimJobs commits: rows are this worker's before
\* the process knows of them.
ClaimCommit(S) ==
    /\ Alive /\ loop = "claiming"
    /\ S # {} /\ \A j \in S : row[j] = "queued"
    /\ Cardinality(got) + Cardinality(S) <= asked
    /\ row' = [j \in Jobs |-> IF j \in S THEN "claimed" ELSE row[j]]
    /\ got' = got \cup S
    /\ dropped' = dropped \ S
    /\ UNCHANGED <<wstat, loop, asked, pipeVars, running, stage, awaited, drained,
                   rejoined, revoked, upsets>>

\* launch() of the rows J, and what the loop does next: it asks again at once if
\* something was claimed and a slot is free.  The entry of a job that is already in
\* the map is overwritten.
Launch(J) ==
    LET new(j) == CHOOSE c \in Calls \ CallsOf(j) : TRUE
        size   == Cardinality(InFlight \cup J)
    IN  /\ \A j \in J : CallsOf(j) # Calls
        /\ pipe' = [j \in Jobs |-> IF j \in J
                       THEN [pipe[j] EXCEPT ![new(j)].step = "start"] ELSE pipe[j]]
        /\ inflight' = [j \in Jobs |-> IF j \in J THEN new(j) ELSE inflight[j]]
        /\ rejoined' = rejoined \cup (J \cap Busy)
        /\ IF J = {} \/ size >= Concurrency
           THEN loop' = "sleep" /\ asked' = 0 ELSE Poll(size)

\* Faulty variant of ClaimReturns: a claim that stop() has overtaken is ignored.
ClaimReturnsUnlessStopped ==
    /\ Alive /\ loop = "claiming"
    /\ Launch(IF running THEN got ELSE {})
    /\ got' = {}
    /\ UNCHANGED <<row, wstat, running, stage, awaited, drained, dropped, revoked, upsets>>

\* claimJobs returns: every row is launched, whatever `running` has become.
ClaimReturns ==
    /\ Alive /\ loop = "claiming"
    /\ Launch(got)
    /\ got' = {}
    /\ UNCHANGED <<row, wstat, running, stage, awaited, drained, dropped, revoked, upsets>>

\* claimJobs rejects: what an earlier queue's transaction committed is not known.
ClaimRejects ==
    /\ Alive /\ loop = "claiming" /\ Upset
    /\ loop' = "sleep" /\ got' = {} /\ asked' = 0
    /\ dropped' = dropped \cup got
    /\ UNCHANGED <<row, wstat, pipeVars, running, stage, awaited, drained, rejoined,
                   revoked>>

\* The timer of sleep() fires.  (stop() wakes a sleeper itself: Stop.)
SleepEnds ==
    /\ Alive /\ loop = "sleep" /\ Poll(Cardinality(InFlight))
    /\ UNCHANGED <<row, wstat, got, pipeVars, running, stage, awaited, drained, history,
                   upsets>>

-----------------------------------------------------------------------------
\* A pipeline.  Its end deletes the map's entry under the job's id, whoever's it is.

Ended(j, c) ==
    /\ pipe' = [pipe EXCEPT ![j][c] = Idle]
    /\ inflight' = [inflight EXCEPT ![j] = None]
    /\ rejoined' = IF CallsOf(j) = {c} THEN rejoined \ {j} ELSE rejoined

\* startExecution commits: the execution is inserted whatever the row's status.
Start(j, c) ==
    /\ Alive /\ pipe[j][c].step = "start"
    /\ \A d \in Calls : ~pipe[j][d].open
    /\ pipe' = [pipe EXCEPT ![j][c] = [step |-> "handler", open |-> TRUE]]
    /\ row' = [row EXCEPT ![j] = IF @ = "claimed" THEN "running" ELSE @]
    /\ UNCHANGED <<wstat, procVars, inflight, history, upsets>>

\* startExecution rejects.  Another execution has the attempt's number: that of an
\* open call, or one that was concluded after the reaper had taken the job back, so
\* that the job was not charged for it; the row stays as it is.  Or the database
\* fails, before or after the commit.
StartRejected(j, c) ==
    /\ Alive /\ pipe[j][c].step = "start"
    /\ \/ (revoked[j] > 0 \/ \E d \in Calls : pipe[j][d].open) /\ UNCHANGED <<row, upsets>>
       \/ Upset /\ \/ UNCHANGED row
                   \/ row[j] = "claimed" /\ row' = [row EXCEPT ![j] = "running"]
    /\ Ended(j, c)
    /\ dropped' = dropped \cup {j}
    /\ UNCHANGED <<wstat, procVars, revoked>>

\* The handler returns and completeExecution commits: guarded by the row's status.
Complete(j, c) ==
    /\ Alive /\ pipe[j][c].step = "handler"
    /\ row' = [row EXCEPT ![j] = IF @ = "running" THEN "done" ELSE @]
    /\ Ended(j, c)
    /\ UNCHANGED <<wstat, procVars, dropped, revoked, upsets>>

\* The handler throws or is outrun by its timeout and failExecution commits: the
\* job is retried or buried, unless the execution was concluded by the reaper.  On a
\* timeout it is execute() that ends; the handler is told to by its AbortSignal.
Fail(j, c) ==
    /\ Alive /\ pipe[j][c].step = "handler"
    /\ IF pipe[j][c].open /\ row[j] \in Active
       THEN \E after \in {"queued", "done"} : row' = [row EXCEPT ![j] = after]
       ELSE UNCHANGED row
    /\ Ended(j, c)
    /\ UNCHANGED <<wstat, procVars, dropped, revoked, upsets>>

\* Neither transaction commits: the call ends and the row stays running.
ReportLost(j, c) ==
    /\ Alive /\ pipe[j][c].step = "handler" /\ Upset
    /\ Ended(j, c)
    /\ dropped' = dropped \cup {j}
    /\ UNCHANGED <<row, wstat, procVars, revoked>>

-----------------------------------------------------------------------------
\* stop() and the process's end.

\* A signal: no more claims, and a sleeping loop is woken, to end.  (One that awaits
\* its claim has no wakeFn: if nothing was claimed it sleeps once more.)
Stop ==
    /\ stage = "up"
    /\ running' = FALSE /\ stage' = "waitLoop"
    /\ loop' = IF loop = "sleep" THEN "ended" ELSE loop
    /\ UNCHANGED <<row, wstat, asked, got, pipeVars, awaited, drained, history, upsets>>

\* Faulty variant of SetDraining: the loop is not waited for.
SetDrainingAtOnce ==
    /\ stage = "waitLoop"
    /\ stage' = "scheduler" /\ wstat' = "draining"
    /\ UNCHANGED <<row, loop, asked, got, pipeVars, running, awaited, drained,
                   history, upsets>>

\* The loop has ended; the status is written over whatever it was, or the write
\* fails, which is ignored.
SetDraining ==
    /\ stage = "waitLoop" /\ loop = "ended"
    /\ stage' = "scheduler"
    /\ \/ wstat' = "draining" /\ UNCHANGED upsets
       \/ Upset /\ UNCHANGED wstat
    /\ UNCHANGED <<row, loop, asked, got, pipeVars, running, awaited, drained, history>>

\* The scheduler has stopped (SchedulerLeader); allSettled takes the promises
\* that are in the map now.
BeginDrain ==
    /\ stage = "scheduler"
    /\ stage' = "drain" /\ awaited' = {<<j, inflight[j]>> : j \in InFlight}
    /\ UNCHANGED <<row, wstat, loop, asked, got, pipeVars, running, drained,
                   history, upsets>>

\* Every awaited promise has settled, or drainTimeoutMs is over.
EndDrain ==
    /\ stage = "drain"
    /\ stage' = "offline"
    /\ \/ (\A a \in awaited : pipe[a[1]][a[2]].step = "idle") /\ drained' = TRUE
       \/ drained' = FALSE
    /\ UNCHANGED <<row, wstat, loop, asked, got, pipeVars, running, awaited,
                   history, upsets>>

SetOffline ==
    /\ stage = "offline"
    /\ stage' = "closing"
    /\ \/ wstat' = "offline" /\ UNCHANGED upsets
       \/ Upset /\ UNCHANGED wstat
    /\ UNCHANGED <<row, loop, asked, got, pipeVars, running, awaited, drained, history>>

\* What the process remembers ends with it.
Gone ==
    /\ stage' = "exited" /\ loop' = "ended" /\ running' = FALSE
    /\ asked' = 0 /\ got' = {} /\ awaited' = {} /\ drained' = FALSE
    /\ pipe' = [j \in Jobs |-> [c \in Calls |-> Idle]]
    /\ inflight' = [j \in Jobs |-> None]
    /\ rejoined' = {} /\ dropped' = {} /\ revoked' = [j \in Jobs |-> 0]
    /\ UNCHANGED <<row, wstat>>

\* closePool() and process.exit(0): what still runs ends with the process.
Exit  == stage = "closing" /\ Gone /\ UNCHANGED upsets
Crash == Alive /\ Upset /\ Gone

-----------------------------------------------------------------------------
\* The rest of the fleet: the reaper of some leader.

\* Faulty variant of DeclareDead: only 'online' rows are looked at.
DeclareDeadOnline ==
    /\ wstat = "online"
    /\ \/ ~Alive /\ UNCHANGED upsets
       \/ Alive /\ Upset
    /\ wstat' = "dead"
    /\ UNCHANGED <<row, procVars, pipeVars, history>>

\* Missed heartbeats: the process is gone, or alive and too slow.
DeclareDead ==
    /\ wstat \in {"online", "draining"}
    /\ \/ ~Alive /\ UNCHANGED upsets
       \/ Alive /\ Upset
    /\ wstat' = "dead"
    /\ UNCHANGED <<row, procVars, pipeVars, history>>

\* The reaper takes a row back: its lease is over or its worker is dead.  If the
\* process works on it (an upset), it does not notice: a running execution is
\* lost, and the job is queued again or, at its last attempt, buried.
GiveBack(j) ==
    /\ row[j] \in Active
    /\ IF j \in got \cup Busy
       THEN Upset /\ revoked' = [revoked EXCEPT ![j] = @ + 1]
       ELSE UNCHANGED <<upsets, revoked>>
    /\ \/ row' = [row EXCEPT ![j] = "queued"]
       \/ row[j] = "running" /\ row' = [row EXCEPT ![j] = "done"]
    /\ pipe' = [pipe EXCEPT ![j] = [c \in Calls |-> [@[c] EXCEPT !.open = FALSE]]]
    /\ UNCHANGED <<wstat, procVars, inflight, rejoined, dropped>>

-----------------------------------------------------------------------------
PipeStep(j, c) ==
    Start(j, c) \/ StartRejected(j, c) \/ Complete(j, c) \/ Fail(j, c) \/ ReportLost(j, c)
LoopStep == ClaimReturns \/ ClaimRejects \/ SleepEnds
StopStep == SetDraining \/ BeginDrain \/ EndDrain \/ SetOffline \/ Exit

Next ==
    \/ LoopStep \/ Stop \/ StopStep \/ Crash \/ DeclareDead
    \/ \E S \in SUBSET Jobs : ClaimCommit(S)
    \/ \E j \in Jobs : GiveBack(j) \/ \E c \in Calls : PipeStep(j, c)

Spec == Init /\ [][Next]_vars

\* A process that lives goes on: timers fire, the database answers or refuses, and
\* a handler is outrun by its timeout.  Some leader's reaper ticks.  No signal,
\* crash or stall is owed, and no row needs to be claimed.
Fairness ==
    /\ WF_vars(LoopStep) /\ WF_vars(StopStep)
    /\ \A j \in Jobs, c \in Calls : WF_vars(PipeStep(j, c))
    /\ WF_vars(~Alive /\ DeclareDead)
    /\ \A j \in Jobs : WF_vars(~Alive /\ GiveBack(j))

FairSpec == Spec /\ Fairness

-----------------------------------------------------------------------------
\* Pipelines are bounded: the map never holds more entries than there are slots, and
\* of a job it misses at most one pipeline for every time the reaper took the job
\* from under this process.  Without such an upset WORKER_CONCURRENCY bounds them all.
\* (The capacity of pollLoop, computed before an await; the entries of launch(),
\* overwritten and deleted by the job's id alone.)
SlotsKept ==
    /\ Cardinality(InFlight) <= Concurrency
    /\ \A j \in Jobs : Cardinality(CallsOf(j) \ {inflight[j]}) <= revoked[j]

\* A row this worker holds is on its way to a pipeline or in one, unless an error
\* lost it or the process is gone: in particular a claim that commits while stop()
\* waits is still launched (pollLoop launches without asking `running`).
ClaimsAreLaunched ==
    \A j \in Jobs :
        Alive /\ row[j] \in Active => j \in got \cup dropped \cup Busy

\* When stop() reports a complete drain, no pipeline runs except those of jobs that
\* were claimed again under a running one (the promises are taken from the map
\* after the loop has ended).
DrainIsComplete ==
    stage \in {"offline", "closing"} /\ drained =>
        got = {} /\ Busy \subseteq rejoined

\* A signal, or a crash, is followed by the process's end, a row that says so, and
\* the return of every job it held.
GoneLeavesNothing ==
    ~running ~> /\ ~Alive
                /\ wstat \in {"offline", "dead"}
                /\ \A j \in Jobs : row[j] \notin Active
=============================================================================
