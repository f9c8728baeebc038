# A specification of Codity

TLA+ modules of the job scheduler in `src/`, the TLC runs that check them on small
instances, and TLAPS proofs of the central invariants. They also model its REST API as far
as it writes, one worker process, and one tab of its dashboard. Every definition is
translated from the TypeScript and SQL of the repository; `PROJECT.json` maps each of them
to its lines.

## 1. The system

Codity is a job scheduler without a broker: API processes, worker processes and the elected
scheduler meet only in PostgreSQL.

| Part | Code | State | Operations | Correct when |
|---|---|---|---|---|
| Job lifecycle | `server/src/core/jobs.ts` | `jobs`, `job_executions`, `dead_letter_jobs` | create, start, complete, fail, cancel, retry, discard | attempts are numbered and budgeted, history is immutable, the dead letter queue mirrors the failed jobs, every job is concluded |
| Claiming | `core/claim.ts` | job rows, a mutex per queue | the claim transaction: lock, count, take | a row is taken once, the limits of the queue hold, nobody starves |
| Queue administration | `api/routes/queues.ts` | `queues` | limits, pause, resume, delete | claims under way see a consistent row; a busy queue is not deleted |
| Worker service | `worker/index.ts`, `worker/main.ts` | in-flight map, timers | poll, launch, execute, drain | what is claimed is run or given back |
| Worker registry | `core/workers.ts` | `workers` | register, heartbeat, status | a live worker's jobs are left alone, a dead one's are recovered |
| Scheduler ticks | `core/scheduler.ts` 16-142 | none of its own | promote, materialize, reap, prune | idempotent, safe when two schedulers tick |
| Leader election | `core/scheduler.ts` 144-228 | a session, `isLeader`, an advisory lock | tick, error listener, stop | one leader with a session, and always another one after it |
| Cron schedules | `core/scheduler.ts` 24-72, `api/routes/schedules.ts` | `scheduled_jobs` | create, patch, delete, materialize | an occurrence is enqueued once, the next run fits the expression |
| Retry policies | `core/retry.ts`, `routes/projects.ts` | `retry_policies`, the snapshot in a job | create, edit, delete, assign to a queue, resolve, back off | a policy stays in its project, the snapshot and its delays within their bounds |
| Submission | `core/jobs.ts` 33-220, `routes/jobs.ts` | idempotency keys, batches | submit, batch | a key makes one job, whatever is repeated, raced or rolled back |
| Tenancy | `access.ts`, `middleware.ts`, `routes/{auth,orgs,projects}.ts` | accounts, members, projects, keys | register, add, remove, create, delete, rotate | an owner's row is never deleted, access follows the role |
| Statistics and listings | `core/stats.ts`, `core/workers.ts`, the listings of jobs and dead letters | none | count, group, average, page | the figures of different pages agree, a page walk covers the list |
| Dashboard | `web/src` | the token, a page's data, its polls, a form, a revealed key | navigate, poll, write, sign in and out | what is shown as settled is of the object in the address and not older than the page's own change |
| Handlers, validation, shell, configuration | the rest of `server/src` | none of their own | | |

**How they interact.** By committed transactions on shared rows, by row locks (`FOR UPDATE
SKIP LOCKED`, the first UPDATE of a transaction), by two kinds of advisory lock (per queue
and per transaction; the leader's, per session), and by time: leases, heartbeats, `run_at`,
`next_run_at`. Inside a worker process, by awaits: the poll loop, a pipeline per job, a
heartbeat timer, the scheduler's timer and `stop()` interleave at every one. The API is
stateless: a request reads (who calls, the role, the target), awaits, and writes, and other
requests run in between. The dashboard polls it; answers come in any order.

**What is hard.** A worker may be declared dead, or its lease pass, while it only stalls; it
then reports late. An answer may be lost after its COMMIT. A claim counts in one statement
and takes in a later one. A leader may lose its lock without knowing it. A user may cancel,
retry, edit or delete at any of these points. `stop()` overtakes a claim that is out; a job
is claimed again by the process that still runs it. A policy is checked in one statement and
written in a later one. A key is submitted twice at the same time, and one of the two rolls
back. A poll is answered after the page has gone elsewhere. `PROJECT.json` lists each hazard
at its line with the properties that cover it.

## 2. Modules

| Module | Contents |
|---|---|
| `JobContract` | the abstract specification: what is promised of a job, whatever the processes do |
| `JobLifecycle` | jobs, executions, letters, worker pipelines, heartbeats, reaper; implements `JobContract` |
| `JobLifecycleProofs` | its inductive invariant and theorems, and that it implements `JobContract` |
| `JobHealthProofs` | what holds of it in addition when no live process stalls |
| `QueueClaim` | the claim, statement by statement, against every other writer of jobs and queues |
| `QueueClaimProofs` | its inductive invariant and theorems |
| `SchedulerLeader` | the election: `tick()`, the session, `stop()`, crashes |
| `CronSchedules` | the materializer and the schedule routes |
| `Scheduler` | the composition of the two: the cron duty of whoever believes it leads |
| `SchedulerProofs` | the invariants of both halves, and that the composition implements the cron specification |
| `WorkerService` | one worker process: poll loop, capacity, the map of running pipelines, `stop()` and the drain |
| `WorkerServiceProofs` | its inductive invariant and theorems |
| `Tenancy` | accounts, members, projects, keys, and the way a request is authorized |
| `RetryBackoff` | `computeBackoffMs`, as operators |
| `Submission` | EXTENDS the two: retry policies, the policy of a queue, keyed jobs and batches |
| `SubmissionProofs` | owners, and the policies of queues |
| `SubmissionJobProofs` | one job per idempotency key, sound retry snapshots, the bounds of the backoff, types |
| `Dashboard` | one browser tab against the API |
| `DashboardProofs` | its inductive invariant and theorems |
| `Statistics`, `Listing` | what the read-only routes compute, as operators |
| `ReadChecks` | assumptions that compare these operators with reference definitions over bounded inputs |
| `MC...` | the small instances for TLC |

`Scheduler` composes `SchedulerLeader` and `CronSchedules`; `Submission` composes `Tenancy`
and `RetryBackoff`; `JobLifecycle` composes the rows with the pipelines and the reaper and
implements `JobContract`. `JobLifecycle`, `QueueClaim` and `WorkerService` share the job row
and look at it from three sides: attempts and executions for all workers; the locks and
counts of a queue; the memory of one process. Each has the others' writes to the row as
actions of its own.

Definitions headed "Faulty variant of ..." are not part of the model. Each is a plausible
bug of the definition it names (a dropped guard, a missing reset) and shows, put in that
definition's place, that a property would notice.

### JobLifecycle

A row of `jobs` is the functions `status`, `attempts`, `maxAttempts`, `claimedBy`, `lease`
and `result`; `job_executions` is `exec[job][attempt]` and `dead_letter_jobs` is
`dlq[job][attempts_made]`. `lease` is `lease_expires_at` compared with `now()`, `silent` the
workers whose last heartbeat is too old; the statuses online and draining of a worker are
one value, since no statement tells them apart. One action is one transaction; its row lock makes
that exact, since each transaction first updates the row it goes on to decide about.

`pipe` is the part a test hardly reaches: an `execute()` call in flight, with the copy of
the job row it was launched with. It goes from `launched` (before `startExecution`) to
`handling` (the handler races its timeout) to `failing` (the catch block). Its copy is never
refreshed, and `failExecution` compares the attempt with the copy's `max_attempts`, while
the reaper uses the row's own. A pipeline is not its handler: on a timeout `execute()` ends
and the handler that lost the race (`worker/index.ts:159`) goes on until it observes its
AbortSignal, as `handlers.ts:6` asks. The models end both together. This is an assumption
about handlers, which the code cannot enforce; what is said of executors (`OneExecutor`,
`SlotsKept`) is said of pipelines.

| Action | Code |
|---|---|
| `Create`, `Cancel`, `RetryNow`, `Discard` | the functions of `core/jobs.ts` that the routes call |
| `Claim`, `ClaimLost` | a committed claim that reaches `launch()`, or does not |
| `StartExecution`, `StartConflict`, `StartError` | `startExecution`; UNIQUE (job_id, attempt) violated; the connection fails before or after COMMIT |
| `CompleteExecution`, `CompleteError` | the same for `completeExecution`, whose failure falls into the catch block |
| `FailExecution`, `FailError` | `failExecution`, in the four outcomes `FailStolen`, `FailOrphan`, `FailRetry`, `FailBury` |
| `LeaseExpires`, `GoSilent`, `Heartbeat`, `Crash`, `StopBegin`, `StopEnd` | time and processes |
| `PromoteDue`, `DeclareDead`, `ReapLost`, `ReapUnstarted` | the tick |

Retry-all of the dead letters (`dlq.ts`) commits one `RetryNow` after another, for a list read
before; trigger of a schedule is a `Create`. `StopBegin` and `StopEnd` write the status of
the worker or fail to: `stop()` ignores the error. `Freezes` says whether a live process may stall past its lease or its heartbeat. With it,
the tables must stay sound; without it, the promises about execution must hold too.

### JobContract

Six phases, an owner, "an attempt is open", "a letter is pending". The step that carries the
weight is `Bury`: a job dies only by closing an open attempt and writing its one letter, and
`Open` never happens on a dead job. `JobLifecycle` implements it under the mapping
`phaseBar`, `ownerBar`, `openBar`, `letterBar`.

### QueueClaim

A claimer is a program counter over the statements of `claimFromQueue`: `lock` (BEGIN is
done, `pg_advisory_xact_lock` waits), `count`, `rate`, `update`, `commit`. Under READ
COMMITTED each statement reads what is committed then, so each is an action. The claim's
`now()` is that of BEGIN, `age` seconds ago, which may be before the wait for the lock;
`claimedAt` and `sentAt` are kept as ages. `sentAt` is history: the time of the last claim,
which no conclusion clears. `peak` and `peakRate` are history as well: the largest limit
since the queue was idle, which is what "within the limit" means while a PATCH lowers it.

### SchedulerLeader, CronSchedules, Scheduler

`pc` is the await a tick is at, `client` the processes with a session, `lost` those whose
session the server has dropped without their knowing, `leader` those with `isLeader`,
`holder` the lock at the server (`Ghost` for a session whose client is gone). The duties run
through the pool, so no action of `CronSchedules` asks who leads: `Scheduler` lets whoever
is at its cron duty run the materializer, and a COMMIT may succeed while its answer is lost.

`CronSchedules` keeps the rows, the rows each materializer has locked (`held`), what its
SELECT returned (`read`) and what it has written (`plan`), and a PATCH between its read and
its UPDATE. The occurrences of an expression come from the cron-parser library and are the
constant `NextCronRun`, of which only `CronAssumption` is used: the next one is later.
`fired` and `total` are history.

### WorkerService

`loop` is where `pollLoop` is (`claiming` while `claimJobs` is awaited), `asked` the
capacity it was called with, `got` what it has committed and not yet returned. `pipe` has,
by job, the `execute()` calls; `inflight` is the map, whose key is the job: a claim of a job
that still runs here overwrites the entry, and the end of either call deletes it. `stage`
goes through `stop()` and the shutdown of `main.ts`: wait for the loop, `draining`, stop the
scheduler, `allSettled` of the promises then in the map (`awaited`) against a timeout,
`offline`, exit. `rejoined` and `revoked` are history. A job claimed again under a call of
its own is the one case in which the map does not know a running pipeline: `rejoined` are
the jobs it has happened to, `revoked` counts how often the reaper took a job from under its
calls, which bounds the pipelines the map may have lost.

### Tenancy, RetryBackoff, Submission

A request is a record in `req`, and its `step` the statement it is about to run: `...Ask` is
the middleware and the reads up to the first await after which something may have changed,
the other actions its later statements. A user is a member of an organization with a role;
an integration calls with a project's key and is a member of that project only
(`MayProject`).

A submission reads the queue's row, checks the policy it names, resolves the retry snapshot
and inserts, key by key; `job[q][k]` says whose job has the key, and `kept` that its
transaction has committed. `Insert` waits (it is not enabled) while the key belongs to an
uncommitted row of another request, as `ON CONFLICT DO NOTHING` does. `Commit` answers or
loses its answer; `told` is history: what was answered. `DropProject` waits for the
transactions that have inserted into its queues. Each input of a batch may name a policy of
its own. The route checks and resolves them one after the other and compares no two of
these reads, so `CheckPolicyOverride` and `Resolve` are one step for the whole batch.

### Dashboard

`route` is the object in the address, `hook` the state of the page's `usePoll`, `polls` its
requests with the token they carry and the answer they have got; a poll of a cancelled
effect belongs to `None`. The server behind the API is a version number per queue and
project. `acked` is history: the version each page has refreshed after.

### Statistics, Listing, ReadChecks

The read-only routes keep nothing, so they are operators over sets of rows. `ReadChecks`
states eleven named assumptions of them, over every set of rows of a small size; TLC
evaluates them before the run `api`, whose module extends it.

| Assumption | What it compares |
|---|---|
| `ChartShowsEachOnce`, `ChartNeverInvents` | the bars of the chart with the executions of their minutes, also when the API's clock is not the database's |
| `OverviewAddsUp`, `WorkersAddUp` | project with queue, workers with jobs and chart, a batch's counts with its jobs |
| `RatesAreClose`, `DurationsAreOrdered` | the rounded rate with the exact one; mean and percentiles with the durations |
| `PagerWalksTheList`, `PagesPartition`, `TotalsAgreeAtRest` | a walk by Next and Prev with the list; the pages with each other; the total with the rows |
| `TiedPagesMayMiss`, `StrandedTab` | two things the code does that a reader may not expect (section 6) |

## 3. Runs

| Run | Instance | Question |
|---|---|---|
| `faults` | 1 job, 2 workers, 2 pipelines, 2 attempts, 1 fault, stalls | do the tables stay sound, does the lifecycle implement the contract, and does every claim end, whatever stalls, crashes or is lost? |
| `healthy` | 2 jobs, 2 workers, 2 pipelines, 1 fault, no stalls | one executor, budget, right result, healthy jobs left alone, every job concluded |
| `late`, `revenant`, `poison` | 1 job, no fault, stalls | three promises that stalls break (section 6) |
| `claim` | 1 queue, 2 jobs, 2 claimers, limits {1, 2}, rate 1, 1 upset | do limit, rate and row locks hold, statement by statement, and is a queued job served? |
| `rate`, `delete` | the same | two promises that fail (section 6) |
| `scheduler` | 2 processes of which one stays, 1 schedule with 2 expressions, 1 editor, 1 fault, 3 instants | one leader with a session; once per occurrence; the next run fits; due schedules fire |
| `worker` | 2 slots, 3 jobs, 2 calls of a job, 1 upset | do the slots hold, is what was claimed launched, is a complete drain complete, and does a process that ends leave nothing behind? |
| `api` | 3 requests, 3 users, 3 projects, 3 policies, 2 queues, 2 keys, batches of 2 | do owners stay, policies and snapshots fit their project, and keys name one job, in any interleaving? |
| `dashboard` | 2 queues, 2 projects, 2 polls in flight, 1 change, 1 upset | is what is shown current, does the form fit, and does a visible page settle? |

**Bounds.** Two workers and two pipelines give a zombie and its successor, which is all the
code's guards can confuse: they compare one execution with one job. Two attempts give a
retry and a last attempt; a manual retry reuses the cap. `MaxFaults` and `MaxUpsets` bound
the disturbances that could otherwise repeat for ever; `Capacity` 1 with two claimers of two
jobs is where the limit of a queue is contended. Claim transactions do not live through two
full seconds (`Tick`). A schedule's expressions are periods (`Every` in `MCScheduler`); the
periods 1 and 2 over the instants 0 to 2 have two occurrences of the one and let an
expression change before or after the other. `QueuedIsServed` is checked of the jobs in
`Watched`, one of the two, which are alike; watching both doubles what TLC has to search and
shows nothing else.

Some cases lie outside one run and inside another check. The jobs of `faults` are created
with one attempt, so a second comes from a manual retry there; automatic retries are in
`healthy`, and the theorems hold for every cap. `claim` has one queue and one rate: claimers
of different queues share no row, so what a second queue adds is that the rollback of a
later one leaves the claims of an earlier one committed and unlaunched (`ClaimLost` of
`JobLifecycle`, in `faults`); edits of the rate are left to `RateCorrect`, which holds for
every set of rates and every edit.

Two slots and three jobs are the least where a slot is contended while another is free; two
calls of a job give the overwritten entry. An upset of `worker` is a crash, a row taken from
under its call, a database error or a false alarm. Three requests of `api` are the least in
which a write falls between another's read and write and a third undoes what the first
relied on (the policy that is deleted, the project that goes, the role that is given back);
of the three projects one is yet to be created, and the keys of a batch may be equal. In
`dashboard` two polls are the least that overlap. The proofs of section 5 need none of these
bounds.

**Deadlock** is not checked: when the jobs are concluded, the faults spent and the clock at
its bound, the instances have nothing left to do.

**Symmetry** is declared in runs of safety properties only (`api`: the requests).

## 4. Fairness

Weak fairness of what runs without being asked: the pipelines of a live process (the handler
races a timer, so it ends), the polls, time, the ticks of the leader, the release of what a
process holds when it ends. Never of a user, a crash, a stop or a fault. In `QueueClaim` a
waiter for the advisory lock has strong fairness: PostgreSQL queues the waiters of a lock.
In `Scheduler` the assumption is weaker: each process as a whole goes on, whichever of the
steps open to it it takes, and so do the surroundings (the server ends the session of a
client that is gone, time passes, a PATCH that was sent is carried out). In the run
`faults` time and the reaper alone are fair (`ReaperSpec`): every pipeline, poll and
heartbeat may hang for ever. `WorkerService`
owes the steps of a live process (timers fire, the database answers or refuses, the handler
races its timeout) and, of a process that is gone, that some leader's reaper declares it and
takes its rows back; no signal is owed. `Dashboard` owes the interval, the answers and their
arrival, not the user. `Submission` has no liveness: a request ends or its client gives up.
In `Scheduler` one process is `Steady`, which is the assumption of "another worker acquires
leadership": with nobody left, nothing fires.

## 5. Proofs

All for every value of the constants that satisfies the named assumptions, checked by TLAPS
to the last leaf. Every invariant of the passing runs, and every property of theirs that
constrains single steps, is stated by a theorem; what is left to TLC is at the end of this
section.

**`JobLifecycleProofs`**: `TypeCorrect`, `NumberingCorrect`, `RunningCorrect`,
`OwnershipCorrect`, `DeadLettersCorrect` and `ImmutabilityCorrect`, with stalls and faults
allowed. None of the invariants is inductive alone: that a late INSERT neither leaves a gap
in the numbering nor opens an attempt of a dead job rests on what the pipeline knew when it
was launched. `PipeOf` states it (the attempt before its own is concluded; once past
`launched`, its own is on record), `RoomOf` that a job which is not at rest has an attempt
left, and `IInv` is the conjunction. One lemma covers each of the ways tables change:
`QuietStep`, `InsertStep`, `CompleteStep`, `FailStep`, `RowStep`.

`ContractKept` is the refinement of `JobContract`: initial states map to initial states, and
every step to a step of the contract or a stutter. A step changes the rows of one job, so
the lemma `Bars` reduces the mapped variables to four values of that job, and one lemma per
group of actions computes these. `IInv` supplies what no guard of the code tests: an INSERT
finds no attempt open and no dead job, and the burial of a job closes its only open attempt
and finds no letter pending. Nothing is assumed about stalls.

**`JobHealthProofs`**: `OneExecutorCorrect`, `CountCorrect`, `BudgetCorrect`,
`ResultCorrect`, `HealthyJobCorrect`, `LateResultCorrect`, `FreshClaimCorrect`, all under
the hypothesis `~Freezes` (no live process stalls past its lease or its heartbeat; crashes,
stops, database errors and lost answers are allowed). The hypothesis is one the code needs:
`LateResultCorrect` and `FreshClaimCorrect` prove exactly the formulas that the runs `late`
and `revenant` refute with stalls. That two pipelines never run one job is not inductive,
and neither is "a pipeline past `idle` owns its job": a pipeline whose completion was
committed but reported as an error still runs, while its job may be re-driven and claimed
anew. `Holds` names the pipelines that can still move a job, `HeldOf` says that the row of a
held job is the one its pipeline was launched with, under a live lease, and `AloneOf` that
one pipeline holds it; `AliveOf` and `WatchOf` say that its process lives and that only
processes that have ended are silent or declared dead, so the reaper leaves it alone.
`CountOf`, `BudgetOf` and `ResultOf` then follow the counts. `HInv` is the conjunction,
inductive together with `IInv`.

**`QueueClaimProofs`**: `TypeCorrect`, `LimitCorrect`, `RateCorrect`, `RowsCorrect`. The
claim compares the limit with a count that is three statements old. `BudgetOf` and `RateOf`
say that this count is still good, because everything the others do while a claimer holds
the lock only lowers it (`OnlyLess`), and `LockOf` says that it does hold it. The other
cases are a PATCH, which raises the peak, and the clock, which turns the claims of this
second into those of the last.

**`SchedulerProofs`**: `TypeCorrect`, `LeaderCorrect`, `ImplementsCron`, `OnceCorrect`,
`FitCorrect`. The composition is taken apart: each step is a step of `CronSchedules` or a
stutter (`ImplementsCron`), so what holds of the materializer holds whoever leads; this is
the claim of `design-decisions.md` that leadership is an optimization. `LInv` adds to
`OneConnectedLeader` that leading ends no later than the session. `CInv` says that what a
transaction read of a row it holds is still so; `OInv` orders the occurrences (enqueued
before next, next before planned), which makes a repetition impossible; `FInv` says that
plans and PATCHes under way fit as well. Two theorems carry a hypothesis, and it is one the
code needs: `OnceCorrect` that the clocks agree (`Lag = 0`), `FitCorrect` that no two
PATCHes overlap.

**`SubmissionProofs`**: `OwnersStay`, `ConfigStaysSound`. Both are about a request that
reads in one step and writes in a later one. DELETE of a member looks at the role and
deletes later, whatever the role has become; `DeleteIsLate` says that the user then still
has an account and is not an owner, which stays true because only a registration makes an
owner, and the user's is over. `MemberInv` adds the shapes of requests and that only
accounts have roles. For the policy of a queue, `ReqsInv` says that a request past its
assertion holds a policy of the queue's project, and `RowsInv` that the rows fit; deletion
is harmless because the foreign key empties the column in the same statement.

**`SubmissionJobProofs`**: `SubmittedOnceAlways`, `SnapshotsSound`, `BackoffBounds`,
`SubmissionTypeCorrect`. What an answer says of a key is read in one step and told in a
later one, in between which others roll back, commit and delete. `Owned` says whose an
uncommitted job is, so that only the commit and the rollback of its own request touch it
(`Mine`); `Settled` and `Named` say what stays true of a committed one until its queue goes,
and that a queue which is gone does not come back (`Keeps`). `JobsInv` is the conjunction
with the shapes of requests; it is inductive together with `ReqsInv` and `RowsInv`.

A snapshot is taken from what three earlier steps have read: the policy of the queue's row,
the project of the override, and the delays another request's PATCH has merged. `ReqSound`
says what each of them still knows when it writes, `SoundInv` adds that policies and
snapshots have their bounds in order. The run looks at the delays of the first three
attempts; `BackoffBounds` gives them for every attempt, every strategy and every outcome of
the jitter, from lemmas about the operators (`PowerPositive`, `AskedGrows`, `JitterBounds`).
`2^n` has no recursive definition the provers could unfold, so `PowerPositive` takes it from
the cardinality of a powerset.

**`WorkerServiceProofs`**: `WorkerTypeCorrect`, `SlotsCorrect`, `ClaimsCorrect`,
`DrainCorrect`. The poll loop computes its capacity before an await, and pipelines end
during it: `Slots` says that what is in the map and what the claim under way may still bring
fit together. For the pipelines the map has lost, `MissedOf` adds up: a call overwritten in
the map (`Missed`), and a claimed or requeued row that may yet overwrite one (`Loose`), each
cost a revocation, so `SlotsKept` bounds the former by `revoked`, however many upsets there
are; the run has one. `HeldOf` names the call that will move a row on: for a claimed row one that
has yet to start, for a running row the one whose execution is open; a call of an earlier
claim that still runs does neither. `Draining` says that the promises taken at the start of
the drain are all there are, until its end, because the loop is over by then. `WInv` is the
conjunction with `MapOf`, which says what the map knows.

**`DashboardProofs`**: `DashboardTypeCorrect`, `ShownCorrect`, `FormCorrect`, `KeyCorrect`.
What is shown was asked some time before it lands. `PollOf` says what a poll in flight is
good for: unless its effect was cancelled, it is of the item in the address and brings
nothing older than what the page has acknowledged. `AwayOf` says that nothing is left of a
page once the tab has left it, `FetchedOf` that the data of the hook outlive a change of the
item but not of the page, `OpenedOf` and `RotatedOf` the same of the form and of the key.
`DInv` is the conjunction.

**Assumptions.** Those named in the modules, among them: the seeded members have accounts; `None` is
none of the other values; seeded policies and queues are of seeded projects; a batch names
at least one key; the default retry bounds are in order (`retry.ts:11`); the rows a worker
sees, its calls of a job and the jobs of the queues are finitely many; the items of the dashboard are none of
its two other pages; the occurrence after an instant is later than it. Theorems with a
hypothesis of their own: `~Freezes` in `JobHealthProofs`, and the two of `SchedulerProofs`. Built into the models is
that a handler ends when its AbortSignal fires (section 2, JobLifecycle).

**Not proved.** Liveness under fairness stays with TLC (`ClaimReleased`, `JobConcludes`,
`QueuedIsServed`, `DueIsEnqueued`, `GoneLeavesNothing`, `PageSettles`), since TLAPS reasons
about neither fairness nor ENABLED here. The assumptions of `ReadChecks` are evaluated by
TLC only: they are about sums and percentiles over lists of any length, whose proofs are
inductions over data.

## 6. Where code and documentation differ

Each is a run that is expected to fail; the traces are short.

* `late`: `completeExecution` guards the job by `status = 'running'` alone. A zombie whose
  attempt was reaped completes the job if a later attempt happens to be running, against
  "late result is discarded" (`architecture.md`).
* `revenant`: a worker declared dead that heartbeats again stays `dead` in its row and goes
  on claiming; each new claim is reapable at once.
* `poison`: a pipeline that stalls between claim and start inserts its execution after the
  reaper has requeued the job. Every later start violates UNIQUE (job_id, attempt), and the
  job is claimed and requeued, uncharged, for ever.
* `rate`: `failExecution` clears `claimed_at`, which is what the rate budget counts: jobs
  that fail at once are dispatched without a limit.
* `delete`: a queue's deletion counts active jobs and deletes in two statements without the
  queue's lock; a claim in between loses its job.

More are visible in the models and have no run:

* with an application clock behind the database's (`Lag > 0`) an occurrence is enqueued
  twice; two concurrent PATCHes of a schedule may leave an expression with the next run of
  another; and two processes may be in their duties at the same time, against the comment
  that the lock "guarantees only one actually executes ticks" (`scheduler.ts:151`), which
  the materializer's row locks make harmless;
* a handler that ignores its signal outlives its timeout (`worker/index.ts:159`; the handler
  `hang` of `worker.e2e.test.ts:37` does): its attempt is concluded, the job is retried, and
  two handlers of the job run, against "never executed by two workers at once"
  (`architecture.md:71`). `handlers.ts:6` leaves it to the handlers;
* a worker may run more than `WORKER_CONCURRENCY` handlers (`architecture.md:119`): the map
  is keyed by job, so a job that was reaped under its pipeline and claimed again by the same
  worker counts once. `SlotsKept` says how far this goes: never more lost calls of a job than
  times it was taken from under them. Handlers that outlive their timeout come on top;
* an owner who is added once more with a lesser role is no longer one and can then be
  removed: DELETE refuses an owner (`docs/api.md:41`), the upsert of `orgs.ts:89` does not
  look. `OwnerRowStays` therefore says that the row of an owner is not deleted, not that
  there always is an owner;
* the total of a batch counts every input (`jobs.ts:176`), also those whose key already had
  a job, so its progress may never reach the total;
* the page of dead letters is ordered by `failed_at` alone (`dlq.ts:56`, `projects.ts:130`),
  and the reaper buries up to twenty jobs at one instant: two pages may repeat an entry and
  miss another (`TiedPagesMayMiss`);
* the dead-letter tab keeps its offset while entries leave the list: behind the last one it
  says that the queue is empty, and when the rest fits one page there is no pager to go back
  by (`StrandedTab`, `DlqTab.tsx:63`, `ui.tsx:153`);
* the oldest minute of a chart is cut when its query runs in the middle of a minute, and a
  minute that turns between query and chart shifts the bars by one (`ChartNeverInvents` says
  they stay true of their own minute);
* two edits of a retry policy that overlap lose one (`projects.ts:196`);
* retry-all reads the pending letters once (`dlq.ts:95`) and re-drives each by its job's id in a
  transaction of its own; `retryJobNow` accepts failed, cancelled and completed jobs, so a job
  whose letter was retried in the meantime, and which has completed since, runs once more.

## 7. Not modelled

Log rows, payloads, names, priorities and the order of dispatch; `LIMIT 20` and `LIMIT 100`
batches; heartbeat history and pruning; the demo handlers; migration and seed; validation
and HTTP; password hashing and tokens as data (a token is accepted or not); POST /orgs,
which writes the rows a registration writes; the remaining GET routes, which return rows as they are; of
the dashboard, markup, the hooks of its other lists, the create dialogs. `PROJECT.json`
gives the reason for each component.

Hazards without a property are listed there too: two deadlocks (the lock orders of
`failExecution` against the reaper and of the materializer against the deletion of a queue),
of which the models have the abort but not the cycle; the clock lag, the overlapping
edits, the demotion of an owner (`orgs.ts:89`) and the list of retry-all of section 6, of
which no document promises otherwise or which the bound on runs leaves out.

## 8. Plan

In this order:

1. Lemmas about the operators of `Statistics` and `Listing` that need no induction (the
   pager, the rounded rate), so that `ReadChecks` becomes an instance of them.
2. `TxLocks`: the orders in which transactions lock executions, jobs, queues and schedules.
3. Retry-all as a request that reads its list first, and the pruning, as actions of their
   modules.
