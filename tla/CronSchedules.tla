---------------------------- MODULE CronSchedules ----------------------------
(***************************************************************************)
(* Recurring schedules: the materializer of core/scheduler.ts and the      *)
(* routes of routes/schedules.ts over the table scheduled_jobs.            *)
(*                                                                         *)
(* Any number of processes may be in the materializer at once.  Which      *)
(* occurrences an expression has is the cron-parser library's affair: all  *)
(* that is assumed is that the next one is later.  Left out: names,        *)
(* payloads and priorities of schedules, the LIMIT of 100 rows per tick,   *)
(* and POST .../trigger, which does not touch the cadence.                 *)
(***************************************************************************)
EXTENDS Integers, FiniteSets

CONSTANTS
    Schedules,
    Tickers,        \* processes that may run materializeDueSchedules
    Users,          \* requests to PATCH that may be under way together
    Crons,          \* cron expressions, with their timezone
    NextCronRun(_, _), \* the next occurrence of an expression strictly after a time
    Lag,            \* how far the application's clock is behind the database's
    MaxTime,        \* bound: the clock stops here
    MaxEdits        \* bound: creations, changes and deletions of schedules

ASSUME LagAssumption == Lag \in Nat
ASSUME TimeAssumption == MaxTime \in Nat /\ MaxEdits \in Nat
ASSUME CronAssumption ==
    \A c \in Crons, t \in 0..MaxTime : NextCronRun(c, t) \in Nat /\ NextCronRun(c, t) > t

VARIABLES
    now,            \* the database's clock
    live,           \* schedules that have a row
    isActive,       \* is_active
    cron,           \* cron_expression and timezone
    nextRun,        \* next_run_at
    inTx,           \* processes in the materializer's transaction
    held,           \* the rows it has locked
    todo,           \* of these, the ones it has not come to yet
    read,           \* next_run_at of the locked rows as its SELECT returned it
    plan,           \* next_run_at of the rows it has done
    patch,          \* a PATCH between its SELECT and its UPDATE
    edits,          \* edits so far (bounded)
    fired,          \* history: occurrences enqueued since the last timing edit
    total           \* history: jobs enqueued since then

rowVars  == <<live, isActive, cron, nextRun, fired, total>>
tickVars == <<inTx, held, todo, read, plan>>
cronVars == <<now, rowVars, tickVars, patch, edits>>

\* new Date() of an application process.
AppNow == IF now > Lag THEN now - Lag ELSE 0

\* A PATCH under way: the columns it will write, of which next_run_at only when
\* the timing changes.
Stages  == {"read", "sent"}
NoPatch == [stage |-> "none"]
Patches == [stage : Stages, on : Schedules, cron : Crons, active : BOOLEAN,
            timing : BOOLEAN, next : Nat]

CronTypeOK ==
    /\ now \in 0..MaxTime
    /\ live \in SUBSET Schedules
    /\ isActive \in SUBSET Schedules
    /\ cron \in [Schedules -> Crons]
    /\ nextRun \in [Schedules -> Nat]
    /\ inTx \in SUBSET Tickers
    /\ held \in [Tickers -> SUBSET Schedules]
    /\ todo \in [Tickers -> SUBSET Schedules]
    /\ read \in [Tickers -> [Schedules -> Nat]]
    /\ plan \in [Tickers -> [Schedules -> Nat]]
    /\ patch \in [Users -> Patches \cup {NoPatch}]
    /\ edits \in 0..MaxEdits
    /\ fired \in [Schedules -> SUBSET Nat]
    /\ total \in [Schedules -> Nat]

NoTimes == [s \in Schedules |-> 0]

CronInit ==
    /\ now = 0
    /\ live = Schedules /\ isActive = Schedules
    /\ cron \in [Schedules -> Crons]
    /\ nextRun = [s \in Schedules |-> NextCronRun(cron[s], 0)]
    /\ inTx = {}
    /\ held = [w \in Tickers |-> {}] /\ todo = held
    /\ read = [w \in Tickers |-> NoTimes] /\ plan = read
    /\ patch = [u \in Users |-> NoPatch]
    /\ edits = 0
    /\ fired = [s \in Schedules |-> {}]
    /\ total = NoTimes

\* A row that another transaction holds makes an UPDATE or a DELETE wait.
Unlocked(s) == \A w \in Tickers : s \notin held[w]

Edit == edits < MaxEdits /\ edits' = edits + 1

-----------------------------------------------------------------------------
\* materializeDueSchedules.

DueRows == {s \in live \cap isActive : nextRun[s] <= now}

\* Faulty variant of LockDue: without SKIP LOCKED, and without the lock.
LockDueAll(w) ==
    /\ w \notin inTx
    /\ inTx' = inTx \cup {w}
    /\ held' = [held EXCEPT ![w] = DueRows]
    /\ todo' = [todo EXCEPT ![w] = DueRows]
    /\ read' = [read EXCEPT ![w] = [s \in Schedules |-> IF s \in DueRows THEN nextRun[s] ELSE 0]]
    /\ UNCHANGED <<now, rowVars, plan, patch, edits>>

\* SELECT ... FOR UPDATE SKIP LOCKED: the due rows nobody else has locked, as they
\* are committed now.
LockDue(w) ==
    LET S == {s \in DueRows : Unlocked(s)} IN
    /\ w \notin inTx
    /\ inTx' = inTx \cup {w}
    /\ held' = [held EXCEPT ![w] = S]
    /\ todo' = [todo EXCEPT ![w] = S]
    /\ read' = [read EXCEPT ![w] = [s \in Schedules |-> IF s \in S THEN nextRun[s] ELSE 0]]
    /\ UNCHANGED <<now, rowVars, plan, patch, edits>>

\* One turn of the loop: the INSERT, and next_run_at as of this moment.
Advance(w, s) ==
    /\ s \in todo[w]
    /\ plan' = [plan EXCEPT ![w][s] = NextCronRun(cron[s], AppNow)]
    /\ todo' = [todo EXCEPT ![w] = @ \ {s}]
    /\ UNCHANGED <<now, rowVars, inTx, held, read, patch, edits>>

EndTx(w) ==
    /\ inTx' = inTx \ {w}
    /\ held' = [held EXCEPT ![w] = {}]
    /\ todo' = [todo EXCEPT ![w] = {}]
    /\ read' = [read EXCEPT ![w] = NoTimes]
    /\ plan' = [plan EXCEPT ![w] = NoTimes]

\* COMMIT: the jobs are there and the rows advanced, together.
CommitRows(w) ==
    /\ w \in inTx /\ todo[w] = {}
    /\ nextRun' = [s \in Schedules |-> IF s \in held[w] THEN plan[w][s] ELSE nextRun[s]]
    /\ fired' = [s \in Schedules |-> fired[s] \cup
                    (IF s \in held[w] THEN {read[w][s]} ELSE {})]
    /\ total' = [s \in Schedules |-> total[s] + (IF s \in held[w] THEN 1 ELSE 0)]
    /\ EndTx(w)
    /\ UNCHANGED <<now, live, isActive, cron, patch, edits>>

\* Faulty variant of Rollback: the connection goes back to the pool inside its
\* transaction, which keeps the rows locked.
RollbackUnended(w) ==
    /\ w \in inTx
    /\ inTx' = inTx \ {w}
    /\ todo' = [todo EXCEPT ![w] = {}]
    /\ read' = [read EXCEPT ![w] = NoTimes]
    /\ plan' = [plan EXCEPT ![w] = NoTimes]
    /\ UNCHANGED <<now, rowVars, held, patch, edits>>

\* ROLLBACK, or the end of the process.
Rollback(w) ==
    /\ w \in inTx
    /\ EndTx(w)
    /\ UNCHANGED <<now, rowVars, patch, edits>>

-----------------------------------------------------------------------------
\* The routes.

\* The cadence of s starts afresh.
Afresh(s) ==
    /\ fired' = [fired EXCEPT ![s] = {}]
    /\ total' = [total EXCEPT ![s] = 0]

\* POST /queues/:queueId/schedules; is_active defaults to true.  An id is never
\* given twice: no PATCH under way can mean the new row.
CreateSchedule(s) ==
    /\ s \notin live /\ Edit
    /\ \A u \in Users : patch[u].stage = "none" \/ patch[u].on # s
    /\ live' = live \cup {s}
    /\ isActive' = isActive \cup {s}
    /\ \E c \in Crons :
          /\ cron' = [cron EXCEPT ![s] = c]
          /\ nextRun' = [nextRun EXCEPT ![s] = NextCronRun(c, AppNow)]
    /\ Afresh(s)
    /\ UNCHANGED <<now, tickVars, patch>>

\* PATCH /schedules/:scheduleId: the row is read, and the body laid over it.
PatchRead(u, s) ==
    /\ patch[u] = NoPatch /\ s \in live /\ Edit
    /\ \E c \in Crons, active \in BOOLEAN, timing \in BOOLEAN :
          \* neither the expression nor `isActive: true` in the body
          /\ ~ timing => c = cron[s] /\ (active => s \in isActive)
          /\ patch' = [patch EXCEPT ![u] =
                [stage |-> "read", on |-> s, cron |-> c, active |-> active,
                 timing |-> timing, next |-> 0]]
    /\ UNCHANGED <<now, rowVars, tickVars>>

\* next_run_at is computed and the UPDATE sent.
PatchSend(u) ==
    /\ patch[u].stage = "read"
    /\ patch' = [patch EXCEPT
            ![u].stage = "sent",
            ![u].next = IF patch[u].timing THEN NextCronRun(patch[u].cron, AppNow) ELSE 0]
    /\ UNCHANGED <<now, rowVars, tickVars, edits>>

\* Faulty variant of PatchUpdate: without the CASE, next_run_at = $10 is NULL (here
\* -1) when the timing does not change.
PatchUpdateNull(u) ==
    LET s == patch[u].on IN
    /\ patch[u].stage = "sent" /\ Unlocked(s) /\ s \in live
    /\ nextRun' = [nextRun EXCEPT ![s] = IF patch[u].timing THEN patch[u].next ELSE -1]
    /\ cron' = [cron EXCEPT ![s] = patch[u].cron]
    /\ isActive' = IF patch[u].active THEN isActive \cup {s} ELSE isActive \ {s}
    /\ patch' = [patch EXCEPT ![u] = NoPatch]
    /\ UNCHANGED <<now, live, fired, total, tickVars, edits>>

\* Faulty variant of PatchUpdate: next_run_at is left for the next tick to correct.
PatchUpdateUntimed(u) ==
    LET s == patch[u].on IN
    /\ patch[u].stage = "sent" /\ Unlocked(s) /\ s \in live
    /\ cron' = [cron EXCEPT ![s] = patch[u].cron]
    /\ isActive' = IF patch[u].active THEN isActive \cup {s} ELSE isActive \ {s}
    /\ patch' = [patch EXCEPT ![u] = NoPatch]
    /\ UNCHANGED <<now, live, nextRun, fired, total, tickVars, edits>>

\* The UPDATE, when the row is free; it hits nothing when the row is gone.
PatchUpdate(u) ==
    LET s == patch[u].on IN
    /\ patch[u].stage = "sent" /\ Unlocked(s)
    /\ IF s \in live
       THEN /\ cron' = [cron EXCEPT ![s] = patch[u].cron]
            /\ isActive' = IF patch[u].active THEN isActive \cup {s} ELSE isActive \ {s}
            /\ IF patch[u].timing
               THEN nextRun' = [nextRun EXCEPT ![s] = patch[u].next] /\ Afresh(s)
               ELSE UNCHANGED <<nextRun, fired, total>>
       ELSE UNCHANGED <<cron, isActive, nextRun, fired, total>>
    /\ patch' = [patch EXCEPT ![u] = NoPatch]
    /\ UNCHANGED <<now, live, tickVars, edits>>

\* DELETE /schedules/:scheduleId, and the cascade of a queue's deletion.
DeleteSchedule(s) ==
    /\ s \in live /\ Unlocked(s) /\ Edit
    /\ live' = live \ {s}
    /\ isActive' = isActive \ {s}
    /\ nextRun' = [nextRun EXCEPT ![s] = 0]
    /\ Afresh(s)
    /\ UNCHANGED <<now, cron, tickVars, patch>>

\* Time passes.
ClockTick ==
    /\ now < MaxTime
    /\ now' = now + 1
    /\ UNCHANGED <<rowVars, tickVars, patch, edits>>

-----------------------------------------------------------------------------

UserStep ==
    \/ \E s \in Schedules : CreateSchedule(s) \/ DeleteSchedule(s)
    \/ \E u \in Users : \/ \E s \in Schedules : PatchRead(u, s)
                        \/ PatchSend(u)
                        \/ PatchUpdate(u)

CronNext ==
    \/ \E w \in Tickers : \/ LockDue(w)
                          \/ \E s \in Schedules : Advance(w, s)
                          \/ CommitRows(w)
                          \/ Rollback(w)
    \/ UserStep
    \/ ClockTick

CronSpec == CronInit /\ [][CronNext]_cronVars

-----------------------------------------------------------------------------

\* An occurrence of a schedule is enqueued once, whoever ticks, as long as nobody
\* edits the timing (scheduler.ts: the ticks are safe "even if two schedulers
\* raced"; the test "materializes due cron schedules exactly once").
OncePerOccurrence == \A s \in Schedules : total[s] = Cardinality(fired[s])

\* The next run of a schedule was computed from its current expression, also when
\* the expression changes while a materializer holds the row (api.md: "timing
\* changes recompute nextRunAt").
NextFitsExpression ==
    \A s \in live : \E t \in 0..now : nextRun[s] = NextCronRun(cron[s], t)
=============================================================================
