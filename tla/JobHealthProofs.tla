-------------------------- MODULE JobHealthProofs --------------------------
(***************************************************************************)
(* What JobLifecycle guarantees when no live process stalls past a lease   *)
(* or a heartbeat (Freezes = FALSE), for every set of jobs, workers and    *)
(* pipelines and any number of crashes, stops and database errors.         *)
(*                                                                         *)
(* That two pipelines never run one job is not inductive: it holds because *)
(* a pipeline that may still start or conclude its attempt holds the job   *)
(* (HeldOf), under a lease that has not passed, for a process that is      *)
(* alive, so that the reaper does not give the job to another.  A pipeline *)
(* whose completion was committed but reported as an error holds nothing:  *)
(* its job may be re-driven and claimed again while it still runs.  HInv   *)
(* adds to IInv what a held job looks like, that only dead processes are   *)
(* ever silent or declared dead, and that attempts counts the concluded    *)
(* executions exactly.                                                     *)
(***************************************************************************)
EXTENDS JobLifecycleProofs, FiniteSetTheorems

\* The pipeline may still start, complete or fail an attempt of the job.
Holds(p, j) ==
    /\ pipe[p].job = j
    /\ \/ pipe[p].phase \in {"launched", "handling"}
       \/ pipe[p].phase = "failing" /\ exec[j][Attempt(p)] = "running"

\* The row of a held job is the one its pipeline was launched with.
HeldOf(p, j) == Holds(p, j) =>
    /\ claimedBy[j] = pipe[p].worker
    /\ lease[j] = "live"
    /\ pipe[p].base = attempts[j]
    /\ pipe[p].max = maxAttempts[j]
    /\ status[j] = IF pipe[p].phase = "launched" THEN "claimed" ELSE "running"
    /\ pipe[p].phase # "launched" => exec[j][Attempt(p)] = "running"

AloneOf(j) == \A p, q \in Pipes : Holds(p, j) /\ Holds(q, j) => p = q

AliveOf(p) == pipe[p].phase # "idle" => proc[pipe[p].worker] # "gone"

\* Only a process that has ended misses heartbeats, and only then is it declared
\* dead.
WatchOf(w) ==
    /\ w \in silent => proc[w] = "gone"
    /\ wstat[w] = "dead" => w \in silent

CountOf(j) ==
    /\ \A n \in Attempts : exec[j][n] \in Concluded <=> n <= attempts[j]
    /\ \A n \in Attempts : exec[j][n] = "running" => status[j] = "running"
    /\ status[j] = "absent" => attempts[j] = 0

BudgetOf(j) ==
    /\ attempts[j] <= maxAttempts[j]
    /\ status[j] \in Pending \cup Active => attempts[j] < maxAttempts[j]

ResultOf(j) == status[j] = "completed" =>
    result[j] = attempts[j] /\ attempts[j] > 0 /\ exec[j][result[j]] = "succeeded"

HInv ==
    /\ \A p \in Pipes, j \in Jobs : HeldOf(p, j)
    /\ \A j \in Jobs : AloneOf(j)
    /\ \A p \in Pipes : AliveOf(p)
    /\ \A w \in Workers : WatchOf(w)
    /\ \A j \in Jobs : CountOf(j)
    /\ \A j \in Jobs : BudgetOf(j)
    /\ \A j \in Jobs : ResultOf(j)

\* The columns of a job that HInv speaks of.
Row(j) == <<status[j], attempts[j], maxAttempts[j], claimedBy[j], lease[j], result[j], exec[j]>>

-----------------------------------------------------------------------------

\* In the initial states nothing is held and every process lives.
LEMMA InitHInv == Init => HInv
<1> SUFFICES ASSUME Init PROVE HInv
  OBVIOUS
<1>1. \A p \in Pipes, j \in Jobs : ~Holds(p, j)
  BY DEF Init, Holds, IdlePipe
<1>2. \A j \in Jobs : CountOf(j) /\ BudgetOf(j) /\ ResultOf(j)
  BY DEF Init, CountOf, BudgetOf, ResultOf, Pending, Active, Concluded, Failures, Attempts
<1> QED
  BY <1>1, <1>2 DEF Init, HInv, HeldOf, AloneOf, AliveOf, WatchOf, IdlePipe

\* A job nobody holds owes nothing to its pipelines.
LEMMA Unheld ==
  ASSUME NEW j, \A p \in Pipes : ~Holds(p, j)'
  PROVE  (\A p \in Pipes : HeldOf(p, j)') /\ AloneOf(j)'
  BY DEF HeldOf, AloneOf

\* A job that is not active is held by nobody.
LEMMA Inactive ==
  ASSUME HInv, NEW j \in Jobs, status[j] \notin Active
  PROVE  \A p \in Pipes : ~Holds(p, j)
  BY DEF HInv, HeldOf, Active

\* Pipelines and executions kept, so is who holds what.
LEMMA SameHolds ==
  ASSUME NEW j, NEW p, pipe'[p] = pipe[p], exec'[j] = exec[j]
  PROVE  Holds(p, j)' = Holds(p, j)
  BY DEF Holds, Attempt

\* A step that touches one job, and no pipeline but to end it or on that job.
LEMMA OneJob ==
  ASSUME IInv, HInv, NEW j \in Jobs,
         \A i \in Jobs : i # j => Row(i)' = Row(i),
         \A p \in Pipes : \/ pipe'[p] = pipe[p]
                          \/ pipe'[p] = IdlePipe
                          \/ pipe'[p].job = j /\ AliveOf(p)',
         UNCHANGED workVars,
         \A p \in Pipes : HeldOf(p, j)',
         AloneOf(j)', CountOf(j)', BudgetOf(j)', ResultOf(j)'
  PROVE  HInv'
<1>1. \A i \in Jobs, p \in Pipes : i # j /\ Holds(p, i)' => Holds(p, i) /\ pipe'[p] = pipe[p]
  BY NoneAssumption DEF Holds, Row, IdlePipe, Attempt
<1>2. \A p \in Pipes, i \in Jobs : HeldOf(p, i)'
  BY <1>1 DEF HInv, HeldOf, Row, Attempt
<1>3. \A i \in Jobs : AloneOf(i)'
  BY <1>1 DEF HInv, AloneOf
<1>4. \A p \in Pipes : AliveOf(p)'
  BY DEF HInv, AliveOf, IdlePipe, workVars
<1>5. \A w \in Workers : WatchOf(w)'
  BY DEF HInv, WatchOf, workVars
<1>6. \A i \in Jobs : CountOf(i)' /\ BudgetOf(i)' /\ ResultOf(i)'
  BY DEF HInv, CountOf, BudgetOf, ResultOf, Row
<1> QED
  BY <1>2, <1>3, <1>4, <1>5, <1>6 DEF HInv

\* A step that leaves every job alone, and lets pipelines end or report.
LEMMA QuietHealth ==
  ASSUME IInv, HInv, UNCHANGED <<jobVars, maxAttempts, result>>, PipesFade,
         \A p \in Pipes : AliveOf(p)', \A w \in Workers : WatchOf(w)'
  PROVE  HInv'
<1>1. \A i \in Jobs, p \in Pipes : Holds(p, i)' =>
         /\ Holds(p, i)
         /\ pipe'[p].worker = pipe[p].worker /\ pipe'[p].base = pipe[p].base
         /\ pipe'[p].max = pipe[p].max /\ Attempt(p)' = Attempt(p)
         /\ pipe'[p].phase = "launched" <=> pipe[p].phase = "launched"
  <2> SUFFICES ASSUME NEW i \in Jobs, NEW p \in Pipes, Holds(p, i)'
               PROVE  /\ Holds(p, i)
                      /\ pipe'[p].worker = pipe[p].worker /\ pipe'[p].base = pipe[p].base
                      /\ pipe'[p].max = pipe[p].max /\ Attempt(p)' = Attempt(p)
                      /\ pipe'[p].phase = "launched" <=> pipe[p].phase = "launched"
    OBVIOUS
  <2>1. pipe'[p] # IdlePipe
    BY NoneAssumption DEF Holds, IdlePipe
  <2>2. CASE pipe'[p] = pipe[p]
    BY <2>2 DEF Holds, Attempt, jobVars
  <2>3. CASE pipe[p].phase = "handling" /\ pipe'[p] = [pipe[p] EXCEPT !.phase = "failing"]
    <3>1. pipe[p] \in PipeRecord
      BY DEF IInv, TypeOK
    <3>2. /\ pipe'[p].job = pipe[p].job /\ pipe'[p].worker = pipe[p].worker
          /\ pipe'[p].base = pipe[p].base /\ pipe'[p].max = pipe[p].max
          /\ pipe'[p].phase = "failing"
      BY <2>3, <3>1 DEF PipeRecord
    <3> QED
      BY <2>3, <3>2 DEF Holds, Attempt
  <2> QED
    BY <2>1, <2>2, <2>3 DEF PipesFade, Fades
<1>2. \A p \in Pipes, i \in Jobs : HeldOf(p, i)'
  BY <1>1 DEF HInv, HeldOf, jobVars
<1>3. \A i \in Jobs : AloneOf(i)'
  BY <1>1 DEF HInv, AloneOf
<1>4. \A i \in Jobs : CountOf(i)' /\ BudgetOf(i)' /\ ResultOf(i)'
  BY DEF HInv, CountOf, BudgetOf, ResultOf, jobVars
<1> QED
  BY <1>2, <1>3, <1>4 DEF HInv

\* An open attempt is the one after the last concluded one.
LEMMA OpenIsNext ==
  ASSUME IInv, HInv, NEW j \in Jobs, NEW n \in Attempts, exec[j][n] = "running"
  PROVE  n = attempts[j] + 1 /\ status[j] = "running" /\ attempts[j] \in Nat
<1>1. CountOf(j) /\ NumberingOf(j) /\ attempts[j] \in 0..MaxAttemptsCap
  BY DEF HInv, IInv, TypeOK
<1>2. ~(n <= attempts[j])
  BY <1>1 DEF CountOf, Concluded, Failures
<1>3. n > 1 => n - 1 <= attempts[j]
  BY <1>1, CapAssumption DEF CountOf, NumberingOf, Attempts
<1> QED
  BY <1>1, <1>2, <1>3, CapAssumption DEF CountOf, Attempts

\* Concluding the open attempt keeps the count, and no pipeline holds the job on.
LEMMA ConcludeHealth ==
  ASSUME IInv, HInv, NEW j \in Jobs, NEW n \in Attempts, NEW k \in Concluded,
         exec[j][n] = "running", exec' = [exec EXCEPT ![j][n] = k],
         attempts' = [attempts EXCEPT ![j] = n], UNCHANGED maxAttempts,
         status'[j] \notin {"running", "absent"},
         status'[j] \in Pending \cup Active => n < maxAttempts[j],
         \A q \in Pipes : \/ pipe'[q] = pipe[q] /\ ~Holds(q, j)
                          \/ pipe'[q] = IdlePipe
                          \/ pipe'[q].phase = "failing" /\ pipe'[q].job = j /\ Attempt(q)' = n
  PROVE  /\ \A q \in Pipes : HeldOf(q, j)'
         /\ AloneOf(j)' /\ CountOf(j)' /\ BudgetOf(j)'
         /\ exec'[j][n] = k /\ attempts'[j] = n
         /\ \A i \in Jobs : i # j => exec'[i] = exec[i] /\ attempts'[i] = attempts[i]
<1>1. /\ \A m \in Attempts : exec'[j][m] = IF m = n THEN k ELSE exec[j][m]
      /\ attempts'[j] = n /\ exec'[j][n] = k
      /\ \A i \in Jobs : i # j => exec'[i] = exec[i] /\ attempts'[i] = attempts[i]
  BY DEF IInv, TypeOK
<1>2. k # "running" /\ k # "none"
  BY DEF Concluded, Failures
<1>3. n = attempts[j] + 1 /\ attempts[j] \in Nat /\ status[j] = "running"
  BY OpenIsNext
<1>4. CountOf(j)'
  <2>1. \A m \in Attempts : exec'[j][m] \in Concluded <=> m <= n
    <3> SUFFICES ASSUME NEW m \in Attempts PROVE exec'[j][m] \in Concluded <=> m <= n
      OBVIOUS
    <3>1. exec[j][m] \in Concluded <=> m <= attempts[j]
      BY DEF HInv, CountOf
    <3> QED
      BY <1>1, <1>3, <3>1, CapAssumption DEF Attempts
  <2>2. \A m \in Attempts : exec'[j][m] # "running"
    BY <1>1, <1>2, <1>3, OpenIsNext, CapAssumption DEF Attempts
  <2> QED
    BY <1>1, <2>1, <2>2 DEF CountOf
<1>5. BudgetOf(j)'
  <2>1. attempts[j] < maxAttempts[j] /\ maxAttempts[j] \in Nat
    BY <1>3 DEF HInv, BudgetOf, Active, IInv, TypeOK
  <2> QED
    BY <1>1, <1>3, <2>1 DEF BudgetOf
<1>6. \A q \in Pipes : ~Holds(q, j)'
  <2> SUFFICES ASSUME NEW q \in Pipes, Holds(q, j)' PROVE FALSE
    OBVIOUS
  <2>1. CASE pipe'[q] = pipe[q] /\ ~Holds(q, j)
    <3>1. pipe[q].phase = "failing" /\ pipe[q].job = j /\ exec'[j][Attempt(q)] = "running"
      BY <2>1 DEF Holds, Attempt
    <3>2. Attempt(q) \in Attempts
      BY <3>1, Started
    <3> QED
      BY <1>1, <1>2, <2>1, <3>1, <3>2 DEF Holds
  <2>2. CASE pipe'[q] = IdlePipe
    BY <2>2 DEF Holds, IdlePipe
  <2>3. CASE pipe'[q].phase = "failing" /\ pipe'[q].job = j /\ Attempt(q)' = n
    BY <1>1, <1>2, <2>3 DEF Holds
  <2> QED
    BY <2>1, <2>2, <2>3
<1> QED
  BY <1>1, <1>4, <1>5, <1>6, Unheld

\* failExecution on the open attempt, by its pipeline or by the reaper.
LEMMA FailHealth ==
  ASSUME IInv, HInv, NEW j \in Jobs, NEW n \in Attempts, NEW kind \in Failures,
         exec[j][n] = "running", FailJob(j, n, maxAttempts[j], kind),
         UNCHANGED <<maxAttempts, result, workVars>>,
         \A q \in Pipes : \/ pipe'[q] = pipe[q] /\ ~Holds(q, j)
                          \/ pipe'[q] = IdlePipe
  PROVE  HInv'
<1>1. n = attempts[j] + 1 /\ attempts[j] \in Nat /\ status[j] = "running" /\ kind \in Concluded
  BY OpenIsNext DEF Concluded
<1>2. FailRetry(j, n, maxAttempts[j], kind) \/ FailBury(j, n, maxAttempts[j], kind)
  BY <1>1 DEF FailJob, FailStolen, FailOrphan, Active
<1>3. /\ exec' = [exec EXCEPT ![j][n] = kind]
      /\ attempts' = [attempts EXCEPT ![j] = n]
      /\ \/ n < maxAttempts[j] /\ status' = [status EXCEPT ![j] = "scheduled"]
         \/ status' = [status EXCEPT ![j] = "failed"]
      /\ claimedBy' = [claimedBy EXCEPT ![j] = None]
      /\ lease' = [lease EXCEPT ![j] = "none"]
  BY <1>2 DEF FailRetry, FailBury, Unown
<1>4. /\ \/ status'[j] = "scheduled" /\ n < maxAttempts[j]
         \/ status'[j] = "failed"
      /\ \A i \in Jobs : i # j => /\ status'[i] = status[i] /\ claimedBy'[i] = claimedBy[i]
                                  /\ lease'[i] = lease[i]
  BY <1>3 DEF IInv, TypeOK
<1>5. /\ \A q \in Pipes : HeldOf(q, j)'
      /\ AloneOf(j)' /\ CountOf(j)' /\ BudgetOf(j)'
      /\ \A i \in Jobs : i # j => exec'[i] = exec[i] /\ attempts'[i] = attempts[i]
  <2>1. /\ status'[j] \notin {"running", "absent"}
        /\ status'[j] \in Pending \cup Active => n < maxAttempts[j]
    BY <1>4 DEF Pending, Active
  <2>2. \A q \in Pipes : \/ pipe'[q] = pipe[q] /\ ~Holds(q, j)
                         \/ pipe'[q] = IdlePipe
                         \/ pipe'[q].phase = "failing" /\ pipe'[q].job = j /\ Attempt(q)' = n
    OBVIOUS
  <2> HIDE DEF Holds
  <2> QED
    BY <1>1, <1>3, <2>1, <2>2, ConcludeHealth
<1>6. ResultOf(j)'
  BY <1>4 DEF ResultOf
<1> QED
  BY <1>4, <1>5, <1>6, OneJob DEF Row

-----------------------------------------------------------------------------
\* The steps on the row of a job.

\* A step on the row of a job nobody holds, that opens and concludes nothing.
LEMMA RowHealth ==
  ASSUME IInv, HInv, NEW j \in Jobs, UNCHANGED <<attempts, exec, result, pipe, workVars>>,
         \A i \in Jobs : i # j => Row(i)' = Row(i),
         \A p \in Pipes : ~Holds(p, j),
         status'[j] \notin {"absent", "completed"},
         status[j] = "running" => status'[j] = "running" \/ RunningExecs(j) = {},
         attempts[j] <= maxAttempts'[j],
         status'[j] \in Pending \cup Active => attempts[j] < maxAttempts'[j]
  PROVE  HInv'
<1>1. \A p \in Pipes : ~Holds(p, j)'
  BY SameHolds
<1>2. CountOf(j)'
  BY DEF HInv, CountOf, RunningExecs
<1>3. BudgetOf(j)' /\ ResultOf(j)'
  BY DEF BudgetOf, ResultOf
<1>4. (\A p \in Pipes : HeldOf(p, j)') /\ AloneOf(j)'
  BY <1>1, Unheld
<1> QED
  BY <1>2, <1>3, <1>4, OneJob

\* What a row says of the budget of its job, as numbers.
LEMMA Budget ==
  ASSUME IInv, HInv, NEW j \in Jobs
  PROVE  /\ attempts[j] \in Nat /\ maxAttempts[j] \in Nat /\ attempts[j] <= maxAttempts[j]
         /\ status[j] \in Pending \cup Active => attempts[j] < maxAttempts[j]
         /\ status[j] = "absent" => attempts[j] = 0
  BY CapAssumption DEF HInv, BudgetOf, CountOf, IInv, TypeOK

\* INSERT INTO jobs.
LEMMA CreateHealth ==
  ASSUME IInv, HInv, NEW j \in Jobs, NEW max \in InitialMax, NEW s \in Pending,
         Create(j, max, s)
  PROVE  HInv'
<1>1. /\ status'[j] = s /\ maxAttempts'[j] = max /\ status[j] = "absent"
      /\ UNCHANGED <<attempts, exec, result, pipe, workVars>>
      /\ \A i \in Jobs : i # j => Row(i)' = Row(i)
  BY DEF Create, Row, IInv, TypeOK
<1>2. attempts[j] = 0 /\ max \in Nat /\ max > 0
  BY <1>1, Budget, MaxAssumption, CapAssumption
<1>3. \A p \in Pipes : ~Holds(p, j)
  BY <1>1, Inactive DEF Active
<1>4. s \notin {"absent", "completed"}
  BY DEF Pending
<1> QED
  BY <1>1, <1>2, <1>3, <1>4, RowHealth

\* Cancelling a pending job.
LEMMA CancelHealth ==
  ASSUME IInv, HInv, NEW j \in Jobs, Cancel(j)
  PROVE  HInv'
<1>1. /\ status'[j] = "cancelled" /\ status[j] \in Pending
      /\ UNCHANGED <<attempts, maxAttempts, exec, result, pipe, workVars>>
      /\ \A i \in Jobs : i # j => Row(i)' = Row(i)
  BY DEF Cancel, Row, IInv, TypeOK
<1>2. \A p \in Pipes : ~Holds(p, j)
  BY <1>1, Inactive DEF Active, Pending
<1>3. "cancelled" \notin Pending \cup Active /\ status[j] # "running"
  BY <1>1 DEF Pending, Active
<1> QED
  BY <1>1, <1>2, <1>3, Budget, RowHealth

\* A manual retry grants at least one attempt more than were made.
LEMMA RetryNowHealth ==
  ASSUME IInv, HInv, NEW j \in Jobs, NEW extra \in ExtraAttempts, RetryNow(j, extra)
  PROVE  HInv'
<1>1. /\ status'[j] = "queued" /\ status[j] \in Terminal
      /\ maxAttempts'[j] = attempts[j] + extra
      /\ UNCHANGED <<attempts, exec, result, pipe, workVars>>
      /\ \A i \in Jobs : i # j => Row(i)' = Row(i)
  BY DEF RetryNow, Unown, Row, IInv, TypeOK
<1>2. attempts[j] \in Nat /\ extra \in Nat /\ extra > 0
  BY Budget, ExtraAssumption
<1>3. \A p \in Pipes : ~Holds(p, j)
  BY <1>1, Inactive DEF Active, Terminal
<1>4. status[j] # "running"
  BY <1>1 DEF Terminal
<1> QED
  BY <1>1, <1>2, <1>3, <1>4, RowHealth

\* The dead letter queue has no part in who holds a job.
LEMMA DiscardHealth ==
  ASSUME HInv, NEW j \in Jobs, NEW n \in Attempts, Discard(j, n)
  PROVE  HInv'
<1>1. UNCHANGED <<status, attempts, maxAttempts, claimedBy, lease, result, exec, pipe, workVars>>
  BY DEF Discard
<1> QED
  BY <1>1 DEF HInv, HeldOf, Holds, AloneOf, AliveOf, WatchOf, CountOf, BudgetOf, ResultOf,
              Attempt, workVars

\* The claimed row, before it is known whether a pipeline is launched for it.
LEMMA ClaimRowHealth ==
  ASSUME IInv, HInv, NEW j \in Jobs, NEW w \in Workers, ClaimRow(w, j)
  PROVE  /\ status'[j] = "claimed" /\ claimedBy'[j] = w /\ lease'[j] = "live"
         /\ UNCHANGED <<attempts, maxAttempts, exec, result, workVars>>
         /\ \A i \in Jobs : i # j => Row(i)' = Row(i)
         /\ \A p \in Pipes : ~Holds(p, j)
         /\ status[j] = "queued" /\ proc[w] = "up" /\ attempts[j] < maxAttempts[j]
<1>1. status[j] = "queued" /\ proc[w] = "up"
  BY DEF ClaimRow
<1>2. \A p \in Pipes : ~Holds(p, j)
  BY <1>1, Inactive DEF Active
<1>3. attempts[j] < maxAttempts[j]
  BY <1>1, Budget DEF Pending
<1>4. /\ status'[j] = "claimed" /\ claimedBy'[j] = w /\ lease'[j] = "live"
      /\ UNCHANGED <<attempts, maxAttempts, exec, result, workVars>>
  BY DEF ClaimRow, IInv, TypeOK
<1>5. \A i \in Jobs : i # j => Row(i)' = Row(i)
  BY DEF ClaimRow, Row, IInv, TypeOK
<1> QED
  BY <1>1, <1>2, <1>3, <1>4, <1>5

\* A claim: the pipeline it launches is the only one to hold the job.
LEMMA ClaimHealth ==
  ASSUME IInv, HInv, NEW j \in Jobs, NEW w \in Workers, NEW p \in Pipes, Claim(w, j, p)
  PROVE  HInv'
<1>1. /\ status'[j] = "claimed" /\ claimedBy'[j] = w /\ lease'[j] = "live"
      /\ UNCHANGED <<attempts, maxAttempts, exec, result, workVars>>
      /\ \A i \in Jobs : i # j => Row(i)' = Row(i)
      /\ \A q \in Pipes : ~Holds(q, j)
      /\ status[j] = "queued" /\ proc[w] = "up" /\ attempts[j] < maxAttempts[j]
  BY ClaimRowHealth DEF Claim
<1>2. /\ pipe'[p] = [phase |-> "launched", worker |-> w, job |-> j,
                     base |-> attempts[j], max |-> maxAttempts[j]]
      /\ \A q \in Pipes : q # p => pipe'[q] = pipe[q]
  BY DEF Claim, IInv, TypeOK
<1>3. \A q \in Pipes : q # p => ~Holds(q, j)'
  BY <1>1, <1>2, SameHolds
<1>4. HeldOf(p, j)' /\ AliveOf(p)' /\ pipe'[p].job = j
  BY <1>1, <1>2 DEF HeldOf, AliveOf, workVars
<1>5. (\A q \in Pipes : HeldOf(q, j)') /\ AloneOf(j)'
  BY <1>3, <1>4 DEF HeldOf, AloneOf
<1>6. CountOf(j)'
  BY <1>1 DEF HInv, CountOf
<1>7. BudgetOf(j)' /\ ResultOf(j)'
  BY <1>1, Budget DEF BudgetOf, ResultOf
<1> QED
  BY <1>1, <1>2, <1>4, <1>5, <1>6, <1>7, OneJob

\* A claim whose answer is lost: nobody holds the job, and its lease runs.
LEMMA ClaimLostHealth ==
  ASSUME IInv, HInv, NEW j \in Jobs, NEW w \in Workers, ClaimLost(w, j)
  PROVE  HInv'
<1>1. /\ status'[j] = "claimed" /\ UNCHANGED <<attempts, maxAttempts, exec, result, workVars, pipe>>
      /\ \A i \in Jobs : i # j => Row(i)' = Row(i)
      /\ \A q \in Pipes : ~Holds(q, j)
      /\ status[j] = "queued" /\ attempts[j] < maxAttempts[j]
  BY ClaimRowHealth DEF ClaimLost
<1> QED
  BY <1>1, Budget, RowHealth

\* A lease passes only when nobody works on the job.
LEMMA LeaseExpiresHealth ==
  ASSUME IInv, HInv, ~Freezes, NEW j \in Jobs, LeaseExpires(j)
  PROVE  HInv'
<1>1. /\ UNCHANGED <<status, attempts, maxAttempts, claimedBy, exec, result, pipe, workVars>>
      /\ \A i \in Jobs : i # j => Row(i)' = Row(i)
      /\ ~Tended(j)
  BY DEF LeaseExpires, Row, IInv, TypeOK
<1>2. \A p \in Pipes : ~Holds(p, j)
  BY <1>1 DEF Tended, Holds
<1>3. lease[j] # "none" => status[j] \in Active
  BY DEF IInv, OwnershipOf
<1>4. status[j] \notin {"absent", "completed"}
  BY <1>3 DEF LeaseExpires, Active
<1> QED
  BY <1>1, <1>2, <1>4, Budget, RowHealth

\* A scheduled job is due.
LEMMA PromoteDueHealth ==
  ASSUME IInv, HInv, NEW j \in Jobs, PromoteDue(j)
  PROVE  HInv'
<1>1. /\ status'[j] = "queued" /\ status[j] = "scheduled"
      /\ UNCHANGED <<attempts, maxAttempts, exec, result, pipe, workVars>>
      /\ \A i \in Jobs : i # j => Row(i)' = Row(i)
  BY DEF PromoteDue, Row, IInv, TypeOK
<1>2. \A p \in Pipes : ~Holds(p, j)
  BY <1>1, Inactive DEF Active
<1>3. attempts[j] < maxAttempts[j]
  BY <1>1, Budget DEF Pending
<1> QED
  BY <1>1, <1>2, <1>3, Budget, RowHealth

\* The reaper only takes jobs that nobody holds.
LEMMA ReapableUnheld ==
  ASSUME IInv, HInv, NEW j \in Jobs, Reapable(j)
  PROVE  \A p \in Pipes : ~Holds(p, j)
<1> SUFFICES ASSUME NEW p \in Pipes, Holds(p, j) PROVE FALSE
  OBVIOUS
<1>1. claimedBy[j] = pipe[p].worker /\ lease[j] = "live" /\ proc[pipe[p].worker] # "gone"
  BY DEF HInv, HeldOf, AliveOf, Holds
<1>2. claimedBy[j] \in Workers => wstat[claimedBy[j]] # "dead"
  BY <1>1 DEF HInv, WatchOf
<1> QED
  BY <1>1, <1>2 DEF Reapable

\* Recovering a job whose attempt was under way.
LEMMA ReapLostHealth ==
  ASSUME IInv, HInv, NEW j \in Jobs, ReapLost(j)
  PROVE  HInv'
<1>1. PICK n \in Attempts : exec[j][n] = "running" /\ FailJob(j, n, maxAttempts[j], "lost")
  BY DEF ReapLost, RunningExecs
<1>2. \A p \in Pipes : pipe'[p] = pipe[p] /\ ~Holds(p, j)
  BY ReapableUnheld DEF ReapLost
<1> QED
  BY <1>1, <1>2, FailHealth DEF ReapLost, Failures

\* Recovering a job whose attempt was never started.
LEMMA ReapUnstartedHealth ==
  ASSUME IInv, HInv, NEW j \in Jobs, ReapUnstarted(j)
  PROVE  HInv'
<1>1. /\ status'[j] = "queued" /\ status[j] \in Active /\ RunningExecs(j) = {}
      /\ UNCHANGED <<attempts, maxAttempts, exec, result, pipe, workVars>>
      /\ \A i \in Jobs : i # j => Row(i)' = Row(i)
  BY DEF ReapUnstarted, Reapable, Unown, Row, IInv, TypeOK
<1>2. \A p \in Pipes : ~Holds(p, j)
  BY ReapableUnheld DEF ReapUnstarted
<1> QED
  BY <1>1, <1>2, Budget, RowHealth

\* Every step on a job's row.
LEMMA JobStepHealth ==
  ASSUME IInv, HInv, ~Freezes, NEW j \in Jobs, JobStep(j)
  PROVE  HInv'
  BY CreateHealth, CancelHealth, RetryNowHealth, DiscardHealth, ClaimHealth, ClaimLostHealth,
     LeaseExpiresHealth, PromoteDueHealth, ReapLostHealth, ReapUnstartedHealth
  DEF JobStep

-----------------------------------------------------------------------------
\* The steps of a pipeline.

\* Ending one pipeline leaves the others as they are.
LEMMA Released ==
  ASSUME IInv, NEW p \in Pipes, Release(p)
  PROVE  pipe'[p] = IdlePipe /\ \A q \in Pipes : q # p => pipe'[q] = pipe[q]
  BY DEF Release, IInv, TypeOK

\* The processes being left alone, what ends or reports was alive.
LEMMA FadeAlive ==
  ASSUME IInv, HInv, PipesFade, UNCHANGED workVars
  PROVE  (\A p \in Pipes : AliveOf(p)') /\ (\A w \in Workers : WatchOf(w)')
<1>1. \A p \in Pipes : AliveOf(p)'
  <2> SUFFICES ASSUME NEW p \in Pipes PROVE AliveOf(p)'
    OBVIOUS
  <2>1. AliveOf(p) /\ pipe[p] \in PipeRecord /\ Fades(p)
    BY DEF HInv, IInv, TypeOK, PipesFade
  <2>2. CASE pipe'[p] = [pipe[p] EXCEPT !.phase = "failing"] /\ pipe[p].phase = "handling"
    <3>1. pipe'[p].worker = pipe[p].worker
      BY <2>1, <2>2, RecordPhase
    <3> QED
      BY <2>1, <2>2, <3>1 DEF AliveOf, workVars
  <2> QED
    BY <2>1, <2>2, IdleRecord DEF Fades, AliveOf, workVars
<1>2. \A w \in Workers : WatchOf(w)'
  BY DEF HInv, WatchOf, workVars
<1> QED
  BY <1>1, <1>2

\* startExecution's INSERT, whichever way the pipeline learns of it: the job it
\* holds is running from now on, on an attempt within the budget.
LEMMA InsertHealth ==
  ASSUME IInv, HInv, NEW p \in Pipes, InsertExecution(p),
         \/ pipe' = [pipe EXCEPT ![p] = IdlePipe]
         \/ pipe' = [pipe EXCEPT ![p].phase = "handling"]
  PROVE  HInv'
<1>1. PICK j \in Jobs, n \in Attempts :
         pipe[p].job = j /\ Attempt(p) = n /\ pipe[p].phase = "launched" /\ pipe[p] \in PipeRecord
  <2>1. PipeOf(p) /\ pipe[p].base \in 0..MaxAttemptsCap /\ pipe[p].phase = "launched"
        /\ pipe[p] \in PipeRecord
    BY PipeFields DEF IInv, InsertExecution, Busy
  <2>2. pipe[p].job \in Jobs /\ Attempt(p) \in Attempts
    BY <2>1, CapAssumption DEF PipeOf, Attempt, Attempts
  <2> QED
    BY <2>1, <2>2
<1>2. /\ exec[j][n] = "none"
      /\ exec' = [exec EXCEPT ![j][n] = "running"]
      /\ status' = [status EXCEPT ![j] = IF @ = "claimed" THEN "running" ELSE @]
      /\ UNCHANGED <<attempts, maxAttempts, claimedBy, lease, result, workVars>>
  BY <1>1 DEF InsertExecution, workVars
<1>3. Holds(p, j) /\ HeldOf(p, j) /\ CountOf(j) /\ BudgetOf(j) /\ AloneOf(j)
  BY <1>1 DEF Holds, HInv
<1>4. /\ claimedBy[j] = pipe[p].worker /\ lease[j] = "live" /\ status[j] = "claimed"
      /\ pipe[p].base = attempts[j] /\ pipe[p].max = maxAttempts[j] /\ n = attempts[j] + 1
  BY <1>1, <1>3 DEF HeldOf, Attempt
<1>5. /\ status'[j] = "running" /\ exec'[j][n] = "running"
      /\ \A m \in Attempts : exec'[j][m] = IF m = n THEN "running" ELSE exec[j][m]
      /\ \A i \in Jobs : i # j => Row(i)' = Row(i)
  BY <1>2, <1>4 DEF Row, IInv, TypeOK
<1>6. \A q \in Pipes : q # p => ~Holds(q, j)'
  <2> SUFFICES ASSUME NEW q \in Pipes, q # p, Holds(q, j)' PROVE FALSE
    OBVIOUS
  <2>1. pipe'[q] = pipe[q] /\ ~Holds(q, j)
    BY <1>3 DEF AloneOf, IInv, TypeOK
  <2>2. pipe[q].phase = "failing" /\ pipe[q].job = j /\ exec'[j][Attempt(q)] = "running"
    BY <2>1 DEF Holds, Attempt
  <2>3. Attempt(q) \in Attempts /\ exec[j][Attempt(q)] # "none"
    BY <2>2, Started
  <2> QED
    BY <1>2, <1>5, <2>1, <2>2, <2>3 DEF Holds
<1>7. \/ pipe'[p] = IdlePipe
      \/ /\ pipe'[p].phase = "handling" /\ pipe'[p].job = j
         /\ pipe'[p].worker = pipe[p].worker /\ pipe'[p].base = pipe[p].base
         /\ pipe'[p].max = pipe[p].max /\ Attempt(p)' = n
  <2>1. CASE pipe' = [pipe EXCEPT ![p] = IdlePipe]
    BY <2>1 DEF IInv, TypeOK
  <2>2. CASE pipe' = [pipe EXCEPT ![p].phase = "handling"]
    <3>1. pipe'[p] = [pipe[p] EXCEPT !.phase = "handling"]
      BY <2>2 DEF IInv, TypeOK
    <3>2. /\ pipe'[p].phase = "handling" /\ pipe'[p].job = pipe[p].job
          /\ pipe'[p].worker = pipe[p].worker /\ pipe'[p].base = pipe[p].base
          /\ pipe'[p].max = pipe[p].max
      BY <1>1, <3>1 DEF PipeRecord
    <3> QED
      BY <1>1, <3>2 DEF Attempt
  <2> QED
    BY <2>1, <2>2
<1>8. HeldOf(p, j)'
  <2>1. CASE pipe'[p] = IdlePipe
    BY <2>1 DEF HeldOf, Holds, IdlePipe
  <2>2. CASE /\ pipe'[p].phase = "handling" /\ pipe'[p].job = j
             /\ pipe'[p].worker = pipe[p].worker /\ pipe'[p].base = pipe[p].base
             /\ pipe'[p].max = pipe[p].max /\ Attempt(p)' = n
    BY <1>2, <1>4, <1>5, <2>2 DEF HeldOf
  <2> QED
    BY <1>7, <2>1, <2>2
<1>9. (\A q \in Pipes : HeldOf(q, j)') /\ AloneOf(j)'
  BY <1>6, <1>8 DEF HeldOf, AloneOf
<1>10. CountOf(j)'
  BY <1>2, <1>3, <1>5 DEF CountOf, Concluded, Failures
<1>11. BudgetOf(j)' /\ ResultOf(j)'
  BY <1>2, <1>4, <1>3, <1>5 DEF BudgetOf, ResultOf, Pending, Active
<1>12. \A q \in Pipes : \/ pipe'[q] = pipe[q]
                        \/ pipe'[q] = IdlePipe
                        \/ pipe'[q].job = j /\ AliveOf(q)'
  <2>1. \/ pipe'[p] = IdlePipe
        \/ pipe'[p].job = j /\ AliveOf(p)'
    BY <1>1, <1>2, <1>7 DEF AliveOf, HInv, workVars
  <2>2. \A q \in Pipes : q # p => pipe'[q] = pipe[q]
    BY DEF IInv, TypeOK
  <2> QED
    BY <2>1, <2>2
<1> QED
  BY <1>2, <1>5, <1>9, <1>10, <1>11, <1>12, OneJob

\* completeExecution by the pipeline that runs the job, whichever way it learns
\* of it.
LEMMA CompleteHealth ==
  ASSUME IInv, HInv, NEW p \in Pipes, pipe[p].phase = "handling",
         Complete(pipe[p].job, Attempt(p)),
         \/ pipe' = [pipe EXCEPT ![p] = IdlePipe]
         \/ pipe' = [pipe EXCEPT ![p].phase = "failing"]
  PROVE  /\ HInv'
         /\ exec[pipe[p].job][Attempt(p)] = "running"
<1>1. PICK j \in Jobs, n \in Attempts :
         pipe[p].job = j /\ Attempt(p) = n /\ pipe[p] \in PipeRecord
  BY Started, PipeFields DEF IInv
<1>2. Holds(p, j) /\ HeldOf(p, j) /\ AloneOf(j)
  BY <1>1 DEF Holds, HInv
<1>3. exec[j][n] = "running" /\ status[j] = "running"
  BY <1>1, <1>2 DEF HeldOf
<1>4. /\ exec' = [exec EXCEPT ![j][n] = "succeeded"]
      /\ status' = [status EXCEPT ![j] = "completed"]
      /\ attempts' = [attempts EXCEPT ![j] = n]
      /\ result' = [result EXCEPT ![j] = n]
      /\ lease' = [lease EXCEPT ![j] = "none"]
      /\ UNCHANGED <<maxAttempts, claimedBy, workVars>>
  BY <1>1, <1>3 DEF Complete, IInv, TypeOK
<1>5. /\ status'[j] = "completed" /\ result'[j] = n
      /\ \A i \in Jobs : i # j => /\ status'[i] = status[i] /\ result'[i] = result[i]
                                  /\ lease'[i] = lease[i]
  BY <1>4 DEF IInv, TypeOK
<1>6. \/ pipe'[p] = IdlePipe
      \/ pipe'[p].phase = "failing" /\ pipe'[p].job = j /\ Attempt(p)' = n /\ AliveOf(p)'
  <2>1. CASE pipe' = [pipe EXCEPT ![p] = IdlePipe]
    BY <2>1 DEF IInv, TypeOK
  <2>2. CASE pipe' = [pipe EXCEPT ![p].phase = "failing"]
    <3>1. pipe'[p] = [pipe[p] EXCEPT !.phase = "failing"]
      BY <2>2 DEF IInv, TypeOK
    <3>2. /\ pipe'[p].phase = "failing" /\ pipe'[p].job = pipe[p].job
          /\ pipe'[p].worker = pipe[p].worker /\ pipe'[p].base = pipe[p].base
      BY <1>1, <3>1 DEF PipeRecord
    <3>3. AliveOf(p)'
      BY <1>4, <3>2 DEF HInv, AliveOf, workVars
    <3> QED
      BY <1>1, <3>2, <3>3 DEF Attempt
  <2> QED
    BY <2>1, <2>2
<1>7. \A q \in Pipes : q # p => pipe'[q] = pipe[q] /\ ~Holds(q, j)
  BY <1>2 DEF AloneOf, IInv, TypeOK
<1>8. /\ \A q \in Pipes : HeldOf(q, j)'
      /\ AloneOf(j)' /\ CountOf(j)' /\ BudgetOf(j)'
      /\ exec'[j][n] = "succeeded" /\ attempts'[j] = n
      /\ \A i \in Jobs : i # j => exec'[i] = exec[i] /\ attempts'[i] = attempts[i]
  <2>1. /\ "succeeded" \in Concluded /\ status'[j] \notin {"running", "absent"}
        /\ status'[j] \notin Pending \cup Active
    BY <1>5 DEF Concluded, Pending, Active
  <2>2. \A q \in Pipes : \/ pipe'[q] = pipe[q] /\ ~Holds(q, j)
                         \/ pipe'[q] = IdlePipe
                         \/ pipe'[q].phase = "failing" /\ pipe'[q].job = j /\ Attempt(q)' = n
    BY <1>6, <1>7
  <2> HIDE DEF Holds
  <2> QED
    BY <1>3, <1>4, <2>1, <2>2, ConcludeHealth
<1>9. ResultOf(j)'
  BY <1>5, <1>8, CapAssumption DEF ResultOf, Attempts
<1>10. \A q \in Pipes : \/ pipe'[q] = pipe[q]
                        \/ pipe'[q] = IdlePipe
                        \/ pipe'[q].job = j /\ AliveOf(q)'
  BY <1>6, <1>7
<1>11. HInv'
  BY <1>4, <1>5, <1>8, <1>9, <1>10, OneJob DEF Row
<1> QED
  BY <1>1, <1>3, <1>11

\* A failure is reported on the open attempt of the job, or is a late report.
LEMMA FailExecutionHealth ==
  ASSUME IInv, HInv, NEW p \in Pipes, FailExecution(p)
  PROVE  HInv'
<1>1. PICK j \in Jobs, n \in Attempts :
         /\ pipe[p].job = j /\ Attempt(p) = n /\ pipe[p].phase \in {"handling", "failing"}
         /\ FailJob(j, n, pipe[p].max, "failed")
         /\ Release(p) /\ UNCHANGED <<maxAttempts, result, workVars, faults>>
  BY Started DEF FailExecution
<1>2. CASE exec[j][n] = "running"
  <2>1. Holds(p, j) /\ HeldOf(p, j) /\ AloneOf(j)
    BY <1>1, <1>2 DEF Holds, HInv
  <2>2. pipe[p].max = maxAttempts[j]
    BY <2>1 DEF HeldOf
  <2>3. \A q \in Pipes : \/ pipe'[q] = pipe[q] /\ ~Holds(q, j)
                         \/ pipe'[q] = IdlePipe
    BY <1>1, <2>1, Released DEF AloneOf
  <2> QED
    BY <1>1, <1>2, <2>2, <2>3, FailHealth DEF Failures
<1>3. CASE exec[j][n] # "running"
  <2>1. UNCHANGED jobVars
    BY <1>1, <1>3 DEF FailJob, FailStolen, FailOrphan, FailRetry, FailBury
  <2>2. PipesFade
    BY <1>1, ReleaseFades
  <2> QED
    BY <1>1, <2>1, <2>2, FadeAlive, QuietHealth
<1> QED
  BY <1>2, <1>3

\* Every step of a pipeline.
LEMMA PipeStepHealth ==
  ASSUME IInv, HInv, NEW p \in Pipes, PipeStep(p)
  PROVE  HInv'
<1>1. CASE StartExecution(p)
  BY <1>1, InsertHealth DEF StartExecution
<1>2. CASE StartConflict(p) \/ FailError(p)
  BY <1>2, ReleaseFades, FadeAlive, QuietHealth DEF StartConflict, FailError
<1>3. CASE StartError(p)
  <2>1. CASE InsertExecution(p)
    BY <1>3, <2>1, InsertHealth DEF StartError, Release
  <2>2. CASE UNCHANGED <<jobVars, maxAttempts, result, workVars>>
    BY <1>3, <2>2, ReleaseFades, FadeAlive, QuietHealth DEF StartError
  <2> QED
    BY <1>3, <2>1, <2>2 DEF StartError
<1>4. CASE CompleteExecution(p)
  BY <1>4, CompleteHealth DEF CompleteExecution, Busy, Release
<1>5. CASE CompleteError(p)
  <2>1. pipe[p].phase = "handling" /\ pipe' = [pipe EXCEPT ![p].phase = "failing"]
    BY <1>5 DEF CompleteError, Busy
  <2>2. CASE Complete(pipe[p].job, Attempt(p))
    BY <2>1, <2>2, CompleteHealth
  <2>3. CASE UNCHANGED <<jobVars, maxAttempts, result, workVars>>
    BY <2>1, <2>3, FailingFades, FadeAlive, QuietHealth
  <2> QED
    BY <1>5, <2>2, <2>3 DEF CompleteError
<1>6. CASE FailExecution(p)
  BY <1>6, FailExecutionHealth
<1> QED
  BY <1>1, <1>2, <1>3, <1>4, <1>5, <1>6 DEF PipeStep

-----------------------------------------------------------------------------
\* The steps of the processes and of the failure detector.

\* A process that ends takes its pipelines with it, and only a process that has
\* ended goes silent.
LEMMA WorkerStepHealth ==
  ASSUME IInv, HInv, ~Freezes, NEW w \in Workers, WorkerStep(w)
  PROVE  HInv'
<1>1. UNCHANGED <<jobVars, maxAttempts, result>>
  BY DEF WorkerStep, GoSilent, Heartbeat, Crash, StopBegin, StopEnd
<1>2. PipesFade
  BY SamePipesFade, DropFades DEF WorkerStep, GoSilent, Heartbeat, Crash, StopBegin, StopEnd
<1>3. \A p \in Pipes : AliveOf(p)'
  <2>1. CASE GoSilent(w) \/ Heartbeat(w) \/ StopBegin(w)
    <3>1. UNCHANGED pipe /\ \A v \in Workers : proc'[v] = "gone" => proc[v] = "gone"
      BY <2>1 DEF GoSilent, Heartbeat, StopBegin, IInv, TypeOK
    <3>2. \A p \in Pipes : pipe[p].phase # "idle" => pipe[p].worker \in Workers
      BY DEF IInv, PipeOf
    <3> QED
      BY <3>1, <3>2 DEF HInv, AliveOf
  <2>2. CASE Crash(w) \/ StopEnd(w)
    <3>1. DropPipes(w) /\ \A v \in Workers : v # w => proc'[v] = proc[v]
      BY <2>2 DEF Crash, StopEnd, IInv, TypeOK
    <3>2. \A p \in Pipes : \/ pipe'[p] = IdlePipe
                           \/ pipe'[p] = pipe[p] /\ pipe[p].worker # w
      BY <3>1 DEF DropPipes
    <3>3. \A p \in Pipes : pipe[p].phase # "idle" => pipe[p].worker \in Workers
      BY DEF IInv, PipeOf
    <3> QED
      BY <3>1, <3>2, <3>3, IdleRecord DEF HInv, AliveOf
  <2> QED
    BY <2>1, <2>2 DEF WorkerStep
<1>4. \A v \in Workers : WatchOf(v)'
  <2> USE DEF IInv, TypeOK, HInv, WatchOf
  <2>1. CASE GoSilent(w)
    BY <2>1 DEF GoSilent
  <2>2. CASE Heartbeat(w)
    BY <2>2 DEF Heartbeat
  <2>3. CASE Crash(w)
    BY <2>3 DEF Crash
  <2>4. CASE StopBegin(w)
    BY <2>4 DEF StopBegin
  <2>5. CASE StopEnd(w)
    BY <2>5 DEF StopEnd
  <2> QED
    BY <2>1, <2>2, <2>3, <2>4, <2>5 DEF WorkerStep
<1> QED
  BY <1>1, <1>2, <1>3, <1>4, QuietHealth

\* Only the silent are declared dead.
LEMMA DeclareDeadHealth ==
  ASSUME IInv, HInv, DeclareDead
  PROVE  HInv'
<1>1. \A p \in Pipes : AliveOf(p)'
  BY DEF DeclareDead, HInv, AliveOf
<1>2. \A w \in Workers : WatchOf(w)'
  BY DEF DeclareDead, Overdue, HInv, WatchOf
<1> QED
  BY <1>1, <1>2, SamePipesFade, QuietHealth DEF DeclareDead

\* Every step of the specification, when no live process stalls.
LEMMA NextHInv ==
  ASSUME ~Freezes, IInv, HInv, [Next]_vars
  PROVE  HInv'
<1>1. CASE UNCHANGED vars
  BY <1>1, SamePipesFade, FadeAlive, QuietHealth DEF vars
<1>2. CASE Next
  BY <1>2, JobStepHealth, PipeStepHealth, WorkerStepHealth, DeclareDeadHealth DEF Next
<1> QED
  BY <1>1, <1>2

-----------------------------------------------------------------------------
\* The theorems.

\* HInv is an invariant of the lifecycle when no live process stalls.
THEOREM HealthInvariance == ASSUME ~Freezes PROVE Spec => []HInv
<1>1. IInv /\ HInv /\ [Next]_vars => HInv'
  BY NextHInv
<1> QED
  BY <1>1, InitHInv, Invariance, PTL DEF Spec

\* At most one pipeline runs a job or is about to, whatever crashes, whatever
\* answer is lost (docs/architecture.md).
THEOREM OneExecutorCorrect == ASSUME ~Freezes PROVE Spec => []OneExecutor
<1>1. HInv => OneExecutor
  BY DEF HInv, AloneOf, Holds, OneExecutor, Executes
<1> QED
  BY <1>1, HealthInvariance, PTL

\* jobs.attempts counts the concluded executions (001_initial.sql).
THEOREM CountCorrect == ASSUME ~Freezes PROVE Spec => []AttemptsCountConcluded
<1>1. IInv /\ HInv => AttemptsCountConcluded
  <2> SUFFICES ASSUME IInv, HInv, NEW j \in Jobs
               PROVE  attempts[j] = Cardinality({n \in Attempts : exec[j][n] \in Concluded})
    BY DEF AttemptsCountConcluded
  <2>1. CountOf(j) /\ attempts[j] \in 0..MaxAttemptsCap
    BY DEF HInv, IInv, TypeOK
  <2>2. {n \in Attempts : exec[j][n] \in Concluded} = 1..attempts[j]
    BY <2>1, CapAssumption DEF CountOf, Attempts
  <2>3. Cardinality(1..attempts[j]) = attempts[j]
    BY <2>1, FS_Interval
  <2> QED
    BY <2>2, <2>3
<1> QED
  BY <1>1, HealthInvariance, Invariance, PTL

\* No attempt is opened beyond max_attempts, re-drives included.
THEOREM BudgetCorrect == ASSUME ~Freezes PROVE Spec => []WithinBudget
<1>1. IInv /\ HInv => WithinBudget
  <2> SUFFICES ASSUME IInv, HInv, NEW j \in Jobs, NEW n \in Attempts, exec[j][n] # "none"
               PROVE  n <= maxAttempts[j]
    BY DEF WithinBudget
  <2>1. attempts[j] \in Nat /\ maxAttempts[j] \in Nat /\ attempts[j] <= maxAttempts[j]
    BY Budget
  <2>2. CASE exec[j][n] = "running"
    <3>1. n = attempts[j] + 1 /\ status[j] = "running"
      BY <2>2, OpenIsNext
    <3>2. attempts[j] < maxAttempts[j]
      BY <3>1, Budget DEF Active
    <3> QED
      BY <2>1, <3>1, <3>2
  <2>3. CASE exec[j][n] # "running"
    <3>1. exec[j][n] \in Concluded
      BY <2>3 DEF IInv, TypeOK, ExecStatus
    <3> QED
      BY <2>1, <3>1 DEF HInv, CountOf, Attempts
  <2> QED
    BY <2>2, <2>3
<1> QED
  BY <1>1, HealthInvariance, Invariance, PTL

\* The result of a completed job is that of its last attempt, which succeeded.
THEOREM ResultCorrect == ASSUME ~Freezes PROVE Spec => []ResultOfLastAttempt
<1>1. HInv => ResultOfLastAttempt
  BY DEF HInv, ResultOf, ResultOfLastAttempt
<1> QED
  BY <1>1, HealthInvariance, PTL

\* A job is completed by the execution that is open, never by one that had been
\* concluded as lost.
THEOREM LateResultCorrect == ASSUME ~Freezes PROVE Spec => LateResultDiscarded
<1>1. IInv /\ HInv /\ [Next]_vars =>
         [\A j \in Jobs : status[j] # "completed" /\ status'[j] = "completed"
              => exec[j][result'[j]] = "running"]_vars
  <2> SUFFICES ASSUME IInv, HInv, Next, NEW j \in Jobs,
                      status[j] # "completed", status'[j] = "completed"
               PROVE  exec[j][result'[j]] = "running"
    BY DEF vars
  <2>1. ASSUME NEW i \in Jobs, NEW n, NEW max, NEW kind, FailJob(i, n, max, kind) PROVE FALSE
    BY <2>1 DEF FailJob, FailStolen, FailOrphan, FailRetry, FailBury, jobVars, IInv, TypeOK
  <2>2. ASSUME NEW p \in Pipes, InsertExecution(p) PROVE FALSE
    BY <2>2 DEF InsertExecution, IInv, TypeOK
  <2>3. CASE \E i \in Jobs : JobStep(i)
    <3>1. PICK i \in Jobs : JobStep(i)
      BY <2>3
    <3>2. ~ReapLost(i)
      BY <2>1 DEF ReapLost
    <3> QED
      BY <3>1, <3>2
      DEF JobStep, Create, Cancel, RetryNow, Discard, Claim, ClaimLost, ClaimRow,
          LeaseExpires, PromoteDue, ReapUnstarted, Pending, IInv, TypeOK
  <2>4. CASE (\E w \in Workers : WorkerStep(w)) \/ DeclareDead
    BY <2>4
    DEF WorkerStep, GoSilent, Heartbeat, Crash, StopBegin, StopEnd, DeclareDead, jobVars
  <2>5. CASE \E p \in Pipes : PipeStep(p)
    <3>1. PICK p \in Pipes : PipeStep(p)
      BY <2>5
    <3>2. CompleteExecution(p) \/ CompleteError(p)
      <4>1. ~FailExecution(p)
        BY <2>1, Started DEF FailExecution
      <4> QED
        BY <2>2, <3>1, <4>1
        DEF PipeStep, StartExecution, StartConflict, StartError, FailError, jobVars
    <3>3. pipe[p].phase = "handling" /\ Complete(pipe[p].job, Attempt(p))
      BY <3>2 DEF CompleteExecution, CompleteError, Busy, jobVars
    <3>4. \/ pipe' = [pipe EXCEPT ![p] = IdlePipe]
          \/ pipe' = [pipe EXCEPT ![p].phase = "failing"]
      BY <3>2 DEF CompleteExecution, CompleteError, Release
    <3>5. exec[pipe[p].job][Attempt(p)] = "running" /\ pipe[p].job \in Jobs
      BY <3>3, <3>4, CompleteHealth, Started
    <3>6. pipe[p].job = j /\ result'[j] = Attempt(p)
      BY <3>3, <3>5 DEF Complete, IInv, TypeOK
    <3> QED
      BY <3>5, <3>6
  <2> QED
    BY <2>3, <2>4, <2>5 DEF Next
<1> QED
  BY <1>1, HealthInvariance, Invariance, PTL DEF Spec, LateResultDiscarded

\* An attempt is given up as lost only when its lease has passed or its owner is
\* silent, which without stalls means that its process has ended.
THEOREM HealthyJobCorrect == ASSUME ~Freezes PROVE Spec => HealthyJobKept
<1>1. IInv /\ HInv /\ [Next]_vars =>
         [\A j \in Jobs, n \in Attempts :
             exec[j][n] = "running" /\ exec'[j][n] = "lost"
                 => lease[j] = "expired" \/ claimedBy[j] \in silent]_vars
  <2> SUFFICES ASSUME IInv, HInv, Next, NEW j \in Jobs, NEW n \in Attempts,
                      exec[j][n] = "running", exec'[j][n] = "lost"
               PROVE  lease[j] = "expired" \/ claimedBy[j] \in silent
    BY DEF vars
  <2>1. CASE \E i \in Jobs : JobStep(i)
    <3>1. PICK i \in Jobs : JobStep(i)
      BY <2>1
    <3>2. ReapLost(i)
      BY <3>1
      DEF JobStep, Create, Cancel, RetryNow, Discard, Claim, ClaimLost, ClaimRow,
          LeaseExpires, PromoteDue, ReapUnstarted
    <3>3. PICK m \in Attempts : FailJob(i, m, maxAttempts[i], "lost")
      BY <3>2 DEF ReapLost, RunningExecs
    <3>4. exec' = exec \/ exec' = [exec EXCEPT ![i][m] = "lost"]
      BY <3>3 DEF FailJob, FailStolen, FailOrphan, FailRetry, FailBury, jobVars
    <3>5. i = j
      BY <3>4 DEF IInv, TypeOK
    <3> QED
      BY <3>2, <3>5 DEF ReapLost, Reapable, HInv, WatchOf
  <2>2. CASE (\E w \in Workers : WorkerStep(w)) \/ DeclareDead
    BY <2>2
    DEF WorkerStep, GoSilent, Heartbeat, Crash, StopBegin, StopEnd, DeclareDead, jobVars
  <2>3. CASE \E p \in Pipes : PipeStep(p)
    <3>1. PICK p \in Pipes : PipeStep(p)
      BY <2>3
    <3>2. ASSUME NEW i, NEW m, NEW x, x # "lost", exec' = [exec EXCEPT ![i][m] = x] PROVE FALSE
      BY <3>2 DEF IInv, TypeOK
    <3>3. exec' # exec
      OBVIOUS
    <3>4. CASE StartExecution(p) \/ StartConflict(p) \/ StartError(p) \/ FailError(p)
      <4>1. InsertExecution(p)
        BY <3>3, <3>4 DEF StartExecution, StartConflict, StartError, FailError, jobVars
      <4> QED
        BY <3>2, <4>1 DEF InsertExecution
    <3>5. CASE CompleteExecution(p) \/ CompleteError(p)
      <4>1. Complete(pipe[p].job, Attempt(p))
        BY <3>3, <3>5 DEF CompleteExecution, CompleteError, jobVars
      <4>2. exec' = [exec EXCEPT ![pipe[p].job][Attempt(p)] =
                        IF @ = "running" THEN "succeeded" ELSE @]
        BY <4>1 DEF Complete
      <4> QED
        BY <4>2 DEF IInv, TypeOK
    <3>6. CASE FailExecution(p)
      <4>1. exec' = [exec EXCEPT ![pipe[p].job][Attempt(p)] = "failed"]
        BY <3>3, <3>6 DEF FailExecution, FailJob, FailStolen, FailOrphan, FailRetry, FailBury, jobVars
      <4> QED
        BY <3>2, <4>1
    <3> QED
      BY <3>1, <3>4, <3>5, <3>6 DEF PipeStep
  <2> QED
    BY <2>1, <2>2, <2>3 DEF Next
<1> QED
  BY <1>1, HealthInvariance, Invariance, PTL DEF Spec, HealthyJobKept

\* A claim just made is not one the next tick of the reaper would take away: the
\* run that refutes FreshClaimKept needs a process that misses its heartbeats
\* while it lives.
THEOREM FreshClaimCorrect == ASSUME ~Freezes PROVE Spec => FreshClaimKept
<1>1. IInv /\ HInv /\ [Next]_vars =>
         [\A j \in Jobs :
             status[j] = "queued" /\ status'[j] = "claimed" /\ claimedBy'[j] \notin silent
                 => ~Reapable(j)']_vars
  <2> SUFFICES ASSUME IInv, HInv, Next, NEW j \in Jobs,
                      status[j] = "queued", status'[j] = "claimed"
               PROVE  ~Reapable(j)'
    BY DEF vars
  <2>1. HInv' /\ IInv'
    BY NextHInv, NextIInv
  <2>2. \E w \in Workers : ClaimRow(w, j)
    <3>1. ASSUME NEW i \in Jobs, NEW n, NEW max, NEW kind, FailJob(i, n, max, kind) PROVE FALSE
      BY <3>1 DEF FailJob, FailStolen, FailOrphan, FailRetry, FailBury, jobVars, IInv, TypeOK
    <3>2. ASSUME NEW i \in Jobs, NEW n, Complete(i, n) PROVE FALSE
      BY <3>2 DEF Complete, IInv, TypeOK
    <3>3. ASSUME NEW p \in Pipes, InsertExecution(p) PROVE FALSE
      BY <3>3 DEF InsertExecution, IInv, TypeOK
    <3>4. ASSUME NEW p \in Pipes, PipeStep(p) PROVE FALSE
      <4>1. ~FailExecution(p) /\ ~CompleteExecution(p)
        BY <3>1, <3>2, Started DEF FailExecution, CompleteExecution, Busy
      <4>2. ~CompleteError(p)
        BY <3>2, Started DEF CompleteError, Busy, jobVars
      <4> QED
        BY <3>3, <3>4, <4>1, <4>2
        DEF PipeStep, StartExecution, StartConflict, StartError, FailError, jobVars
    <3>5. ASSUME NEW w \in Workers, WorkerStep(w) PROVE FALSE
      BY <3>5 DEF WorkerStep, GoSilent, Heartbeat, Crash, StopBegin, StopEnd, jobVars
    <3>6. ~DeclareDead
      BY DEF DeclareDead, jobVars
    <3>7. PICK i \in Jobs : JobStep(i)
      BY <3>4, <3>5, <3>6 DEF Next
    <3>8. ~ReapLost(i)
      BY <3>1 DEF ReapLost
    <3> QED
      BY <3>7, <3>8
      DEF JobStep, Create, Cancel, RetryNow, Discard, Claim, ClaimLost, ClaimRow,
          LeaseExpires, PromoteDue, ReapUnstarted, Pending, IInv, TypeOK
  <2>3. PICK w \in Workers : ClaimRow(w, j)
    BY <2>2
  <2>4. /\ claimedBy'[j] = w /\ lease'[j] = "live" /\ proc[w] = "up"
        /\ UNCHANGED workVars
    BY <2>3, ClaimRowHealth DEF ClaimRow
  <2>5. wstat'[w] # "dead"
    BY <2>4 DEF HInv, WatchOf, workVars
  <2> QED
    BY <2>4, <2>5 DEF Reapable
<1> QED
  BY <1>1, HealthInvariance, Invariance, PTL DEF Spec, FreshClaimKept
=============================================================================
