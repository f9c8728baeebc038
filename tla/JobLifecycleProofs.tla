------------------------- MODULE JobLifecycleProofs -------------------------
(***************************************************************************)
(* Proofs about JobLifecycle, for every set of jobs, workers and pipelines,*)
(* every cap on attempts, every number of faults, stalls included.         *)
(*                                                                         *)
(* AttemptNumbering, RunningIsExecuted, ActiveIsRecoverable and            *)
(* FailedIsQuiet are not inductive one by one: that a late INSERT never    *)
(* opens a gap or a dead job depends on what the pipeline knew when it was *)
(* launched.  PipeOf records that knowledge, RoomOf bounds it, and IInv is *)
(* the conjunction that every action preserves.  The actions are taken in  *)
(* four families: those that leave the tables alone, failExecution,        *)
(* completeExecution and the INSERT of startExecution share a lemma each.  *)
(***************************************************************************)
EXTENDS JobLifecycle, TLAPS

\* What a pipeline knows of its attempt: the attempt before it has been
\* concluded, and once it has started its own attempt is on record.
PipeOf(p) ==
    pipe[p].phase # "idle" =>
        /\ pipe[p].job \in Jobs
        /\ pipe[p].worker \in Workers
        /\ pipe[p].base < MaxAttemptsCap
        /\ pipe[p].base > 0 => exec[pipe[p].job][pipe[p].base] \in Concluded
        /\ pipe[p].phase # "launched" => exec[pipe[p].job][Attempt(p)] # "none"

\* A job that is not at rest has an attempt left under the cap.
RoomOf(j) == status[j] \notin Terminal => attempts[j] < MaxAttemptsCap

RunningOf(j) == status[j] = "running" => \E n \in Attempts : exec[j][n] = "running"

\* The inductive invariant.
IInv ==
    /\ TypeOK
    /\ \A p \in Pipes : PipeOf(p)
    /\ \A j \in Jobs : RoomOf(j)
    /\ \A j \in Jobs : NumberingOf(j)
    /\ \A j \in Jobs : RunningOf(j)
    /\ \A j \in Jobs : OwnershipOf(j)
    /\ \A j \in Jobs : FailedOf(j)

\* The variables of the worker processes keep their types.
WorkTypeOK ==
    /\ proc \in [Workers -> {"up", "draining", "gone"}]
    /\ wstat \in [Workers -> {"online", "offline", "dead"}]
    /\ silent \in SUBSET Workers
    /\ faults \in 0..MaxFaults

\* Pipelines end, or pass from the handler to the report of a failure.
Fades(p) ==
    \/ pipe'[p] = pipe[p]
    \/ pipe'[p] = IdlePipe
    \/ pipe[p].phase = "handling" /\ pipe'[p] = [pipe[p] EXCEPT !.phase = "failing"]

PipesFade == pipe' \in [Pipes -> PipeRecord] /\ \A p \in Pipes : Fades(p)

-----------------------------------------------------------------------------

\* An idle pipeline is a pipeline.
LEMMA IdleRecord == IdlePipe \in PipeRecord /\ IdlePipe.phase = "idle"
  BY CapAssumption DEF IdlePipe, PipeRecord

\* Changing the phase of a pipeline changes nothing else of it.
LEMMA RecordPhase ==
  ASSUME NEW r \in PipeRecord, NEW x \in {"idle", "launched", "handling", "failing"}
  PROVE  /\ [r EXCEPT !.phase = x] \in PipeRecord
         /\ [r EXCEPT !.phase = x].phase = x
         /\ [r EXCEPT !.phase = x].job = r.job
         /\ [r EXCEPT !.phase = x].worker = r.worker
         /\ [r EXCEPT !.phase = x].base = r.base
  BY DEF PipeRecord

\* The fields of a pipeline have their types.
LEMMA PipeFields ==
  ASSUME TypeOK, NEW p \in Pipes
  PROVE  /\ pipe[p] \in PipeRecord
         /\ pipe[p].phase \in {"idle", "launched", "handling", "failing"}
         /\ pipe[p].job \in Jobs \cup {None}
         /\ pipe[p].base \in 0..MaxAttemptsCap
         /\ pipe[p].max \in 0..MaxAttemptsCap
  BY DEF TypeOK, PipeRecord

\* The initial states satisfy the inductive invariant.
LEMMA InitIInv == Init => IInv
  BY CapAssumption, FaultsAssumption, NoneAssumption
  DEF Init, IInv, TypeOK, IdlePipe, PipeRecord, PipeOf, RoomOf, NumberingOf, RunningOf,
      OwnershipOf, FailedOf, Attempts, JobStatus, Pending, Active, Terminal, ExecStatus,
      Concluded, Failures, DlqStatus, RunningExecs, Attempt

\* Fading pipelines keep what they know, if executions are only concluded.
LEMMA FadePipes ==
  ASSUME IInv, PipesFade,
         \A j \in Jobs, n \in Attempts :
            /\ exec[j][n] # "none" => exec'[j][n] # "none"
            /\ exec[j][n] \in Concluded => exec'[j][n] \in Concluded
  PROVE  /\ \A p \in Pipes : PipeOf(p)'
         /\ \A p \in Pipes : pipe'[p].phase = "launched" => pipe'[p] = pipe[p]
<1>1. \A p \in Pipes : PipeOf(p)'
  <2> SUFFICES ASSUME NEW p \in Pipes PROVE PipeOf(p)'
    OBVIOUS
  <2>1. PipeOf(p) /\ Fades(p) /\ pipe[p] \in PipeRecord
    BY DEF IInv, TypeOK, PipesFade
  <2>2. CASE pipe'[p] = IdlePipe
    BY <2>2 DEF PipeOf, IdlePipe
  <2>3. CASE pipe'[p] # IdlePipe /\ pipe[p].phase = "idle"
    BY <2>1, <2>3 DEF Fades, PipeOf
  <2>4. CASE pipe'[p] # IdlePipe /\ pipe[p].phase # "idle"
    <3>1. /\ pipe'[p].job = pipe[p].job /\ pipe'[p].worker = pipe[p].worker
          /\ pipe'[p].base = pipe[p].base
          /\ pipe[p].phase = "launched" => pipe'[p].phase = "launched"
          /\ pipe'[p].phase # "launched" => pipe[p].phase # "launched"
      <4>1. CASE pipe'[p] = pipe[p]
        BY <4>1
      <4>2. CASE pipe[p].phase = "handling" /\ pipe'[p] = [pipe[p] EXCEPT !.phase = "failing"]
        BY <2>1, <4>2, RecordPhase
      <4> QED
        BY <2>1, <2>4, <4>1, <4>2 DEF Fades
    <3>2. pipe[p].base \in 0..(MaxAttemptsCap - 1) /\ Attempt(p) \in Attempts
      BY <2>1, <2>4, PipeFields, CapAssumption DEF IInv, PipeOf, Attempt, Attempts
    <3>3. Attempt(p)' = Attempt(p)
      BY <3>1 DEF Attempt
    <3>4. pipe[p].base > 0 => exec'[pipe[p].job][pipe[p].base] \in Concluded
      BY <2>1, <2>4, <3>2, CapAssumption DEF PipeOf, Attempts
    <3>5. pipe[p].phase # "launched" => exec'[pipe[p].job][Attempt(p)] # "none"
      BY <2>1, <2>4, <3>2 DEF PipeOf
    <3> QED
      BY <2>1, <2>4, <3>1, <3>3, <3>4, <3>5 DEF PipeOf
  <2> QED
    BY <2>2, <2>3, <2>4
<1>2. \A p \in Pipes : pipe'[p].phase = "launched" => pipe'[p] = pipe[p]
  <2> SUFFICES ASSUME NEW p \in Pipes, pipe'[p].phase = "launched"
               PROVE  pipe'[p] = pipe[p]
    OBVIOUS
  <2>1. pipe[p] \in PipeRecord /\ Fades(p)
    BY DEF IInv, TypeOK, PipesFade
  <2>2. pipe'[p] # IdlePipe /\ pipe'[p] # [pipe[p] EXCEPT !.phase = "failing"]
    BY <2>1, IdleRecord, RecordPhase
  <2> QED
    BY <2>1, <2>2 DEF Fades
<1> QED
  BY <1>1, <1>2

\* A step that leaves the rows of the jobs alone and lets pipelines fade.
LEMMA QuietStep ==
  ASSUME IInv, UNCHANGED <<jobVars, maxAttempts, result>>, WorkTypeOK', PipesFade
  PROVE  IInv'
<1>1. TypeOK'
  BY DEF IInv, TypeOK, WorkTypeOK, PipesFade, jobVars
<1>2. /\ \A p \in Pipes : PipeOf(p)'
      /\ \A p \in Pipes : pipe'[p].phase = "launched" => pipe'[p] = pipe[p]
  BY FadePipes DEF jobVars
<1>3. \A j \in Jobs : RoomOf(j)' /\ NumberingOf(j)' /\ RunningOf(j)' /\ OwnershipOf(j)'
  BY DEF IInv, RoomOf, NumberingOf, RunningOf, OwnershipOf, jobVars
<1>4. \A j \in Jobs : FailedOf(j)'
  BY <1>2 DEF IInv, FailedOf, Attempt, RunningExecs, jobVars
<1> QED
  BY <1>1, <1>2, <1>3, <1>4 DEF IInv

\* Concluding a running execution: it was the only one, and the numbering stays.
LEMMA ConcludeExec ==
  ASSUME IInv, PipesFade, NEW j \in Jobs, NEW n \in Attempts, NEW k \in Concluded,
         exec[j][n] = "running", exec' = [exec EXCEPT ![j][n] = k]
  PROVE  /\ exec' \in [Jobs -> [Attempts -> ExecStatus]]
         /\ \A p \in Pipes : PipeOf(p)'
         /\ \A p \in Pipes : pipe'[p].phase = "launched" => pipe'[p] = pipe[p]
         /\ exec'[j][n] = k
         /\ \A i \in Jobs, m \in Attempts : i # j \/ m # n => exec'[i][m] = exec[i][m]
         /\ \A i \in Jobs, m \in Attempts :
               exec'[i][m] # "none" => \A l \in 1..(m - 1) : exec'[i][l] \in Concluded
         /\ \A m \in Attempts : m < n => exec[j][m] \in Concluded
         /\ \A m \in Attempts : m > n => exec[j][m] = "none"
         /\ \A m \in Attempts : exec'[j][m] # "running"
<1>1. \A i \in Jobs, m \in Attempts : exec'[i][m] = IF i = j /\ m = n THEN k ELSE exec[i][m]
  BY DEF IInv, TypeOK
<1>2. exec' \in [Jobs -> [Attempts -> ExecStatus]]
  BY DEF IInv, TypeOK, ExecStatus
<1>3. k # "none" /\ k # "running" /\ "running" \notin Concluded /\ "none" \notin Concluded
  BY DEF Concluded, Failures
<1>4. /\ \A p \in Pipes : PipeOf(p)'
      /\ \A p \in Pipes : pipe'[p].phase = "launched" => pipe'[p] = pipe[p]
  BY <1>1, <1>3, FadePipes
<1>5. \A m \in Attempts : (m < n => exec[j][m] \in Concluded) /\ (m > n => exec[j][m] = "none")
  BY <1>3, CapAssumption DEF IInv, NumberingOf, Attempts
<1>6. \A i \in Jobs, m \in Attempts :
         exec'[i][m] # "none" => \A l \in 1..(m - 1) : exec'[i][l] \in Concluded
  <2> SUFFICES ASSUME NEW i \in Jobs, NEW m \in Attempts, exec'[i][m] # "none",
                      NEW l \in 1..(m - 1)
               PROVE  exec'[i][l] \in Concluded
    OBVIOUS
  <2>1. l \in Attempts /\ exec[i][m] # "none"
    BY <1>1, <1>3, CapAssumption DEF Attempts
  <2>2. exec[i][l] \in Concluded
    BY <2>1 DEF IInv, NumberingOf
  <2> QED
    BY <1>1, <2>1, <2>2
<1>7. \A m \in Attempts : exec'[j][m] # "running"
  <2> SUFFICES ASSUME NEW m \in Attempts PROVE exec'[j][m] # "running"
    OBVIOUS
  <2>1. m < n \/ m = n \/ m > n
    BY CapAssumption DEF Attempts
  <2> QED
    BY <1>1, <1>3, <1>5, <2>1
<1> QED
  BY <1>1, <1>2, <1>4, <1>5, <1>6, <1>7

\* startExecution's INSERT, whichever way the pipeline learns of it.
LEMMA InsertStep ==
  ASSUME IInv, NEW p \in Pipes, InsertExecution(p), WorkTypeOK',
         \/ pipe' = [pipe EXCEPT ![p] = IdlePipe]
         \/ pipe' = [pipe EXCEPT ![p].phase = "handling"]
  PROVE  IInv'
<1> DEFINE j == pipe[p].job
           n == Attempt(p)
<1>1. /\ j \in Jobs /\ n \in Attempts /\ exec[j][n] = "none" /\ pipe[p].phase = "launched"
      /\ n > 1 => exec[j][n - 1] \in Concluded
      /\ pipe[p] \in PipeRecord
  <2>1. pipe[p] \in PipeRecord /\ pipe[p].base \in 0..MaxAttemptsCap
    BY PipeFields DEF IInv
  <2>2. pipe[p].phase = "launched" /\ exec[j][n] = "none"
    BY DEF InsertExecution, Busy
  <2>3. PipeOf(p)
    BY DEF IInv
  <2> QED
    BY <2>1, <2>2, <2>3, CapAssumption DEF PipeOf, Attempt, Attempts
<1>2. /\ exec' = [exec EXCEPT ![j][n] = "running"]
      /\ status' = [status EXCEPT ![j] = IF @ = "claimed" THEN "running" ELSE @]
      /\ UNCHANGED <<attempts, maxAttempts, claimedBy, lease, result, dlq>>
  BY DEF InsertExecution
<1> HIDE DEF j, n
<1>3. \A i \in Jobs, m \in Attempts :
         exec'[i][m] = IF i = j /\ m = n THEN "running" ELSE exec[i][m]
  BY <1>1, <1>2 DEF IInv, TypeOK
<1>4. \A i \in Jobs : status'[i] = IF i = j /\ status[i] = "claimed" THEN "running" ELSE status[i]
  BY <1>1, <1>2 DEF IInv, TypeOK
<1>5. TypeOK'
  <2>1. pipe' \in [Pipes -> PipeRecord]
    <3>1. PICK r \in PipeRecord : pipe' = [pipe EXCEPT ![p] = r]
      BY <1>1, IdleRecord, RecordPhase
    <3> QED
      BY <3>1 DEF IInv, TypeOK
  <2>2. exec' \in [Jobs -> [Attempts -> ExecStatus]] /\ status' \in [Jobs -> JobStatus]
    BY <1>1, <1>2 DEF IInv, TypeOK, ExecStatus, JobStatus, Active
  <2> QED
    BY <1>2, <2>1, <2>2 DEF IInv, TypeOK, WorkTypeOK
<1>6. \A q \in Pipes : PipeOf(q)'
  <2> SUFFICES ASSUME NEW q \in Pipes PROVE PipeOf(q)'
    OBVIOUS
  <2>1. PipeOf(q) /\ pipe[q] \in PipeRecord
    BY DEF IInv, TypeOK
  <2>2. CASE pipe'[q] = pipe[q]
    <3>1. CASE pipe[q].phase = "idle"
      BY <2>2, <3>1 DEF PipeOf
    <3>2. CASE pipe[q].phase # "idle"
      <4>1. /\ pipe[q].base \in 0..(MaxAttemptsCap - 1) /\ pipe[q].job \in Jobs
            /\ Attempt(q) \in Attempts
        BY <2>1, <3>2, PipeFields, CapAssumption DEF IInv, PipeOf, Attempt, Attempts
      <4>2. pipe[q].base > 0 => exec'[pipe[q].job][pipe[q].base] = exec[pipe[q].job][pipe[q].base]
        BY <1>1, <1>3, <2>1, <3>2, <4>1, CapAssumption
        DEF PipeOf, Attempts, Concluded, Failures
      <4>3. pipe[q].phase # "launched" => exec'[pipe[q].job][Attempt(q)] # "none"
        BY <1>3, <2>1, <3>2, <4>1 DEF PipeOf
      <4> QED
        BY <2>1, <2>2, <3>2, <4>1, <4>2, <4>3 DEF PipeOf, Attempt
    <3> QED
      BY <3>1, <3>2
  <2>3. CASE pipe'[q] = IdlePipe
    BY <2>3 DEF PipeOf, IdlePipe
  <2>4. CASE q = p /\ pipe' = [pipe EXCEPT ![p].phase = "handling"]
    <3>1. /\ pipe'[p].job = j /\ pipe'[p].base = pipe[p].base
          /\ pipe'[p].worker = pipe[p].worker /\ pipe'[p].phase = "handling"
      BY <1>1, <2>4, RecordPhase DEF IInv, TypeOK, j
    <3>2. n = pipe[p].base + 1 /\ pipe[p].base \in 0..MaxAttemptsCap /\ pipe[p].job = j
      BY PipeFields DEF IInv, Attempt, j, n
    <3>3. Attempt(p)' = n
      BY <3>1, <3>2 DEF Attempt
    <3>4. pipe[p].base > 0 => exec'[j][pipe[p].base] \in Concluded
      BY <1>1, <1>3, <2>1, <3>2, CapAssumption DEF PipeOf, Attempts
    <3> QED
      BY <1>1, <1>3, <2>1, <2>4, <3>1, <3>2, <3>3, <3>4 DEF PipeOf
  <2> QED
    BY <2>2, <2>3, <2>4 DEF IInv, TypeOK
<1>7. \A i \in Jobs : RoomOf(i)'
  BY <1>2, <1>4 DEF IInv, RoomOf, Terminal
<1>8. \A i \in Jobs : NumberingOf(i)'
  <2> SUFFICES ASSUME NEW i \in Jobs PROVE NumberingOf(i)'
    OBVIOUS
  <2>1. CASE i # j
    BY <1>2, <1>3, <2>1 DEF IInv, TypeOK, NumberingOf, Attempts
  <2>2. CASE i = j
    <3>1. \A m \in Attempts : m < n => exec[j][m] \in Concluded
      BY <1>1, CapAssumption DEF IInv, NumberingOf, Attempts, Concluded, Failures
    <3>2. \A m \in Attempts : m > n => exec[j][m] = "none"
      BY <1>1, CapAssumption DEF IInv, NumberingOf, Attempts, Concluded, Failures
    <3>3. attempts[j] > 0 => attempts[j] # n /\ attempts[j] \in Attempts
      <4>1. attempts[j] \in 0..MaxAttemptsCap /\ NumberingOf(j)
        BY <1>1 DEF IInv, TypeOK
      <4> QED
        BY <1>1, <4>1, CapAssumption DEF NumberingOf, Attempts, Concluded, Failures
    <3> QED
      BY <1>1, <1>2, <1>3, <2>2, <3>1, <3>2, <3>3, CapAssumption
      DEF IInv, NumberingOf, Attempts
  <2> QED
    BY <2>1, <2>2
<1>9. \A i \in Jobs : RunningOf(i)'
  BY <1>1, <1>3, <1>4 DEF IInv, RunningOf
<1>10. \A i \in Jobs : OwnershipOf(i)'
  BY <1>2, <1>4 DEF IInv, OwnershipOf, Active
<1>11. \A i \in Jobs : FailedOf(i)'
  <2> SUFFICES ASSUME NEW i \in Jobs PROVE FailedOf(i)'
    OBVIOUS
  <2>1. FailedOf(i) /\ FailedOf(j)
    BY <1>1 DEF IInv
  <2>2. status[j] # "failed"
    BY <1>1, <2>1 DEF FailedOf, j, n
  <2>3. (status'[i] = "failed") <=> (status[i] = "failed")
    BY <1>4
  <2>4. \A q \in Pipes : pipe'[q].phase = "launched" => pipe'[q] = pipe[q]
    <3>1. PICK r \in PipeRecord : pipe' = [pipe EXCEPT ![p] = r] /\ r.phase # "launched"
      BY <1>1, IdleRecord, RecordPhase
    <3> QED
      BY <3>1 DEF IInv, TypeOK
  <2>5. CASE i # j
    <3>1. \A m \in Attempts : exec'[i][m] = exec[i][m]
      BY <1>3, <2>5
    <3>2. \A q \in Pipes : pipe[q].phase = "launched" /\ pipe[q].job = i
                              => Attempt(q) \in Attempts
      BY PipeFields, CapAssumption DEF IInv, PipeOf, Attempt, Attempts
    <3> QED
      BY <1>2, <2>1, <2>3, <2>4, <3>1, <3>2 DEF FailedOf, RunningExecs, Attempt
  <2>6. CASE i = j
    BY <1>2, <2>1, <2>2, <2>3, <2>6 DEF FailedOf
  <2> QED
    BY <2>5, <2>6
<1> QED
  BY <1>5, <1>6, <1>7, <1>8, <1>9, <1>10, <1>11 DEF IInv

\* completeExecution, for the attempt of a pipeline that has started it.
LEMMA CompleteStep ==
  ASSUME IInv, NEW j \in Jobs, NEW n \in Attempts, exec[j][n] # "none",
         Complete(j, n), PipesFade, faults' \in 0..MaxFaults
  PROVE  IInv'
<1>1. /\ exec' \in [Jobs -> [Attempts -> ExecStatus]]
      /\ \A p \in Pipes : PipeOf(p)'
      /\ \A p \in Pipes : pipe'[p].phase = "launched" => pipe'[p] = pipe[p]
      /\ \A i \in Jobs, m \in Attempts :
            exec'[i][m] # "none" => \A l \in 1..(m - 1) : exec'[i][l] \in Concluded
      /\ \A i \in Jobs, m \in Attempts :
            /\ exec[i][m] \in Concluded => exec'[i][m] \in Concluded
            /\ exec[i][m] # "none" => exec'[i][m] # "none"
            /\ exec'[i][m] = "running" => exec[i][m] = "running"
            /\ i # j => exec'[i][m] = exec[i][m]
      /\ exec'[j][n] \in Concluded
  <2>1. CASE exec[j][n] = "running"
    <3>1. exec' = [exec EXCEPT ![j][n] = "succeeded"] /\ "succeeded" \in Concluded
      BY <2>1 DEF Complete, Concluded, IInv, TypeOK
    <3>2. /\ exec' \in [Jobs -> [Attempts -> ExecStatus]]
          /\ \A p \in Pipes : PipeOf(p)'
          /\ \A p \in Pipes : pipe'[p].phase = "launched" => pipe'[p] = pipe[p]
          /\ \A i \in Jobs, m \in Attempts :
                exec'[i][m] # "none" => \A l \in 1..(m - 1) : exec'[i][l] \in Concluded
      BY <2>1, <3>1, ConcludeExec
    <3>3. \A i \in Jobs, m \in Attempts :
             exec'[i][m] = IF i = j /\ m = n THEN "succeeded" ELSE exec[i][m]
      BY <3>1 DEF IInv, TypeOK
    <3> QED
      BY <3>1, <3>2, <3>3
  <2>2. CASE exec[j][n] # "running"
    <3>1. exec' = exec
      BY <2>2 DEF Complete, IInv, TypeOK
    <3>2. exec[j][n] \in Concluded
      BY <2>2 DEF IInv, TypeOK, ExecStatus
    <3>3. \A p \in Pipes : PipeOf(p)' /\ (pipe'[p].phase = "launched" => pipe'[p] = pipe[p])
      BY <3>1, FadePipes
    <3> QED
      BY <3>1, <3>2, <3>3 DEF IInv, TypeOK, NumberingOf
  <2> QED
    BY <2>1, <2>2
<1>2. /\ UNCHANGED <<maxAttempts, claimedBy, dlq, proc, wstat, silent>>
      /\ \/ /\ status[j] = "running"
            /\ status' = [status EXCEPT ![j] = "completed"]
            /\ attempts' = [attempts EXCEPT ![j] = n]
            /\ result' = [result EXCEPT ![j] = n]
            /\ lease' = [lease EXCEPT ![j] = "none"]
         \/ /\ status[j] # "running"
            /\ UNCHANGED <<status, attempts, result, lease>>
  BY DEF Complete, workVars
<1>3. /\ \A i \in Jobs : i # j => /\ status'[i] = status[i] /\ attempts'[i] = attempts[i]
                                  /\ lease'[i] = lease[i]
      /\ \/ /\ status[j] = "running" /\ status'[j] = "completed"
            /\ attempts'[j] = n /\ lease'[j] = "none"
         \/ /\ status[j] # "running" /\ status'[j] = status[j]
            /\ attempts'[j] = attempts[j] /\ lease'[j] = lease[j]
  BY <1>2 DEF IInv, TypeOK
<1>4. TypeOK'
  <2>1. /\ status' \in [Jobs -> JobStatus] /\ lease' \in [Jobs -> {"none", "live", "expired"}]
        /\ attempts' \in [Jobs -> 0..MaxAttemptsCap] /\ result' \in [Jobs -> 0..MaxAttemptsCap]
    <3>1. n \in 0..MaxAttemptsCap /\ "completed" \in JobStatus
      BY CapAssumption DEF Attempts, JobStatus, Terminal
    <3>2. CASE UNCHANGED <<status, attempts, result, lease>>
      BY <3>2 DEF IInv, TypeOK
    <3>3. CASE /\ status' = [status EXCEPT ![j] = "completed"]
               /\ attempts' = [attempts EXCEPT ![j] = n]
               /\ result' = [result EXCEPT ![j] = n]
               /\ lease' = [lease EXCEPT ![j] = "none"]
      BY <3>1, <3>3 DEF IInv, TypeOK
    <3> QED
      BY <1>2, <3>2, <3>3
  <2> QED
    BY <1>1, <1>2, <2>1 DEF IInv, TypeOK, PipesFade
<1>5. \A i \in Jobs : RoomOf(i)'
  BY <1>3 DEF IInv, RoomOf, Terminal
<1>6. \A i \in Jobs : NumberingOf(i)'
  <2> SUFFICES ASSUME NEW i \in Jobs PROVE NumberingOf(i)'
    OBVIOUS
  <2>1. attempts'[i] > 0 => exec'[i][attempts'[i]] \in Concluded
    <3>1. NumberingOf(i) /\ attempts[i] \in 0..MaxAttemptsCap
      BY DEF IInv, TypeOK
    <3>2. CASE i = j /\ attempts'[i] = n
      BY <1>1, <3>2
    <3>3. CASE attempts'[i] = attempts[i]
      BY <1>1, <3>1, <3>3, CapAssumption DEF NumberingOf, Attempts
    <3> QED
      BY <1>3, <3>2, <3>3
  <2> QED
    BY <1>1, <2>1 DEF NumberingOf
<1>7. \A i \in Jobs : RunningOf(i)'
  BY <1>1, <1>3 DEF IInv, RunningOf
<1>8. \A i \in Jobs : OwnershipOf(i)'
  BY <1>2, <1>3 DEF IInv, OwnershipOf, Active
<1>9. \A i \in Jobs : FailedOf(i)'
  <2> SUFFICES ASSUME NEW i \in Jobs PROVE FailedOf(i)'
    OBVIOUS
  <2>1. FailedOf(i)
    BY DEF IInv
  <2>2. (status'[i] = "failed" <=> status[i] = "failed")
        /\ (status[i] = "failed" => attempts'[i] = attempts[i])
    BY <1>3
  <2>3. \A p \in Pipes : pipe'[p].phase = "launched" /\ pipe'[p].job = i
                            => pipe[p].phase = "launched" /\ pipe[p].job = i
                               /\ Attempt(p)' = Attempt(p) /\ Attempt(p) \in Attempts
    BY <1>1, PipeFields, CapAssumption DEF IInv, PipeOf, Attempt, Attempts
  <2>4. \A m \in Attempts : /\ exec[i][m] # "none" => exec'[i][m] # "none"
                            /\ exec'[i][m] = "running" => exec[i][m] = "running"
    BY <1>1
  <2> QED
    BY <1>2, <2>1, <2>2, <2>3, <2>4 DEF FailedOf, RunningExecs
<1> QED
  BY <1>1, <1>4, <1>5, <1>6, <1>7, <1>8, <1>9 DEF IInv

\* failExecution, called by a pipeline or by the reaper.
LEMMA FailStep ==
  ASSUME IInv, NEW j \in Jobs, NEW n \in Attempts, NEW max \in 0..MaxAttemptsCap,
         NEW kind \in Failures, FailJob(j, n, max, kind),
         UNCHANGED <<maxAttempts, result>>, WorkTypeOK', PipesFade
  PROVE  IInv'
<1>1. CASE FailStolen(j, n)
  BY <1>1, QuietStep DEF FailStolen
<1>2. ASSUME exec[j][n] = "running", exec' = [exec EXCEPT ![j][n] = kind]
      PROVE  /\ exec' \in [Jobs -> [Attempts -> ExecStatus]]
             /\ \A p \in Pipes : PipeOf(p)'
             /\ \A p \in Pipes : pipe'[p].phase = "launched" => pipe'[p] = pipe[p]
             /\ \A i \in Jobs, m \in Attempts :
                   exec'[i][m] # "none" => \A l \in 1..(m - 1) : exec'[i][l] \in Concluded
             /\ \A m \in Attempts : exec'[j][m] # "running"
             /\ \A m \in Attempts : m <= n => exec'[j][m] # "none"
             /\ \A m \in Attempts : m > n => exec[j][m] = "none"
             /\ exec'[j][n] \in Concluded
             /\ \A i \in Jobs, m \in Attempts : i # j \/ m # n => exec'[i][m] = exec[i][m]
             /\ \A i \in Jobs, m \in Attempts :
                   /\ exec[i][m] # "none" => exec'[i][m] # "none"
                   /\ exec[i][m] \in Concluded => exec'[i][m] \in Concluded
  <2>1. kind \in Concluded /\ kind # "none"
    BY DEF Concluded, Failures
  <2>2. /\ exec' \in [Jobs -> [Attempts -> ExecStatus]]
        /\ exec'[j][n] = kind
        /\ \A i \in Jobs, m \in Attempts : i # j \/ m # n => exec'[i][m] = exec[i][m]
    BY <1>2, <2>1 DEF IInv, TypeOK, ExecStatus
  <2>7. \A p \in Pipes : PipeOf(p)'
    BY <1>2, <2>1, ConcludeExec
  <2>8. \A p \in Pipes : pipe'[p].phase = "launched" => pipe'[p] = pipe[p]
    BY <1>2, <2>1, ConcludeExec
  <2>9. \A i \in Jobs, m \in Attempts :
           exec'[i][m] # "none" => \A l \in 1..(m - 1) : exec'[i][l] \in Concluded
    BY <1>2, <2>1, ConcludeExec
  <2>3. /\ \A m \in Attempts : m < n => exec[j][m] \in Concluded
        /\ \A m \in Attempts : m > n => exec[j][m] = "none"
        /\ \A m \in Attempts : exec'[j][m] # "running"
    BY <1>2, <2>1, ConcludeExec
  <2>4. \A m \in Attempts : m <= n => exec'[j][m] # "none"
    BY <2>1, <2>2, <2>3, CapAssumption DEF Attempts, Concluded, Failures
  <2>5. \A i \in Jobs, m \in Attempts :
           /\ exec[i][m] # "none" => exec'[i][m] # "none"
           /\ exec[i][m] \in Concluded => exec'[i][m] \in Concluded
    BY <1>2, <2>1, <2>2
  <2>6. exec'[j][n] \in Concluded
    BY <2>1, <2>2
  <2> QED
    BY <2>2, <2>3, <2>4, <2>5, <2>6, <2>7, <2>8, <2>9
<1>3. CASE FailOrphan(j, n, kind)
  <2>1. exec[j][n] = "running" /\ status[j] \notin Active /\ exec' = [exec EXCEPT ![j][n] = kind]
        /\ UNCHANGED <<status, attempts, claimedBy, lease, dlq>>
    BY <1>3 DEF FailOrphan
  <2>2. TypeOK'
    BY <1>2, <2>1 DEF IInv, TypeOK, WorkTypeOK, PipesFade
  <2>3. \A i \in Jobs : RoomOf(i)' /\ OwnershipOf(i)' /\ RunningOf(i)'
    BY <1>2, <2>1 DEF IInv, RoomOf, OwnershipOf, RunningOf, Active
  <2>4. \A i \in Jobs : NumberingOf(i)'
    BY <1>2, <2>1, CapAssumption DEF IInv, TypeOK, NumberingOf, Attempts
  <2>5. \A i \in Jobs : FailedOf(i)'
    <3> SUFFICES ASSUME NEW i \in Jobs PROVE FailedOf(i)'
      OBVIOUS
    <3>1. FailedOf(i) /\ (status[j] = "failed" => FALSE)
      BY <2>1 DEF IInv, FailedOf, RunningExecs
    <3>2. \A p \in Pipes : pipe'[p].phase = "launched" /\ pipe'[p].job = i
                              => pipe[p].phase = "launched" /\ pipe[p].job = i
                                 /\ Attempt(p)' = Attempt(p) /\ Attempt(p) \in Attempts
      BY <1>2, <2>1, PipeFields, CapAssumption DEF IInv, PipeOf, Attempt, Attempts
    <3> QED
      BY <1>2, <2>1, <3>1, <3>2 DEF FailedOf, RunningExecs
  <2> QED
    BY <1>2, <2>1, <2>2, <2>3, <2>4, <2>5 DEF IInv
<1>4. CASE FailRetry(j, n, max, kind) \/ FailBury(j, n, max, kind)
  <2>1. /\ exec[j][n] = "running" /\ status[j] \in Active
        /\ exec' = [exec EXCEPT ![j][n] = kind]
        /\ attempts' = [attempts EXCEPT ![j] = n]
        /\ claimedBy' = [claimedBy EXCEPT ![j] = None]
        /\ lease' = [lease EXCEPT ![j] = "none"]
        /\ \/ /\ n < max /\ status' = [status EXCEPT ![j] = "scheduled"]
              /\ UNCHANGED dlq
           \/ /\ status' = [status EXCEPT ![j] = "failed"]
              /\ dlq' = [dlq EXCEPT ![j][n] = "pending"]
    BY <1>4 DEF FailRetry, FailBury, Unown
  <2>2. /\ \A i \in Jobs : i # j => /\ status'[i] = status[i] /\ attempts'[i] = attempts[i]
                                    /\ lease'[i] = lease[i] /\ claimedBy'[i] = claimedBy[i]
                                    /\ dlq'[i] = dlq[i]
        /\ attempts'[j] = n /\ lease'[j] = "none" /\ claimedBy'[j] = None
        /\ \/ /\ n < max /\ status'[j] = "scheduled" /\ dlq'[j] = dlq[j]
           \/ /\ status'[j] = "failed" /\ dlq'[j][n] = "pending"
              /\ \A m \in Attempts : m # n => dlq'[j][m] = dlq[j][m]
    BY <2>1 DEF IInv, TypeOK
  <2>3. TypeOK'
    <3>1. status' \in [Jobs -> JobStatus]
      BY <2>1 DEF IInv, TypeOK, JobStatus, Pending, Terminal
    <3>2. dlq' \in [Jobs -> [Attempts -> DlqStatus]]
      <4>1. CASE dlq' = dlq
        BY <4>1 DEF IInv, TypeOK
      <4>2. CASE dlq' = [dlq EXCEPT ![j][n] = "pending"]
        BY <4>2 DEF IInv, TypeOK, DlqStatus
      <4> QED
        BY <2>1, <4>1, <4>2
    <3>3. /\ attempts' \in [Jobs -> 0..MaxAttemptsCap]
          /\ claimedBy' \in [Jobs -> Workers \cup {None}]
          /\ lease' \in [Jobs -> {"none", "live", "expired"}]
      BY <2>1, CapAssumption DEF IInv, TypeOK, Attempts
    <3> QED
      BY <1>2, <2>1, <3>1, <3>2, <3>3 DEF IInv, TypeOK, WorkTypeOK, PipesFade
  <2>4. \A i \in Jobs : RoomOf(i)'
    BY <2>2, CapAssumption DEF IInv, RoomOf, Terminal, Attempts
  <2>5. \A i \in Jobs : OwnershipOf(i)'
    BY <2>2 DEF IInv, OwnershipOf, Active
  <2>6. \A i \in Jobs : RunningOf(i)'
    BY <1>2, <2>1, <2>2 DEF IInv, RunningOf
  <2>7. \A i \in Jobs : NumberingOf(i)'
    <3> SUFFICES ASSUME NEW i \in Jobs PROVE NumberingOf(i)'
      OBVIOUS
    <3>1. attempts'[i] > 0 => exec'[i][attempts'[i]] \in Concluded
      <4>1. CASE i = j
        BY <1>2, <2>1, <2>2, <4>1
      <4>2. CASE i # j
        BY <1>2, <2>1, <2>2, <4>2, CapAssumption DEF IInv, TypeOK, NumberingOf, Attempts
      <4> QED
        BY <4>1, <4>2
    <3> QED
      BY <1>2, <2>1, <3>1 DEF NumberingOf
  <2>8. \A i \in Jobs : FailedOf(i)'
    <3> SUFFICES ASSUME NEW i \in Jobs PROVE FailedOf(i)'
      OBVIOUS
    <3>1. FailedOf(i) /\ FailedOf(j)
      BY DEF IInv
    <3>2. \A p \in Pipes : pipe'[p].phase = "launched" /\ pipe'[p].job = i
                              => /\ pipe[p].phase = "launched" /\ pipe[p].job = i
                                 /\ Attempt(p)' = Attempt(p) /\ Attempt(p) \in Attempts
                                 /\ pipe[p].base > 0 => exec[i][pipe[p].base] \in Concluded
      BY <1>2, <2>1, PipeFields, CapAssumption DEF IInv, PipeOf, Attempt, Attempts
    <3>3. CASE i # j
      BY <1>2, <2>1, <2>2, <3>1, <3>2, <3>3 DEF FailedOf, RunningExecs
    <3>4. CASE i = j /\ status'[j] # "failed"
      BY <2>1, <2>2, <3>1, <3>4 DEF FailedOf, Active
    <3>5. CASE i = j /\ status'[j] = "failed"
      <4>1. \A m \in Attempts : dlq[j][m] # "pending"
        BY <2>1, <3>1 DEF FailedOf, Active
      <4>2. \A m \in Attempts : dlq'[j][m] = "pending" => m = n
        BY <2>2, <3>5, <4>1
      <4>3. dlq'[j][n] = "pending"
        BY <2>2, <3>5
      <4>4. \A p \in Pipes : pipe'[p].phase = "launched" /\ pipe'[p].job = j
                                => exec'[j][Attempt(p)'] # "none"
        <5> SUFFICES ASSUME NEW p \in Pipes, pipe'[p].phase = "launched", pipe'[p].job = j
                     PROVE  exec'[j][Attempt(p)'] # "none"
          OBVIOUS
        <5>1. /\ Attempt(p)' = pipe[p].base + 1 /\ Attempt(p)' \in Attempts
              /\ pipe[p].base > 0 => exec[j][pipe[p].base] \in Concluded
              /\ pipe[p].base \in 0..MaxAttemptsCap
          BY <3>2, <3>5, PipeFields DEF IInv, Attempt
        <5>2. pipe[p].base < n
          <6> SUFFICES ASSUME pipe[p].base >= n PROVE FALSE
            BY <5>1, CapAssumption DEF Attempts
          <6>1. pipe[p].base \in Attempts /\ exec[j][pipe[p].base] \in Concluded
            BY <5>1, CapAssumption DEF Attempts
          <6>2. exec[j][pipe[p].base] \in {"running", "none"}
            BY <1>2, <2>1, <6>1, CapAssumption DEF Attempts
          <6> QED
            BY <6>1, <6>2 DEF Concluded, Failures
        <5> QED
          BY <1>2, <2>1, <5>1, <5>2, CapAssumption DEF Attempts
      <4> QED
        BY <1>2, <2>1, <2>2, <3>5, <4>2, <4>3, <4>4 DEF FailedOf, RunningExecs
    <3> QED
      BY <3>3, <3>4, <3>5
  <2> QED
    BY <1>2, <2>1, <2>3, <2>4, <2>5, <2>6, <2>7, <2>8 DEF IInv
<1> QED
  BY <1>1, <1>3, <1>4 DEF FailJob

\* A step on the row of one job, which opens and concludes no execution.  What
\* is left to show of the step is the type of the row and what it does to j.
RowTypeOK ==
    /\ status' \in [Jobs -> JobStatus]
    /\ maxAttempts' \in [Jobs -> 0..MaxAttemptsCap]
    /\ claimedBy' \in [Jobs -> Workers \cup {None}]
    /\ lease' \in [Jobs -> {"none", "live", "expired"}]
    /\ dlq' \in [Jobs -> [Attempts -> DlqStatus]]

SameRow(i) ==
    /\ status'[i] = status[i] /\ claimedBy'[i] = claimedBy[i]
    /\ lease'[i] = lease[i] /\ dlq'[i] = dlq[i]

\* An action that changes one job's row, keeps its execution rows closed or
\* open as they were, and leaves the row well-formed preserves the invariant.
LEMMA RowStep ==
  ASSUME IInv, NEW j \in Jobs,
         UNCHANGED <<attempts, exec, result, workVars>>, faults' \in 0..MaxFaults,
         RowTypeOK, pipe' \in [Pipes -> PipeRecord],
         \A i \in Jobs : i # j => SameRow(i),
         \A p \in Pipes : pipe'[p] = pipe[p] \/ (pipe'[p].job = j /\ PipeOf(p)'),
         RoomOf(j)', OwnershipOf(j)', FailedOf(j)',
         status'[j] = "running" => status[j] = "running"
  PROVE  IInv'
<1>1. TypeOK'
  BY DEF IInv, TypeOK, RowTypeOK, workVars
<1>2. \A p \in Pipes : PipeOf(p)'
  BY DEF IInv, PipeOf, Attempt
<1>3. \A i \in Jobs : RoomOf(i)' /\ NumberingOf(i)' /\ RunningOf(i)' /\ OwnershipOf(i)'
  BY DEF IInv, RoomOf, NumberingOf, RunningOf, OwnershipOf, SameRow
<1>4. \A i \in Jobs : FailedOf(i)'
  <2> SUFFICES ASSUME NEW i \in Jobs, i # j PROVE FailedOf(i)'
    OBVIOUS
  <2>1. FailedOf(i) /\ SameRow(i)
    BY DEF IInv
  <2>2. \A p \in Pipes : pipe'[p].job = i => pipe'[p] = pipe[p]
    OBVIOUS
  <2> QED
    BY <2>1, <2>2 DEF FailedOf, SameRow, RunningExecs, Attempt
<1> QED
  BY <1>1, <1>2, <1>3, <1>4 DEF IInv

\* A job that is not failed owes nothing to the dead letter queue but to have
\* no letter pending.
LEMMA NotFailed ==
  ASSUME NEW j \in Jobs, status'[j] # "failed", \A n \in Attempts : dlq'[j][n] # "pending"
  PROVE  FailedOf(j)'
  BY DEF FailedOf

\* A job that is not failed has no pending letter.
LEMMA NoLetter ==
  ASSUME IInv, NEW j \in Jobs, status[j] # "failed"
  PROVE  \A n \in Attempts : dlq[j][n] # "pending"
  BY DEF IInv, FailedOf

\* INSERT INTO jobs preserves the invariant.
LEMMA CreateStep ==
  ASSUME IInv, NEW j \in Jobs, NEW max \in InitialMax, NEW s \in Pending, Create(j, max, s)
  PROVE  IInv'
<1>1. /\ RowTypeOK /\ status'[j] = s /\ \A i \in Jobs : i # j => SameRow(i)
      /\ faults' \in 0..MaxFaults /\ pipe' \in [Pipes -> PipeRecord]
  BY MaxAssumption DEF Create, IInv, TypeOK, RowTypeOK, SameRow, JobStatus
<1>2. RoomOf(j)' /\ OwnershipOf(j)' /\ status'[j] \notin {"running", "failed"}
  BY <1>1 DEF Create, IInv, RoomOf, OwnershipOf, Terminal, Pending, Active
<1>3. FailedOf(j)'
  BY <1>2, NotFailed, NoLetter DEF Create
<1> QED
  BY <1>1, <1>2, <1>3, RowStep DEF Create

\* Cancelling a pending job preserves the invariant.
LEMMA CancelStep ==
  ASSUME IInv, NEW j \in Jobs, Cancel(j)
  PROVE  IInv'
<1>1. /\ RowTypeOK /\ status'[j] = "cancelled" /\ \A i \in Jobs : i # j => SameRow(i)
      /\ faults' \in 0..MaxFaults /\ pipe' \in [Pipes -> PipeRecord]
  BY DEF Cancel, IInv, TypeOK, RowTypeOK, SameRow, JobStatus, Terminal
<1>2. RoomOf(j)' /\ OwnershipOf(j)'
  BY <1>1 DEF Cancel, IInv, RoomOf, OwnershipOf, Terminal, Pending, Active
<1>3. FailedOf(j)'
  BY <1>1, NotFailed, NoLetter DEF Cancel, Pending
<1> QED
  BY <1>1, <1>2, <1>3, RowStep DEF Cancel

\* A manual retry preserves the invariant: it resolves the pending letters.
LEMMA RetryNowStep ==
  ASSUME IInv, NEW j \in Jobs, NEW extra \in ExtraAttempts, RetryNow(j, extra)
  PROVE  IInv'
<1>1. attempts[j] \in Nat /\ extra \in Nat \ {0} /\ attempts[j] + extra \in 0..MaxAttemptsCap
  BY ExtraAssumption, CapAssumption DEF RetryNow, IInv, TypeOK
<1>2. dlq' \in [Jobs -> [Attempts -> DlqStatus]] /\ \A n \in Attempts : dlq'[j][n] # "pending"
  BY DEF RetryNow, IInv, TypeOK, DlqStatus
<1>3. /\ RowTypeOK /\ status'[j] = "queued" /\ lease'[j] = "none" /\ claimedBy'[j] = None
      /\ \A i \in Jobs : i # j => SameRow(i)
      /\ faults' \in 0..MaxFaults /\ pipe' \in [Pipes -> PipeRecord]
  BY <1>1, <1>2
  DEF RetryNow, Unown, IInv, TypeOK, RowTypeOK, SameRow, JobStatus, Pending
<1>4. RoomOf(j)' /\ OwnershipOf(j)'
  BY <1>1, <1>3, CapAssumption DEF RetryNow, RoomOf, OwnershipOf, Active
<1>5. FailedOf(j)'
  BY <1>2, <1>3, NotFailed
<1> QED
  BY <1>3, <1>4, <1>5, RowStep DEF RetryNow

\* Discarding a letter preserves the invariant.
LEMMA DiscardStep ==
  ASSUME IInv, NEW j \in Jobs, NEW n \in Attempts, Discard(j, n)
  PROVE  IInv'
<1>1. /\ RowTypeOK /\ \A i \in Jobs : i # j => SameRow(i)
      /\ faults' \in 0..MaxFaults /\ pipe' \in [Pipes -> PipeRecord]
  BY DEF Discard, IInv, TypeOK, RowTypeOK, SameRow, DlqStatus
<1>2. RoomOf(j)' /\ OwnershipOf(j)'
  BY DEF Discard, IInv, RoomOf, OwnershipOf
<1>3. FailedOf(j)'
  <2>1. FailedOf(j) /\ dlq[j][n] = "pending"
    BY DEF IInv, Discard
  <2>2. \A m \in Attempts : dlq'[j][m] = IF m = n THEN "discarded" ELSE dlq[j][m]
    BY DEF Discard, IInv, TypeOK
  <2> QED
    BY <2>1, <2>2 DEF Discard, FailedOf, RunningExecs, Attempt
<1> QED
  BY <1>1, <1>2, <1>3, RowStep DEF Discard

\* The passing of a lease preserves the invariant: an expired lease is a lease.
LEMMA LeaseExpiresStep ==
  ASSUME IInv, NEW j \in Jobs, LeaseExpires(j)
  PROVE  IInv'
<1>1. /\ RowTypeOK /\ lease'[j] = "expired" /\ \A i \in Jobs : i # j => SameRow(i)
      /\ faults' \in 0..MaxFaults /\ pipe' \in [Pipes -> PipeRecord]
  BY DEF LeaseExpires, IInv, TypeOK, RowTypeOK, SameRow
<1>2. RoomOf(j)' /\ OwnershipOf(j)'
  BY <1>1 DEF LeaseExpires, IInv, RoomOf, OwnershipOf
<1>3. FailedOf(j)'
  BY DEF LeaseExpires, IInv, FailedOf, RunningExecs, Attempt
<1> QED
  BY <1>1, <1>2, <1>3, RowStep DEF LeaseExpires

\* Promoting a due job preserves the invariant.
LEMMA PromoteDueStep ==
  ASSUME IInv, NEW j \in Jobs, PromoteDue(j)
  PROVE  IInv'
<1>1. /\ RowTypeOK /\ status'[j] = "queued" /\ \A i \in Jobs : i # j => SameRow(i)
      /\ faults' \in 0..MaxFaults /\ pipe' \in [Pipes -> PipeRecord]
  BY DEF PromoteDue, IInv, TypeOK, RowTypeOK, SameRow, JobStatus, Pending
<1>2. RoomOf(j)' /\ OwnershipOf(j)'
  BY <1>1 DEF PromoteDue, IInv, RoomOf, OwnershipOf, Terminal, Active
<1>3. FailedOf(j)'
  BY <1>1, NotFailed, NoLetter DEF PromoteDue
<1> QED
  BY <1>1, <1>2, <1>3, RowStep DEF PromoteDue

\* Requeueing a claim that never started preserves the invariant: the job had
\* no running execution, so it was not running.
LEMMA ReapUnstartedStep ==
  ASSUME IInv, NEW j \in Jobs, ReapUnstarted(j)
  PROVE  IInv'
<1>1. /\ RowTypeOK /\ status'[j] = "queued" /\ lease'[j] = "none" /\ claimedBy'[j] = None
      /\ \A i \in Jobs : i # j => SameRow(i)
      /\ faults' \in 0..MaxFaults /\ pipe' \in [Pipes -> PipeRecord]
  BY DEF ReapUnstarted, Unown, IInv, TypeOK, RowTypeOK, SameRow, JobStatus, Pending
<1>2. RoomOf(j)' /\ OwnershipOf(j)'
  BY <1>1 DEF ReapUnstarted, Reapable, IInv, RoomOf, OwnershipOf, Terminal, Active
<1>3. FailedOf(j)'
  BY <1>1, NotFailed, NoLetter DEF ReapUnstarted, Reapable, Active
<1> QED
  BY <1>1, <1>2, <1>3, RowStep DEF ReapUnstarted

\* What both outcomes of a claim do to the job.
LEMMA ClaimRowStep ==
  ASSUME IInv, NEW j \in Jobs, NEW w \in Workers, ClaimRow(w, j)
  PROVE  /\ RowTypeOK /\ status'[j] = "claimed" /\ \A i \in Jobs : i # j => SameRow(i)
         /\ RoomOf(j)' /\ OwnershipOf(j)' /\ FailedOf(j)'
<1>1. /\ RowTypeOK /\ status'[j] = "claimed" /\ lease'[j] = "live" /\ claimedBy'[j] = w
      /\ \A i \in Jobs : i # j => SameRow(i)
  BY DEF ClaimRow, IInv, TypeOK, RowTypeOK, SameRow, JobStatus, Active
<1>2. RoomOf(j)' /\ OwnershipOf(j)'
  BY <1>1, NoneAssumption DEF ClaimRow, IInv, RoomOf, OwnershipOf, Terminal, Active
<1>3. FailedOf(j)'
  BY <1>1, NotFailed, NoLetter DEF ClaimRow
<1> QED
  BY <1>1, <1>2, <1>3

\* A claim preserves the invariant: the pipeline it launches may open only the
\* attempt after the last concluded one.
LEMMA ClaimStep ==
  ASSUME IInv, NEW j \in Jobs, NEW w \in Workers, NEW p \in Pipes, Claim(w, j, p)
  PROVE  IInv'
<1>1. /\ RowTypeOK /\ status'[j] = "claimed" /\ \A i \in Jobs : i # j => SameRow(i)
      /\ RoomOf(j)' /\ OwnershipOf(j)' /\ FailedOf(j)'
      /\ UNCHANGED <<attempts, exec, result, workVars, faults>>
  BY ClaimRowStep DEF Claim, ClaimRow
<1> DEFINE r == [phase |-> "launched", worker |-> w, job |-> j,
                 base |-> attempts[j], max |-> maxAttempts[j]]
<1>2. r \in PipeRecord /\ pipe' = [pipe EXCEPT ![p] = r]
  BY DEF Claim, IInv, TypeOK, PipeRecord
<1>3. pipe' \in [Pipes -> PipeRecord] /\ \A q \in Pipes : q # p => pipe'[q] = pipe[q]
  BY <1>2 DEF IInv, TypeOK
<1>4. pipe'[p] = r
  BY <1>2 DEF IInv, TypeOK
<1>5. PipeOf(p)'
  <2>1. RoomOf(j) /\ NumberingOf(j) /\ status[j] = "queued"
    BY DEF IInv, Claim, ClaimRow
  <2> QED
    BY <1>1, <1>4, <2>1 DEF PipeOf, RoomOf, NumberingOf, Terminal
<1>6. faults' \in 0..MaxFaults /\ pipe'[p].job = j
  BY <1>1, <1>4 DEF IInv, TypeOK
<1>7. \A q \in Pipes : pipe'[q] = pipe[q] \/ (pipe'[q].job = j /\ PipeOf(q)')
  BY <1>3, <1>5, <1>6
<1> HIDE DEF r
<1> QED
  BY <1>1, <1>3, <1>6, <1>7, RowStep

\* A claim whose answer is lost preserves the invariant.
LEMMA ClaimLostStep ==
  ASSUME IInv, NEW j \in Jobs, NEW w \in Workers, ClaimLost(w, j)
  PROVE  IInv'
<1>1. /\ RowTypeOK /\ status'[j] = "claimed" /\ \A i \in Jobs : i # j => SameRow(i)
      /\ RoomOf(j)' /\ OwnershipOf(j)' /\ FailedOf(j)'
      /\ UNCHANGED <<attempts, exec, result, workVars, pipe>>
  BY ClaimRowStep DEF ClaimLost, ClaimRow
<1>2. faults' \in 0..MaxFaults /\ pipe' \in [Pipes -> PipeRecord]
  BY FaultsAssumption DEF ClaimLost, Fault, IInv, TypeOK
<1> QED
  BY <1>1, <1>2, RowStep

-----------------------------------------------------------------------------
\* The steps of a pipeline.

\* A fault is counted and the worker processes are left alone.
LEMMA FaultStep == IInv /\ Fault /\ UNCHANGED workVars => WorkTypeOK'
  BY FaultsAssumption DEF IInv, TypeOK, Fault, WorkTypeOK, workVars

\* A step that leaves the workers and the fault count alone keeps their types.
LEMMA CalmStep == IInv /\ UNCHANGED <<workVars, faults>> => WorkTypeOK'
  BY DEF IInv, TypeOK, WorkTypeOK, workVars

\* Ending a pipeline, and passing from the handler to the report of a failure,
\* are fades.
LEMMA ReleaseFades ==
  ASSUME IInv, NEW p \in Pipes, Release(p)
  PROVE  PipesFade
  BY IdleRecord DEF Release, PipesFade, Fades, IInv, TypeOK

\* A pipeline that moves on to report a failure opens nothing.
LEMMA FailingFades ==
  ASSUME IInv, NEW p \in Pipes, pipe[p].phase = "handling",
         pipe' = [pipe EXCEPT ![p].phase = "failing"]
  PROVE  PipesFade
<1>1. [pipe[p] EXCEPT !.phase = "failing"] \in PipeRecord
  BY PipeFields, RecordPhase DEF IInv
<1> QED
  BY <1>1 DEF PipesFade, Fades, IInv, TypeOK

\* A pipeline that has started knows its job and its attempt.
LEMMA Started ==
  ASSUME IInv, NEW p \in Pipes, pipe[p].phase \in {"handling", "failing"}
  PROVE  /\ pipe[p].job \in Jobs /\ Attempt(p) \in Attempts
         /\ exec[pipe[p].job][Attempt(p)] # "none" /\ pipe[p].max \in 0..MaxAttemptsCap
<1>1. PipeOf(p) /\ pipe[p].base \in 0..MaxAttemptsCap /\ pipe[p].max \in 0..MaxAttemptsCap
  BY PipeFields DEF IInv
<1> QED
  BY <1>1, CapAssumption DEF PipeOf, Attempt, Attempts

\* Every step of a pipeline preserves the invariant.
LEMMA PipeStepIInv ==
  ASSUME IInv, NEW p \in Pipes, PipeStep(p)
  PROVE  IInv'
<1>1. CASE StartExecution(p)
  <2>1. InsertExecution(p) /\ UNCHANGED <<workVars, faults>>
    BY <1>1 DEF StartExecution, InsertExecution
  <2> QED
    BY <1>1, <2>1, CalmStep, InsertStep DEF StartExecution
<1>2. CASE StartConflict(p)
  BY <1>2, CalmStep, ReleaseFades, QuietStep DEF StartConflict
<1>3. CASE StartError(p)
  <2>1. Fault /\ Release(p) /\ UNCHANGED workVars
    BY <1>3 DEF StartError, InsertExecution
  <2>2. CASE InsertExecution(p)
    BY <2>1, <2>2, FaultStep, InsertStep DEF Release
  <2>3. CASE UNCHANGED <<jobVars, maxAttempts, result, workVars>>
    BY <2>1, <2>3, FaultStep, ReleaseFades, QuietStep
  <2> QED
    BY <1>3, <2>2, <2>3 DEF StartError
<1>4. CASE CompleteExecution(p)
  <2>1. pipe[p].phase = "handling" /\ Complete(pipe[p].job, Attempt(p))
        /\ faults' \in 0..MaxFaults
    BY <1>4 DEF CompleteExecution, Busy, IInv, TypeOK
  <2>2. PipesFade
    BY <1>4, ReleaseFades DEF CompleteExecution
  <2> QED
    BY <2>1, <2>2, Started, CompleteStep
<1>5. CASE CompleteError(p)
  <2>1. pipe[p].phase = "handling" /\ Fault /\ PipesFade
    BY <1>5, FailingFades DEF CompleteError, Busy
  <2>2. CASE Complete(pipe[p].job, Attempt(p))
    <3>1. faults' \in 0..MaxFaults
      BY <2>1, FaultsAssumption DEF Fault, IInv, TypeOK
    <3> QED
      BY <2>1, <2>2, <3>1, Started, CompleteStep
  <2>3. CASE UNCHANGED <<jobVars, maxAttempts, result, workVars>>
    BY <2>1, <2>3, FaultStep, QuietStep
  <2> QED
    BY <1>5, <2>2, <2>3 DEF CompleteError
<1>6. CASE FailExecution(p)
  <2>1. /\ pipe[p].phase \in {"handling", "failing"}
        /\ FailJob(pipe[p].job, Attempt(p), pipe[p].max, "failed")
        /\ Release(p) /\ UNCHANGED <<maxAttempts, result, workVars, faults>>
    BY <1>6 DEF FailExecution
  <2>2. WorkTypeOK' /\ PipesFade /\ "failed" \in Failures
    BY <2>1, CalmStep, ReleaseFades DEF Failures
  <2>3. /\ pipe[p].job \in Jobs /\ Attempt(p) \in Attempts
        /\ pipe[p].max \in 0..MaxAttemptsCap
    BY <2>1, Started
  <2> QED
    BY <2>1, <2>2, <2>3, FailStep
<1>7. CASE FailError(p)
  BY <1>7, FaultStep, ReleaseFades, QuietStep DEF FailError
<1> QED
  BY <1>1, <1>2, <1>3, <1>4, <1>5, <1>6, <1>7 DEF PipeStep

-----------------------------------------------------------------------------
\* The steps of time, of the processes and of the failure detector.

\* The pipelines of a process that ends are gone.
LEMMA DropFades ==
  ASSUME IInv, NEW w \in Workers, DropPipes(w)
  PROVE  PipesFade
  BY IdleRecord DEF DropPipes, PipesFade, Fades, IInv, TypeOK

\* A step that leaves the pipelines alone opens nothing.
LEMMA SamePipesFade == IInv /\ UNCHANGED pipe => PipesFade
  BY DEF PipesFade, Fades, IInv, TypeOK

\* Every step of a worker process preserves the invariant.
LEMMA WorkerStepIInv ==
  ASSUME IInv, NEW w \in Workers, WorkerStep(w)
  PROVE  IInv'
<1>1. UNCHANGED <<jobVars, maxAttempts, result>>
  BY DEF WorkerStep, GoSilent, Heartbeat, Crash, StopBegin, StopEnd
<1>2. WorkTypeOK'
  <2>1. TypeOK
    BY DEF IInv
  <2>2. CASE GoSilent(w) \/ Heartbeat(w)
    BY <2>1, <2>2 DEF GoSilent, Heartbeat, TypeOK, WorkTypeOK
  <2>3. CASE Crash(w)
    BY <2>1, <2>3, FaultsAssumption DEF Crash, Fault, TypeOK, WorkTypeOK
  <2>4. CASE StopBegin(w)
    <3>1. wstat' \in [Workers -> {"online", "offline", "dead"}]
      BY <2>1, <2>4 DEF StopBegin, TypeOK
    <3>2. /\ proc' \in [Workers -> {"up", "draining", "gone"}]
          /\ silent' \in SUBSET Workers /\ faults' \in 0..MaxFaults
      BY <2>1, <2>4, FaultsAssumption DEF StopBegin, Fault, TypeOK
    <3> QED
      BY <3>1, <3>2 DEF WorkTypeOK
  <2>5. CASE StopEnd(w)
    BY <2>1, <2>5 DEF StopEnd, TypeOK, WorkTypeOK
  <2> QED
    BY <2>2, <2>3, <2>4, <2>5 DEF WorkerStep
<1>3. PipesFade
  BY SamePipesFade, DropFades DEF WorkerStep, GoSilent, Heartbeat, Crash, StopBegin, StopEnd
<1> QED
  BY <1>1, <1>2, <1>3, QuietStep

\* Declaring workers dead preserves the invariant.
LEMMA DeclareDeadIInv == IInv /\ DeclareDead => IInv'
<1> SUFFICES ASSUME IInv, DeclareDead PROVE IInv'
  OBVIOUS
<1>1. WorkTypeOK'
  BY DEF DeclareDead, IInv, TypeOK, WorkTypeOK
<1> QED
  BY <1>1, SamePipesFade, QuietStep DEF DeclareDead

\* Reaping a running execution preserves the invariant.
LEMMA ReapLostStep ==
  ASSUME IInv, NEW j \in Jobs, ReapLost(j)
  PROVE  IInv'
<1>1. PICK n \in Attempts : FailJob(j, n, maxAttempts[j], "lost")
  BY DEF ReapLost, RunningExecs
<1>2. maxAttempts[j] \in 0..MaxAttemptsCap /\ "lost" \in Failures
  BY DEF IInv, TypeOK, Failures
<1>3. WorkTypeOK' /\ PipesFade /\ UNCHANGED <<maxAttempts, result>>
  BY CalmStep, SamePipesFade DEF ReapLost
<1> QED
  BY <1>1, <1>2, <1>3, FailStep

\* Every step on a job's row preserves the invariant.
LEMMA JobStepIInv ==
  ASSUME IInv, NEW j \in Jobs, JobStep(j)
  PROVE  IInv'
  BY CreateStep, CancelStep, RetryNowStep, DiscardStep, ClaimStep, ClaimLostStep,
     LeaseExpiresStep, PromoteDueStep, ReapLostStep, ReapUnstartedStep
  DEF JobStep

\* Every step of the specification preserves the inductive invariant.
LEMMA NextIInv == IInv /\ [Next]_vars => IInv'
<1> SUFFICES ASSUME IInv, [Next]_vars PROVE IInv'
  OBVIOUS
<1>1. CASE UNCHANGED vars
  BY <1>1, CalmStep, SamePipesFade, QuietStep DEF vars
<1>2. CASE Next
  BY <1>2, JobStepIInv, PipeStepIInv, WorkerStepIInv, DeclareDeadIInv DEF Next
<1> QED
  BY <1>1, <1>2

-----------------------------------------------------------------------------
\* The theorems.

\* IInv is an invariant of the lifecycle.
THEOREM Invariance == Spec => []IInv
  BY InitIInv, NextIInv, PTL DEF Spec

\* Types: no statement of the code ever writes a row outside its schema.
THEOREM TypeCorrect == Spec => []TypeOK
<1>1. IInv => TypeOK
  BY DEF IInv
<1> QED
  BY <1>1, Invariance, PTL

\* Executions of a job are numbered without a gap and concluded in order.
THEOREM NumberingCorrect == Spec => []AttemptNumbering
<1>1. IInv => AttemptNumbering
  BY DEF IInv, AttemptNumbering
<1> QED
  BY <1>1, Invariance, PTL

\* A running job has a running execution for the reaper to find.
THEOREM RunningCorrect == Spec => []RunningIsExecuted
<1>1. IInv => RunningIsExecuted
  BY DEF IInv, RunningIsExecuted, RunningOf, RunningExecs
<1> QED
  BY <1>1, Invariance, PTL

\* A job held by a worker names it and has a lease; other jobs have neither.
THEOREM OwnershipCorrect == Spec => []ActiveIsRecoverable
<1>1. IInv => ActiveIsRecoverable
  BY DEF IInv, ActiveIsRecoverable
<1> QED
  BY <1>1, Invariance, PTL

\* The dead letter queue mirrors the failed jobs, and a failed job rests.
THEOREM DeadLettersCorrect == Spec => []FailedIsQuiet
<1>1. IInv => FailedIsQuiet
  BY DEF IInv, FailedIsQuiet
<1> QED
  BY <1>1, Invariance, PTL

\* What a step may do to the executions: nothing, or one row that was absent or
\* running.
LEMMA ExecChange ==
  ASSUME IInv, Next
  PROVE  \/ exec' = exec
         \/ \E j \in Jobs, n \in Attempts, x \in ExecStatus :
               exec[j][n] \notin Concluded /\ exec' = [exec EXCEPT ![j][n] = x]
<1> DEFINE Change == \/ exec' = exec
                     \/ \E j \in Jobs, n \in Attempts, x \in ExecStatus :
                           exec[j][n] \notin Concluded /\ exec' = [exec EXCEPT ![j][n] = x]
<1>1. ASSUME NEW j \in Jobs, NEW n \in Attempts, NEW max, NEW kind \in Failures,
             FailJob(j, n, max, kind)
      PROVE  Change
  <2>1. "running" \notin Concluded /\ kind \in ExecStatus
    BY DEF Concluded, Failures, ExecStatus
  <2>2. exec' = exec \/ (exec[j][n] = "running" /\ exec' = [exec EXCEPT ![j][n] = kind])
    BY <1>1 DEF FailJob, FailStolen, FailOrphan, FailRetry, FailBury, jobVars
  <2> QED
    BY <2>1, <2>2
<1>2. ASSUME NEW j \in Jobs, NEW n \in Attempts, Complete(j, n) PROVE Change
  <2>1. "running" \notin Concluded /\ "succeeded" \in ExecStatus
    BY DEF Concluded, Failures, ExecStatus
  <2>2. CASE exec[j][n] = "running"
    <3>1. exec' = [exec EXCEPT ![j][n] = "succeeded"]
      BY <1>2, <2>2 DEF Complete, IInv, TypeOK
    <3> QED
      BY <2>1, <2>2, <3>1
  <2>3. CASE exec[j][n] # "running"
    BY <1>2, <2>3 DEF Complete, IInv, TypeOK
  <2> QED
    BY <2>2, <2>3
<1>3. ASSUME NEW p \in Pipes, InsertExecution(p) PROVE Change
  <2>1. pipe[p].job \in Jobs /\ Attempt(p) \in Attempts
    <3>1. PipeOf(p) /\ pipe[p].base \in 0..MaxAttemptsCap /\ pipe[p].phase = "launched"
      BY <1>3, PipeFields DEF IInv, InsertExecution, Busy
    <3> QED
      BY <3>1, CapAssumption DEF PipeOf, Attempt, Attempts
  <2>2. /\ exec[pipe[p].job][Attempt(p)] \notin Concluded
        /\ exec' = [exec EXCEPT ![pipe[p].job][Attempt(p)] = "running"]
        /\ "running" \in ExecStatus
    BY <1>3 DEF InsertExecution, Concluded, Failures, ExecStatus
  <2> QED
    BY <2>1, <2>2
<1>4. CASE \E p \in Pipes : PipeStep(p)
  <2>1. PICK p \in Pipes : PipeStep(p)
    BY <1>4
  <2>2. CASE StartExecution(p) \/ StartConflict(p) \/ StartError(p) \/ FailError(p)
    <3>1. exec' = exec \/ InsertExecution(p)
      BY <2>2 DEF StartExecution, StartConflict, StartError, FailError, jobVars
    <3> QED
      BY <1>3, <3>1
  <2>3. CASE CompleteExecution(p) \/ CompleteError(p)
    <3>1. exec' = exec \/ Complete(pipe[p].job, Attempt(p))
      BY <2>3 DEF CompleteExecution, CompleteError, jobVars
    <3>2. pipe[p].phase = "handling"
      BY <2>3 DEF CompleteExecution, CompleteError, Busy
    <3> QED
      BY <1>2, <3>1, <3>2, Started
  <2>4. CASE FailExecution(p)
    BY <1>1, <2>4, Started DEF FailExecution, Failures
  <2> QED
    BY <2>1, <2>2, <2>3, <2>4 DEF PipeStep
<1>5. CASE \E j \in Jobs : JobStep(j)
  <2>1. PICK j \in Jobs : JobStep(j)
    BY <1>5
  <2>2. CASE ReapLost(j)
    BY <1>1, <2>2 DEF ReapLost, RunningExecs, Failures
  <2>3. CASE ~ReapLost(j)
    BY <2>1, <2>3
    DEF JobStep, Create, Cancel, RetryNow, Discard, Claim, ClaimLost, ClaimRow,
        LeaseExpires, PromoteDue, ReapUnstarted
  <2> QED
    BY <2>2, <2>3
<1>6. CASE (\E w \in Workers : WorkerStep(w)) \/ DeclareDead
  BY <1>6
  DEF WorkerStep, GoSilent, Heartbeat, Crash, StopBegin, StopEnd, DeclareDead, jobVars
<1> QED
  BY <1>4, <1>5, <1>6 DEF Next

\* A concluded execution is never changed again.
THEOREM ImmutabilityCorrect == Spec => ExecutionsImmutable
<1>1. IInv /\ [Next]_vars =>
         [\A j \in Jobs, n \in Attempts :
             exec[j][n] \in Concluded => exec'[j][n] = exec[j][n]]_vars
  <2> SUFFICES ASSUME IInv, Next, NEW j \in Jobs, NEW n \in Attempts,
                      exec[j][n] \in Concluded
               PROVE  exec'[j][n] = exec[j][n]
    BY DEF vars
  <2>1. CASE exec' = exec
    BY <2>1
  <2>2. ASSUME NEW i \in Jobs, NEW m \in Attempts, NEW x \in ExecStatus,
               exec[i][m] \notin Concluded, exec' = [exec EXCEPT ![i][m] = x]
        PROVE  exec'[j][n] = exec[j][n]
    BY <2>2 DEF IInv, TypeOK
  <2> QED
    BY <2>1, <2>2, ExecChange
<1> QED
  BY <1>1, Invariance, PTL DEF Spec, ExecutionsImmutable

-----------------------------------------------------------------------------
\* JobLifecycle implements JobContract: every step of the tables, seen through the
\* refinement mapping, is a step of the contract or none.
\*
\* A step changes the row, the executions and the letters of one job at most, so its view
\* is four values of that job: PhaseOf, HolderOf, OpenOf and LetterOf.  Bars turns what a
\* step does to them into what it does to the mapped variables; the lemmas below it
\* compute them action by action.  IInv supplies what the guards of the code do not test:
\* that an INSERT finds no attempt open and no dead job, and that burying closes the only
\* open attempt and finds no letter pending.

HolderOf(j) == IF status[j] \in Active THEN claimedBy[j] ELSE None
OpenOf(j)   == RunningExecs(j) # {}
LetterOf(j) == \E n \in Attempts : dlq[j][n] = "pending"

\* The rest of the tables is left alone.
OthersKept(j) == \A i \in Jobs : i # j =>
    /\ status'[i] = status[i] /\ claimedBy'[i] = claimedBy[i]
    /\ exec'[i] = exec[i] /\ dlq'[i] = dlq[i]

ContractStep == [Contract!ContractNext]_(Contract!contractVars)

\* The mapped variables change at the job alone.
LEMMA Bars ==
  ASSUME NEW j \in Jobs, OthersKept(j)
  PROVE  /\ phaseBar' = [phaseBar EXCEPT ![j] = PhaseOf(j)']
         /\ ownerBar' = [ownerBar EXCEPT ![j] = HolderOf(j)']
         /\ openBar' = [openBar EXCEPT ![j] = OpenOf(j)']
         /\ letterBar' = [letterBar EXCEPT ![j] = LetterOf(j)']
         /\ phaseBar[j] = PhaseOf(j) /\ ownerBar[j] = HolderOf(j)
         /\ openBar[j] = OpenOf(j) /\ letterBar[j] = LetterOf(j)
<1>1. \A i \in Jobs : i # j => PhaseOf(i)' = PhaseOf(i)
  BY DEF OthersKept, PhaseOf
<1>2. \A i \in Jobs : i # j =>
         /\ HolderOf(i)' = HolderOf(i) /\ OpenOf(i)' = OpenOf(i) /\ LetterOf(i)' = LetterOf(i)
  BY DEF OthersKept, HolderOf, OpenOf, LetterOf, RunningExecs
<1>3. /\ phaseBar = [i \in Jobs |-> PhaseOf(i)] /\ ownerBar = [i \in Jobs |-> HolderOf(i)]
      /\ openBar = [i \in Jobs |-> OpenOf(i)] /\ letterBar = [i \in Jobs |-> LetterOf(i)]
      /\ phaseBar' = [i \in Jobs |-> PhaseOf(i)'] /\ ownerBar' = [i \in Jobs |-> HolderOf(i)']
      /\ openBar' = [i \in Jobs |-> OpenOf(i)'] /\ letterBar' = [i \in Jobs |-> LetterOf(i)']
  BY DEF phaseBar, ownerBar, openBar, letterBar, HolderOf, OpenOf, LetterOf
<1> HIDE DEF phaseBar, ownerBar, openBar, letterBar, PhaseOf, HolderOf, OpenOf, LetterOf
<1> QED
  BY <1>1, <1>2, <1>3

\* What each step of the contract asks of the four values of a job.
LEMMA Views ==
  ASSUME NEW j \in Jobs, OthersKept(j),
         \/ /\ PhaseOf(j) = "absent" /\ PhaseOf(j)' = "pending"
            /\ HolderOf(j)' = HolderOf(j) /\ OpenOf(j)' = OpenOf(j) /\ LetterOf(j)' = LetterOf(j)
         \/ /\ PhaseOf(j) = "pending" /\ PhaseOf(j)' = "active"
            /\ HolderOf(j)' \in Workers /\ OpenOf(j)' = OpenOf(j) /\ LetterOf(j)' = LetterOf(j)
         \/ /\ PhaseOf(j) = "active" /\ PhaseOf(j)' = "pending"
            /\ HolderOf(j)' = None /\ ~OpenOf(j)' /\ LetterOf(j)' = LetterOf(j)
         \/ /\ PhaseOf(j) = "active" /\ PhaseOf(j)' = "succeeded"
            /\ HolderOf(j)' = None /\ LetterOf(j)' = LetterOf(j)
            /\ (OpenOf(j)' = OpenOf(j) \/ ~OpenOf(j)')
         \/ /\ PhaseOf(j) = "active" /\ PhaseOf(j)' = "dead" /\ HolderOf(j)' = None
            /\ OpenOf(j) /\ ~OpenOf(j)' /\ ~LetterOf(j) /\ LetterOf(j)'
         \/ /\ PhaseOf(j) # "dead" /\ PhaseOf(j)' = PhaseOf(j) /\ HolderOf(j)' = HolderOf(j)
            /\ ~OpenOf(j) /\ OpenOf(j)' /\ LetterOf(j)' = LetterOf(j)
         \/ /\ PhaseOf(j)' = PhaseOf(j) /\ HolderOf(j)' = HolderOf(j)
            /\ OpenOf(j) /\ ~OpenOf(j)' /\ LetterOf(j)' = LetterOf(j)
         \/ /\ PhaseOf(j) = "pending" /\ PhaseOf(j)' = "cancelled"
            /\ HolderOf(j)' = HolderOf(j) /\ OpenOf(j)' = OpenOf(j) /\ LetterOf(j)' = LetterOf(j)
         \/ /\ PhaseOf(j) \in {"succeeded", "dead", "cancelled"} /\ PhaseOf(j)' = "pending"
            /\ HolderOf(j)' = HolderOf(j) /\ OpenOf(j)' = OpenOf(j) /\ ~LetterOf(j)'
         \/ /\ PhaseOf(j) = "dead" /\ PhaseOf(j)' = PhaseOf(j) /\ HolderOf(j)' = HolderOf(j)
            /\ OpenOf(j)' = OpenOf(j) /\ LetterOf(j) /\ ~LetterOf(j)'
         \/ /\ PhaseOf(j)' = PhaseOf(j) /\ HolderOf(j)' = HolderOf(j)
            /\ OpenOf(j)' = OpenOf(j) /\ LetterOf(j)' = LetterOf(j)
  PROVE  ContractStep
<1>1. /\ phaseBar' = [phaseBar EXCEPT ![j] = PhaseOf(j)']
      /\ ownerBar' = [ownerBar EXCEPT ![j] = HolderOf(j)']
      /\ openBar' = [openBar EXCEPT ![j] = OpenOf(j)']
      /\ letterBar' = [letterBar EXCEPT ![j] = LetterOf(j)']
      /\ phaseBar[j] = PhaseOf(j) /\ ownerBar[j] = HolderOf(j)
      /\ openBar[j] = OpenOf(j) /\ letterBar[j] = LetterOf(j)
  BY Bars
<1>2. /\ phaseBar = [phaseBar EXCEPT ![j] = PhaseOf(j)]
      /\ ownerBar = [ownerBar EXCEPT ![j] = HolderOf(j)]
      /\ openBar = [openBar EXCEPT ![j] = OpenOf(j)]
      /\ letterBar = [letterBar EXCEPT ![j] = LetterOf(j)]
  BY DEF phaseBar, ownerBar, openBar, letterBar, HolderOf, OpenOf, LetterOf
<1>3. /\ OpenOf(j) \in BOOLEAN /\ OpenOf(j)' \in BOOLEAN
      /\ LetterOf(j) \in BOOLEAN /\ LetterOf(j)' \in BOOLEAN
  BY DEF OpenOf, LetterOf
<1> HIDE DEF phaseBar, ownerBar, openBar, letterBar, PhaseOf, HolderOf, OpenOf, LetterOf
<1>4. \/ Contract!Submit(j) \/ (\E w \in Workers : Contract!Take(j, w)) \/ Contract!GiveBack(j)
      \/ Contract!Succeed(j) \/ Contract!Bury(j) \/ Contract!Open(j) \/ Contract!Close(j)
      \/ Contract!CancelJob(j) \/ Contract!Redrive(j) \/ Contract!DiscardLetter(j)
      \/ UNCHANGED Contract!contractVars
  BY <1>1, <1>2, <1>3
  DEF Contract!Submit, Contract!Take, Contract!GiveBack, Contract!Succeed, Contract!Bury,
      Contract!Open, Contract!Close, Contract!CancelJob, Contract!Redrive,
      Contract!DiscardLetter, Contract!Move, Contract!contractVars
<1> QED
  BY <1>4 DEF ContractStep, Contract!ContractNext

\* A step that leaves the rows alone is no step of the contract.
LEMMA Unseen ==
  ASSUME UNCHANGED jobVars
  PROVE  ContractStep
<1>1. UNCHANGED <<phaseBar, ownerBar, openBar, letterBar>>
  BY DEF jobVars, phaseBar, ownerBar, openBar, letterBar, PhaseOf, RunningExecs
<1> QED
  BY <1>1 DEF ContractStep, Contract!contractVars

\* At most one attempt is open: there is none below or above it.
LEMMA OneOpen ==
  ASSUME IInv, NEW j \in Jobs, NEW n \in Attempts, exec[j][n] = "running"
  PROVE  RunningExecs(j) = {n}
<1>1. NumberingOf(j)
  BY DEF IInv
<1>2. \A m \in Attempts : m # n => exec[j][m] # "running"
  BY <1>1, CapAssumption DEF NumberingOf, Attempts, Concluded, Failures
<1> QED
  BY <1>2 DEF RunningExecs

\* Concluding the open attempt leaves none open.
LEMMA Closes ==
  ASSUME IInv, NEW j \in Jobs, NEW n \in Attempts, NEW k \in Concluded,
         exec[j][n] = "running", exec' = [exec EXCEPT ![j][n] = k]
  PROVE  OpenOf(j) /\ ~OpenOf(j)' /\ \A i \in Jobs : i # j => exec'[i] = exec[i]
<1>1. RunningExecs(j) = {n}
  BY OneOpen
<1>2. k # "running" /\ \A m \in Attempts : exec'[j][m] = IF m = n THEN k ELSE exec[j][m]
  BY DEF IInv, TypeOK, Concluded, Failures
<1>3. RunningExecs(j)' = {}
  BY <1>1, <1>2 DEF RunningExecs
<1> QED
  BY <1>1, <1>3 DEF OpenOf, IInv, TypeOK

-----------------------------------------------------------------------------
\* The steps on the row of a job.

\* failExecution gives the job back, buries it, or closes an orphan.
LEMMA FailView ==
  ASSUME IInv, NEW j \in Jobs, NEW n \in Attempts, NEW max, NEW kind \in Failures,
         FailJob(j, n, max, kind)
  PROVE  ContractStep
<1>1. kind \in Concluded
  BY DEF Concluded
<1>2. CASE FailStolen(j, n)
  BY <1>2, Unseen DEF FailStolen
<1>3. CASE FailOrphan(j, n, kind)
  <2>1. OpenOf(j) /\ ~OpenOf(j)' /\ OthersKept(j)
    BY <1>1, <1>3, Closes DEF FailOrphan, OthersKept
  <2>2. PhaseOf(j)' = PhaseOf(j) /\ HolderOf(j)' = HolderOf(j) /\ LetterOf(j)' = LetterOf(j)
    BY <1>3 DEF FailOrphan, PhaseOf, HolderOf, LetterOf
  <2> QED
    BY <2>1, <2>2, Views
<1>4. CASE FailRetry(j, n, max, kind)
  <2>1. OpenOf(j) /\ ~OpenOf(j)' /\ OthersKept(j)
    BY <1>1, <1>4, Closes DEF FailRetry, Unown, OthersKept, IInv, TypeOK
  <2>2. /\ PhaseOf(j) = "active" /\ PhaseOf(j)' = "pending" /\ HolderOf(j)' = None
        /\ LetterOf(j)' = LetterOf(j)
    BY <1>4 DEF FailRetry, Unown, PhaseOf, HolderOf, LetterOf, IInv, TypeOK, Active, Pending
  <2> QED
    BY <2>1, <2>2, Views
<1>5. CASE FailBury(j, n, max, kind)
  <2>1. OpenOf(j) /\ ~OpenOf(j)' /\ OthersKept(j)
    BY <1>1, <1>5, Closes DEF FailBury, Unown, OthersKept, IInv, TypeOK
  <2>2. PhaseOf(j) = "active" /\ PhaseOf(j)' = "dead" /\ HolderOf(j)' = None
    BY <1>5 DEF FailBury, Unown, PhaseOf, HolderOf, IInv, TypeOK, Active, Pending
  <2>3. ~LetterOf(j)
    BY <1>5, NoLetter DEF FailBury, LetterOf, Active
  <2>4. LetterOf(j)'
    BY <1>5 DEF FailBury, LetterOf, IInv, TypeOK
  <2> QED
    BY <2>1, <2>2, <2>3, <2>4, Views
<1> QED
  BY <1>2, <1>3, <1>4, <1>5 DEF FailJob

\* What the API, the clock, the scheduler and the claims do to a row.
LEMMA JobStepView ==
  ASSUME IInv, NEW j \in Jobs, JobStep(j)
  PROVE  ContractStep
<1>1. ASSUME NEW max \in InitialMax, NEW s \in Pending, Create(j, max, s)
      PROVE  ContractStep
  <2>1. OthersKept(j) /\ UNCHANGED <<exec, dlq, claimedBy>>
    BY <1>1 DEF Create, OthersKept, IInv, TypeOK
  <2>2. PhaseOf(j) = "absent" /\ PhaseOf(j)' = "pending" /\ HolderOf(j)' = HolderOf(j)
    BY <1>1 DEF Create, PhaseOf, HolderOf, IInv, TypeOK, Active, Pending
  <2> QED
    BY <2>1, <2>2, Views DEF OpenOf, LetterOf, RunningExecs
<1>2. CASE Cancel(j)
  <2>1. OthersKept(j) /\ UNCHANGED <<exec, dlq, claimedBy>>
    BY <1>2 DEF Cancel, OthersKept, IInv, TypeOK
  <2>2. PhaseOf(j) = "pending" /\ PhaseOf(j)' = "cancelled" /\ HolderOf(j)' = HolderOf(j)
    BY <1>2 DEF Cancel, PhaseOf, HolderOf, IInv, TypeOK, Active, Pending
  <2> QED
    BY <2>1, <2>2, Views DEF OpenOf, LetterOf, RunningExecs
<1>3. ASSUME NEW extra \in ExtraAttempts, RetryNow(j, extra)
      PROVE  ContractStep
  <2>1. OthersKept(j) /\ UNCHANGED exec
    BY <1>3 DEF RetryNow, Unown, OthersKept, IInv, TypeOK
  <2>2. /\ PhaseOf(j) \in {"succeeded", "dead", "cancelled"} /\ PhaseOf(j)' = "pending"
        /\ HolderOf(j)' = HolderOf(j)
    BY <1>3 DEF RetryNow, PhaseOf, HolderOf, IInv, TypeOK, Active, Pending, Terminal
  <2>3. ~LetterOf(j)'
    BY <1>3 DEF RetryNow, LetterOf, IInv, TypeOK
  <2> QED
    BY <2>1, <2>2, <2>3, Views DEF OpenOf, RunningExecs
<1>4. ASSUME NEW n \in Attempts, Discard(j, n) PROVE ContractStep
  <2>1. OthersKept(j) /\ UNCHANGED <<exec, status, claimedBy>>
    BY <1>4 DEF Discard, OthersKept, IInv, TypeOK
  <2>2. FailedOf(j) /\ dlq[j][n] = "pending"
    BY <1>4 DEF Discard, IInv
  <2>3. PhaseOf(j) = "dead" /\ LetterOf(j)
    BY <2>2 DEF FailedOf, PhaseOf, LetterOf, Pending, Active
  <2>4. \A m \in Attempts : dlq'[j][m] = IF m = n THEN "discarded" ELSE dlq[j][m]
    BY <1>4 DEF Discard, IInv, TypeOK
  <2>5. ~LetterOf(j)'
    BY <2>2, <2>4 DEF FailedOf, LetterOf
  <2>6. PhaseOf(j)' = PhaseOf(j) /\ HolderOf(j)' = HolderOf(j) /\ OpenOf(j)' = OpenOf(j)
    BY <2>1 DEF PhaseOf, HolderOf, OpenOf, RunningExecs
  <2> QED
    BY <2>1, <2>3, <2>5, <2>6, Views
<1>5. ASSUME NEW w \in Workers, ClaimRow(w, j) PROVE ContractStep
  <2>1. OthersKept(j) /\ UNCHANGED <<exec, dlq>>
    BY <1>5 DEF ClaimRow, OthersKept, IInv, TypeOK
  <2>2. PhaseOf(j) = "pending" /\ PhaseOf(j)' = "active" /\ HolderOf(j)' \in Workers
    BY <1>5 DEF ClaimRow, PhaseOf, HolderOf, IInv, TypeOK, Active, Pending
  <2> QED
    BY <2>1, <2>2, Views DEF OpenOf, LetterOf, RunningExecs
<1>6. CASE LeaseExpires(j)
  <2>1. UNCHANGED <<status, claimedBy, exec, dlq>>
    BY <1>6 DEF LeaseExpires
  <2> QED
    BY <2>1, Views DEF OthersKept, PhaseOf, HolderOf, OpenOf, LetterOf, RunningExecs
<1>7. CASE PromoteDue(j)
  <2>1. OthersKept(j) /\ UNCHANGED <<exec, dlq>>
    BY <1>7 DEF PromoteDue, OthersKept, IInv, TypeOK
  <2>2. PhaseOf(j)' = PhaseOf(j) /\ HolderOf(j)' = HolderOf(j)
    BY <1>7 DEF PromoteDue, PhaseOf, HolderOf, IInv, TypeOK, Active, Pending
  <2> QED
    BY <2>1, <2>2, Views DEF OpenOf, LetterOf, RunningExecs
<1>8. CASE ReapLost(j)
  <2>1. PICK n \in Attempts : FailJob(j, n, maxAttempts[j], "lost")
    BY <1>8 DEF ReapLost, RunningExecs
  <2> QED
    BY <2>1, FailView DEF Failures
<1>9. CASE ReapUnstarted(j)
  <2>1. OthersKept(j) /\ UNCHANGED <<exec, dlq>> /\ ~OpenOf(j)
    BY <1>9 DEF ReapUnstarted, Unown, OthersKept, IInv, TypeOK, OpenOf
  <2>2. PhaseOf(j) = "active" /\ PhaseOf(j)' = "pending" /\ HolderOf(j)' = None
    BY <1>9 DEF ReapUnstarted, Reapable, PhaseOf, HolderOf, IInv, TypeOK, Active, Pending
  <2> QED
    BY <2>1, <2>2, Views DEF OpenOf, LetterOf, RunningExecs
<1> QED
  BY <1>1, <1>2, <1>3, <1>4, <1>5, <1>6, <1>7, <1>8, <1>9 DEF JobStep, Claim, ClaimLost

-----------------------------------------------------------------------------
\* The steps of a pipeline.

\* startExecution opens an attempt when none is open, and never on a dead job.
LEMMA InsertView ==
  ASSUME IInv, NEW p \in Pipes, InsertExecution(p)
  PROVE  ContractStep
<1>1. PICK j \in Jobs, n \in Attempts :
         /\ pipe[p].job = j /\ Attempt(p) = n /\ pipe[p].phase = "launched"
         /\ exec[j][n] = "none" /\ (n > 1 => exec[j][n - 1] \in Concluded)
  <2>1. PipeOf(p) /\ pipe[p].base \in 0..MaxAttemptsCap /\ pipe[p].phase = "launched"
    BY PipeFields DEF IInv, InsertExecution, Busy
  <2> QED
    BY <2>1, CapAssumption DEF PipeOf, Attempt, Attempts, InsertExecution
<1>2. /\ exec' = [exec EXCEPT ![j][n] = "running"]
      /\ status' = [status EXCEPT ![j] = IF @ = "claimed" THEN "running" ELSE @]
      /\ UNCHANGED <<claimedBy, dlq>>
  BY <1>1 DEF InsertExecution
<1>3. OthersKept(j)
  BY <1>2 DEF OthersKept, IInv, TypeOK
<1>4. status[j] # "failed"
  BY <1>1 DEF IInv, FailedOf
<1>5. /\ PhaseOf(j) # "dead" /\ PhaseOf(j)' = PhaseOf(j) /\ HolderOf(j)' = HolderOf(j)
      /\ LetterOf(j)' = LetterOf(j)
  BY <1>2, <1>4 DEF PhaseOf, HolderOf, LetterOf, IInv, TypeOK, JobStatus, Active, Pending, Terminal
<1>6. \A m \in Attempts : exec[j][m] # "running"
  <2>1. NumberingOf(j)
    BY DEF IInv
  <2> QED
    BY <1>1, <2>1, CapAssumption DEF NumberingOf, Attempts, Concluded, Failures
<1>7. ~OpenOf(j) /\ OpenOf(j)'
  BY <1>2, <1>6 DEF OpenOf, RunningExecs, IInv, TypeOK
<1> QED
  BY <1>3, <1>5, <1>7, Views

\* completeExecution: the job succeeds, or an orphan is closed, or nothing is.
LEMMA CompleteView ==
  ASSUME IInv, NEW j \in Jobs, NEW n \in Attempts, Complete(j, n)
  PROVE  ContractStep
<1>1. \/ OpenOf(j)' = OpenOf(j)
      \/ OpenOf(j) /\ ~OpenOf(j)'
  <2>1. CASE exec[j][n] = "running"
    <3>1. exec' = [exec EXCEPT ![j][n] = "succeeded"] /\ "succeeded" \in Concluded
      BY <2>1 DEF Complete, Concluded, IInv, TypeOK
    <3> QED
      BY <2>1, <3>1, Closes
  <2>2. CASE exec[j][n] # "running"
    BY <2>2 DEF Complete, OpenOf, RunningExecs, IInv, TypeOK
  <2> QED
    BY <2>1, <2>2
<1>2. OthersKept(j) /\ LetterOf(j)' = LetterOf(j)
  BY DEF Complete, OthersKept, LetterOf, IInv, TypeOK
<1>3. CASE status[j] = "running"
  <2>1. PhaseOf(j) = "active" /\ PhaseOf(j)' = "succeeded" /\ HolderOf(j)' = None
    BY <1>3 DEF Complete, PhaseOf, HolderOf, IInv, TypeOK, Active, Pending
  <2> QED
    BY <1>1, <1>2, <2>1, Views
<1>4. CASE status[j] # "running"
  <2>1. PhaseOf(j)' = PhaseOf(j) /\ HolderOf(j)' = HolderOf(j)
    BY <1>4 DEF Complete, PhaseOf, HolderOf
  <2> QED
    BY <1>1, <1>2, <2>1, Views
<1> QED
  BY <1>3, <1>4

\* Every step of a pipeline is one of these, or changes no row.
LEMMA PipeStepView ==
  ASSUME IInv, NEW p \in Pipes, PipeStep(p)
  PROVE  ContractStep
<1>1. CASE StartExecution(p) \/ StartConflict(p) \/ StartError(p) \/ FailError(p)
  <2>1. UNCHANGED jobVars \/ InsertExecution(p)
    BY <1>1 DEF StartExecution, StartConflict, StartError, FailError
  <2> QED
    BY <2>1, Unseen, InsertView
<1>2. CASE CompleteExecution(p) \/ CompleteError(p)
  <2>1. UNCHANGED jobVars \/ Complete(pipe[p].job, Attempt(p))
    BY <1>2 DEF CompleteExecution, CompleteError
  <2>2. pipe[p].phase = "handling"
    BY <1>2 DEF CompleteExecution, CompleteError, Busy
  <2>3. pipe[p].job \in Jobs /\ Attempt(p) \in Attempts
    BY <2>2, Started
  <2> QED
    BY <2>1, <2>3, Unseen, CompleteView
<1>3. CASE FailExecution(p)
  <2>1. pipe[p].phase \in {"handling", "failing"}
        /\ FailJob(pipe[p].job, Attempt(p), pipe[p].max, "failed")
    BY <1>3 DEF FailExecution
  <2>2. pipe[p].job \in Jobs /\ Attempt(p) \in Attempts /\ "failed" \in Failures
    BY <2>1, Started DEF Failures
  <2> QED
    BY <2>1, <2>2, FailView
<1> QED
  BY <1>1, <1>2, <1>3 DEF PipeStep

-----------------------------------------------------------------------------
\* The theorem.

\* The initial states of the lifecycle map to initial states of the contract.
LEMMA InitView == Init => Contract!ContractInit
<1> SUFFICES ASSUME Init PROVE Contract!ContractInit
  OBVIOUS
<1>1. \A j \in Jobs : PhaseOf(j) = "absent" /\ HolderOf(j) = None /\ ~OpenOf(j) /\ ~LetterOf(j)
  BY DEF Init, PhaseOf, HolderOf, OpenOf, LetterOf, RunningExecs, Pending, Active
<1> QED
  BY <1>1 DEF Contract!ContractInit, phaseBar, ownerBar, openBar, letterBar, HolderOf,
              OpenOf, LetterOf

\* Every step of the lifecycle maps to a step of the contract or to none.
LEMMA NextView == IInv /\ [Next]_vars => ContractStep
<1> SUFFICES ASSUME IInv, [Next]_vars PROVE ContractStep
  OBVIOUS
<1>1. CASE UNCHANGED vars
  BY <1>1, Unseen DEF vars
<1>2. CASE (\E w \in Workers : WorkerStep(w)) \/ DeclareDead
  <2>1. UNCHANGED jobVars
    BY <1>2 DEF WorkerStep, GoSilent, Heartbeat, Crash, StopBegin, StopEnd, DeclareDead
  <2> QED
    BY <2>1, Unseen
<1> QED
  BY <1>1, <1>2, JobStepView, PipeStepView DEF Next

\* Whatever the processes do (stalls, crashes, lost answers, late conclusions),
\* what is seen of a job is a run of the contract: one holder, one open attempt,
\* a letter for every burial (docs/architecture.md, the job state machine).
THEOREM ContractKept == Spec => ImplementsContract
<1>1. Spec => []IInv
  BY Invariance
<1>2. Spec => Contract!ContractInit /\ [][Contract!ContractNext]_(Contract!contractVars)
  BY <1>1, InitView, NextView, PTL DEF Spec, ContractStep
<1> QED
  BY <1>2 DEF ImplementsContract, Contract!ContractSpec
=============================================================================
