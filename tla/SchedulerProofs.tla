-------------------------- MODULE SchedulerProofs --------------------------
(***************************************************************************)
(* Proofs about Scheduler, for every set of processes, schedules and       *)
(* expressions, every function NextCronRun, every number of faults and     *)
(* edits.                                                                  *)
(*                                                                         *)
(* The composition is taken apart first: a step of Scheduler is a step of  *)
(* CronSchedules or leaves its variables alone, and the same of            *)
(* SchedulerLeader.  LInv and CInv are then inductive for one half each.   *)
(* Two theorems have a hypothesis on the constants, which says under which *)
(* conditions the code keeps its promise.                                  *)
(***************************************************************************)
EXTENDS Scheduler, FiniteSetTheorems, TLAPS

\* What a process does as far as the election goes.
LeaderMove(p) ==
    \/ Runs(p)
    \/ CronDone(p)
    \/ TickFails(p)
    \/ Disturbed(p)
    \/ Exit(p)
    \/ Crash(p)

\* A leader has a session, one that connects has none, and one in the catch block
\* has given up.
PlaceOf(p) ==
    /\ p \in leader => p \in client
    /\ pc[p] = "connect" => p \notin client
    /\ pc[p] = "catch" => p \notin leader

LInv ==
    /\ LeaderTypeOK
    /\ \A p \in Procs : PlaceOf(p)
    /\ OneConnectedLeader

-----------------------------------------------------------------------------
\* The composition.

\* A step of the scheduler is a step of the election, or none.
LEMMA LeaderSteps ==
  ASSUME [Next]_vars
  PROVE  UNCHANGED leaderVars \/ GhostEnds \/ \E p \in Procs : LeaderMove(p)
<1>1. CASE UNCHANGED vars
  BY <1>1 DEF vars
<1>2. ASSUME NEW p \in Procs, Step(p)
      PROVE  UNCHANGED leaderVars \/ LeaderMove(p)
  BY <1>2 DEF Step, CronStep, LeaderMove
<1>3. ASSUME NEW p \in Procs,
             \/ CommitRows(p) /\ TickFails(p)
             \/ TickFails(p) /\ Drop(p)
             \/ (Exit(p) \/ Crash(p)) /\ Drop(p)
             \/ Disturbed(p) /\ UNCHANGED cronVars
      PROVE  LeaderMove(p)
  BY <1>3 DEF LeaderMove
<1> QED
  BY <1>1, <1>2, <1>3 DEF Next

\* A step of the scheduler is a step of the materializer or of a user, or none:
\* what the election does cannot make the materializer do anything else.
LEMMA CronSteps ==
  ASSUME [Next]_vars
  PROVE  [CronNext]_cronVars
<1>1. CASE UNCHANGED vars
  BY <1>1 DEF vars
<1>2. ASSUME NEW p \in Procs, Step(p)
      PROVE  [CronNext]_cronVars
  BY <1>2, TickersAssumption DEF Step, CronStep, CronNext
<1>3. ASSUME NEW p \in Procs, Drop(p)
      PROVE  [CronNext]_cronVars
  BY <1>3, TickersAssumption DEF Drop, CronNext
<1>4. ASSUME NEW p \in Procs, CommitRows(p)
      PROVE  [CronNext]_cronVars
  BY <1>4, TickersAssumption DEF CronNext
<1>5. CASE UserStep \/ ClockTick
  BY <1>5 DEF CronNext
<1> QED
  BY <1>1, <1>2, <1>3, <1>4, <1>5 DEF Next

\* The scheduler implements the cron specification, whoever leads.
THEOREM ImplementsCron == Spec => CronSpec
<1>1. Init => CronInit
  BY DEF Init
<1> QED
  BY <1>1, CronSteps, PTL DEF Spec, CronSpec

-----------------------------------------------------------------------------
\* The election.

\* Initially nobody leads.
LEMMA LeaderInitial == LeaderInit => LInv
  BY HolderAssumption, FaultsAssumption
  DEF LeaderInit, LInv, LeaderTypeOK, PlaceOf, OneConnectedLeader, Places, Duties

\* The end of a ghost's session concerns no process.
LEMMA GhostStep == ASSUME LInv, GhostEnds PROVE LInv'
  BY HolderAssumption
  DEF LInv, GhostEnds, LeaderTypeOK, PlaceOf, OneConnectedLeader

\* A tick keeps the invariant: only the one who is granted the lock begins to lead.
LEMMA TickStep == ASSUME LInv, NEW p \in Procs, Runs(p) \/ CronDone(p) PROVE LInv'
<1> USE DEF LInv, LeaderTypeOK, PlaceOf, OneConnectedLeader, Goto, Places, Duties
<1>1. CASE Start(p)
  BY <1>1 DEF Start
<1>2. CASE TickStart(p)
  BY <1>2 DEF TickStart, AfterConnect
<1>3. CASE Connect(p)
  BY <1>3 DEF Connect, AfterConnect
<1>4. CASE TryLock(p)
  BY <1>4, HolderAssumption DEF TryLock
<1>5. CASE Reap(p)
  BY <1>5 DEF Reap
<1>6. CASE LockRejected(p)
  BY <1>6 DEF LockRejected
<1>7. CASE Catch(p)
  BY <1>7 DEF Catch, ReleasedBy
<1>8. CASE CronDone(p)
  BY <1>8 DEF CronDone
<1> QED
  BY <1>1, <1>2, <1>3, <1>4, <1>5, <1>6, <1>7, <1>8 DEF Runs

\* So does whatever disturbs it: leading is given up with the session, or before.
LEMMA UpsetStep ==
  ASSUME LInv, NEW p \in Procs, TickFails(p) \/ Disturbed(p) \/ Exit(p) \/ Crash(p)
  PROVE  LInv'
<1> USE FaultsAssumption
    DEF LInv, LeaderTypeOK, PlaceOf, OneConnectedLeader, Goto, Places, Duties, Fault
<1>1. CASE TickFails(p)
  BY <1>1 DEF TickFails
<1>2. CASE ServerDrops(p)
  BY <1>2, HolderAssumption DEF ServerDrops, ReleasedBy
<1>3. CASE ClientLoses(p)
  BY <1>3 DEF ClientLoses
<1>4. CASE ErrorEvent(p)
  BY <1>4 DEF ErrorEvent
<1>5. CASE Stop(p)
  BY <1>5 DEF Stop
<1>6. CASE StopEnds(p)
  BY <1>6 DEF StopEnds, ReleasedBy
<1>7. CASE Exit(p)
  BY <1>7 DEF Exit, Gone
<1>8. CASE Crash(p)
  BY <1>8 DEF Crash, Gone
<1> QED
  BY <1>1, <1>2, <1>3, <1>4, <1>5, <1>6, <1>7, <1>8 DEF Disturbed

\* Every step of the scheduler keeps the invariant of the election.
LEMMA LeaderStep == LInv /\ [Next]_vars => LInv'
<1> SUFFICES ASSUME LInv, [Next]_vars PROVE LInv'
  OBVIOUS
<1>1. CASE UNCHANGED leaderVars
  BY <1>1 DEF leaderVars, LInv, LeaderTypeOK, PlaceOf, OneConnectedLeader
<1>2. ASSUME NEW p \in Procs, LeaderMove(p) PROVE LInv'
  BY <1>2, TickStep, UpsetStep DEF LeaderMove
<1> QED
  BY <1>1, <1>2, GhostStep, LeaderSteps

THEOREM LeaderInvariance == Spec => []LInv
  BY LeaderInitial, LeaderStep, PTL DEF Spec, Init

\* Of the processes that believe they lead, the one with a live session holds the
\* lock.
THEOREM LeaderCorrect == Spec => []OneConnectedLeader
<1>1. LInv => OneConnectedLeader
  BY DEF LInv
<1> QED
  BY <1>1, LeaderInvariance, PTL

-----------------------------------------------------------------------------
\* The materializer: what a transaction knows of the rows it has locked.

HeldOf(w) ==
    /\ todo[w] \subseteq held[w]
    /\ held[w] \subseteq live
    /\ \A s \in held[w] : read[w][s] = nextRun[s] /\ nextRun[s] <= now

CInv ==
    /\ CronTypeOK
    /\ \A w \in Tickers : HeldOf(w)
    /\ \A v, w \in Tickers : v # w => held[v] \cap held[w] = {}

\* The application's clock is in the range of the occurrences.
LEMMA AppNowRange == CronTypeOK => AppNow \in 0..MaxTime /\ AppNow <= now
  BY LagAssumption, TimeAssumption DEF CronTypeOK, AppNow

\* The next occurrence is a time, and later.
LEMMA NextRunLater ==
  ASSUME NEW c \in Crons, NEW t \in 0..MaxTime
  PROVE  NextCronRun(c, t) \in Nat /\ NextCronRun(c, t) > t
  BY CronAssumption

\* A PATCH under way carries its columns.
LEMMA PatchFields ==
  ASSUME CronTypeOK, NEW u \in Users, patch[u].stage # "none"
  PROVE  patch[u] \in Patches
  BY DEF CronTypeOK, NoPatch

\* Initially nothing is held.
LEMMA CronInitial == CronInit => CInv
<1> SUFFICES ASSUME CronInit PROVE CInv
  OBVIOUS
<1>1. \A s \in Schedules : nextRun[s] \in Nat
  BY TimeAssumption, NextRunLater DEF CronInit
<1> QED
  BY <1>1, TimeAssumption DEF CronInit, CInv, CronTypeOK, HeldOf, NoTimes

\* SKIP LOCKED keeps the rows of two transactions apart.
LEMMA LockDueStep == ASSUME CInv, NEW w \in Tickers, LockDue(w) PROVE CInv'
<1> DEFINE S == {s \in DueRows : Unlocked(s)}
<1>1. S \subseteq Schedules \cap live /\ (\A s \in S : nextRun[s] <= now)
  BY DEF CInv, CronTypeOK, DueRows
<1>2. CronTypeOK'
  BY <1>1 DEF CInv, CronTypeOK, LockDue, rowVars
<1>3. \A v \in Tickers : HeldOf(v)'
  BY <1>1 DEF CInv, CronTypeOK, HeldOf, LockDue, rowVars
<1>4. \A v, r \in Tickers : v # r => held'[v] \cap held'[r] = {}
  <2>1. \A v \in Tickers : v # w => held[v] \cap S = {}
    BY DEF Unlocked
  <2> QED
    BY <2>1 DEF CInv, CronTypeOK, LockDue
<1> QED
  BY <1>2, <1>3, <1>4 DEF CInv

\* A turn of the loop plans a next run for a row it holds.
LEMMA AdvanceStep ==
  ASSUME CInv, NEW w \in Tickers, NEW s \in Schedules, Advance(w, s)
  PROVE  CInv'
<1>1. NextCronRun(cron[s], AppNow) \in Nat
  BY AppNowRange, NextRunLater DEF CInv, CronTypeOK
<1> QED
  BY <1>1 DEF CInv, CronTypeOK, HeldOf, Advance, rowVars

\* The end of a transaction frees its rows and no other.
LEMMA EndTxStep ==
  ASSUME CInv, NEW w \in Tickers, EndTx(w), CronTypeOK', UNCHANGED <<now, live>>,
         \A s \in Schedules : nextRun'[s] # nextRun[s] => s \in held[w]
  PROVE  CInv'
<1>1. \A v \in Tickers : HeldOf(v)'
  BY DEF CInv, CronTypeOK, HeldOf, EndTx
<1>2. \A v, r \in Tickers : v # r => held'[v] \cap held'[r] = {}
  BY DEF CInv, CronTypeOK, EndTx
<1> QED
  BY <1>1, <1>2 DEF CInv

\* COMMIT.
LEMMA CommitStep == ASSUME CInv, NEW w \in Tickers, CommitRows(w) PROVE CInv'
<1>1. CronTypeOK'
  BY DEF CInv, CronTypeOK, CommitRows, EndTx, NoTimes
<1>2. \A s \in Schedules : nextRun'[s] # nextRun[s] => s \in held[w]
  BY DEF CommitRows, CInv, CronTypeOK
<1> QED
  BY <1>1, <1>2, EndTxStep DEF CommitRows

\* ROLLBACK.
LEMMA RollbackStep == ASSUME CInv, NEW w \in Tickers, Rollback(w) PROVE CInv'
<1>1. CronTypeOK'
  BY DEF CInv, CronTypeOK, Rollback, EndTx, NoTimes, rowVars
<1> QED
  BY <1>1, EndTxStep DEF Rollback, rowVars

\* The routes change only rows that no transaction holds.
LEMMA RowsKept ==
  ASSUME CInv, CronTypeOK', UNCHANGED <<now, tickVars>>,
         \A w \in Tickers : \A s \in held[w] : nextRun'[s] = nextRun[s] /\ s \in live'
  PROVE  CInv'
<1>1. \A w \in Tickers : HeldOf(w)'
  BY DEF CInv, CronTypeOK, HeldOf, tickVars
<1>2. \A v, w \in Tickers : v # w => held'[v] \cap held'[w] = {}
  BY DEF CInv, tickVars
<1> QED
  BY <1>1, <1>2 DEF CInv

\* A new row is nobody's yet.
LEMMA CreateStep == ASSUME CInv, NEW s \in Schedules, CreateSchedule(s) PROVE CInv'
<1>1. PICK c \in Crons :
          /\ cron' = [cron EXCEPT ![s] = c]
          /\ nextRun' = [nextRun EXCEPT ![s] = NextCronRun(c, AppNow)]
  BY DEF CreateSchedule
<1>2. NextCronRun(c, AppNow) \in Nat
  BY AppNowRange, NextRunLater DEF CInv
<1>3. CronTypeOK'
  BY <1>1, <1>2, TimeAssumption
  DEF CInv, CronTypeOK, CreateSchedule, Edit, Afresh, tickVars
<1>4. \A w \in Tickers : \A r \in held[w] : nextRun'[r] = nextRun[r] /\ r \in live'
  BY <1>1 DEF CInv, CronTypeOK, HeldOf, CreateSchedule
<1> QED
  BY <1>3, <1>4, RowsKept DEF CreateSchedule

\* A DELETE waits for the row.
LEMMA DeleteStep == ASSUME CInv, NEW s \in Schedules, DeleteSchedule(s) PROVE CInv'
<1>1. CronTypeOK'
  BY TimeAssumption DEF CInv, CronTypeOK, DeleteSchedule, Edit, Afresh, tickVars
<1>2. \A w \in Tickers : \A r \in held[w] : nextRun'[r] = nextRun[r] /\ r \in live'
  BY DEF CInv, CronTypeOK, HeldOf, DeleteSchedule, Unlocked
<1> QED
  BY <1>1, <1>2, RowsKept DEF DeleteSchedule

\* A PATCH begins by reading.
LEMMA PatchReadStep ==
  ASSUME CInv, NEW u \in Users, NEW s \in Schedules, PatchRead(u, s)
  PROVE  CInv'
<1>1. PICK c \in Crons, active \in BOOLEAN, timing \in BOOLEAN :
          patch' = [patch EXCEPT ![u] =
                [stage |-> "read", on |-> s, cron |-> c, active |-> active,
                 timing |-> timing, next |-> 0]]
  BY DEF PatchRead
<1>2. [stage |-> "read", on |-> s, cron |-> c, active |-> active,
       timing |-> timing, next |-> 0] \in Patches
  BY DEF Patches, Stages
<1>3. CronTypeOK'
  BY <1>1, <1>2, TimeAssumption DEF CInv, CronTypeOK, PatchRead, Edit, rowVars, tickVars
<1> QED
  BY <1>3, RowsKept DEF PatchRead, rowVars, CInv, HeldOf

\* It then computes the next run, from a time that has come.
LEMMA PatchSendStep == ASSUME CInv, NEW u \in Users, PatchSend(u) PROVE CInv'
<1> DEFINE n == IF patch[u].timing THEN NextCronRun(patch[u].cron, AppNow) ELSE 0
<1>1. patch[u] \in Patches
  BY PatchFields DEF CInv, PatchSend
<1>2. n \in Nat
  BY <1>1, AppNowRange, NextRunLater DEF CInv, Patches
<1>3. patch' = [patch EXCEPT ![u] = [[patch[u] EXCEPT !.stage = "sent"] EXCEPT !.next = n]]
  BY DEF PatchSend, CInv, CronTypeOK
<1> HIDE DEF n
<1>4. [[patch[u] EXCEPT !.stage = "sent"] EXCEPT !.next = n] \in Patches
  BY <1>1, <1>2 DEF Patches, Stages
<1>5. CronTypeOK'
  BY <1>3, <1>4 DEF CInv, CronTypeOK, PatchSend, rowVars, tickVars
<1> QED
  BY <1>5, RowsKept DEF PatchSend, rowVars, CInv, HeldOf

\* Its UPDATE waits for the row.
LEMMA PatchUpdateStep == ASSUME CInv, NEW u \in Users, PatchUpdate(u) PROVE CInv'
<1>1. patch[u] \in Patches
  BY PatchFields DEF CInv, PatchUpdate
<1>2. /\ patch[u].on \in Schedules /\ patch[u].cron \in Crons
      /\ patch[u].next \in Nat /\ patch[u].active \in BOOLEAN
  BY <1>1 DEF Patches
<1>3. CronTypeOK'
  <2>1. patch' \in [Users -> Patches \cup {NoPatch}]
    BY DEF CInv, CronTypeOK, PatchUpdate
  <2>2. /\ isActive' \in SUBSET Schedules
        /\ cron' \in [Schedules -> Crons]
    BY <1>2 DEF CInv, CronTypeOK, PatchUpdate
  <2>3. /\ nextRun' \in [Schedules -> Nat]
        /\ fired' \in [Schedules -> SUBSET Nat]
        /\ total' \in [Schedules -> Nat]
    <3>1. CASE UNCHANGED <<nextRun, fired, total>>
      BY <3>1 DEF CInv, CronTypeOK
    <3>2. CASE /\ nextRun' = [nextRun EXCEPT ![patch[u].on] = patch[u].next]
               /\ Afresh(patch[u].on)
      BY <1>2, <3>2 DEF CInv, CronTypeOK, Afresh
    <3> QED
      BY <3>1, <3>2 DEF PatchUpdate
  <2> QED
    BY <2>1, <2>2, <2>3 DEF CInv, CronTypeOK, PatchUpdate, tickVars
<1>4. \A w \in Tickers : \A r \in held[w] : nextRun'[r] = nextRun[r] /\ r \in live'
  BY <1>2 DEF CInv, CronTypeOK, HeldOf, PatchUpdate, Unlocked
<1> QED
  BY <1>3, <1>4, RowsKept DEF PatchUpdate

\* Whatever a user does, the invariant is kept.
LEMMA UserKeepsCInv == ASSUME CInv, UserStep PROVE CInv'
  BY CreateStep, DeleteStep, PatchReadStep, PatchSendStep, PatchUpdateStep DEF UserStep

\* Every step of the materializer and of the routes keeps the invariant.
LEMMA CronStepCInv == CInv /\ [CronNext]_cronVars => CInv'
<1> SUFFICES ASSUME CInv, [CronNext]_cronVars PROVE CInv'
  OBVIOUS
<1>1. CASE UNCHANGED cronVars
  BY <1>1 DEF cronVars, rowVars, tickVars, CInv, CronTypeOK, HeldOf
<1>2. CASE ClockTick
  BY <1>2, TimeAssumption DEF ClockTick, rowVars, tickVars, CInv, CronTypeOK, HeldOf
<1> QED
  BY <1>1, <1>2, LockDueStep, AdvanceStep, CommitStep, RollbackStep, UserKeepsCInv
  DEF CronNext

\* The invariant of the materializer.
THEOREM CronInvariance == CronSpec => []CInv
  BY CronInitial, CronStepCInv, PTL DEF CronSpec

\* Every reachable state is well typed.
THEOREM TypeCorrect == Spec => []TypeOK
<1>1. LInv /\ CInv => TypeOK
  BY DEF LInv, CInv, TypeOK
<1> QED
  BY <1>1, LeaderInvariance, CronInvariance, ImplementsCron, PTL

-----------------------------------------------------------------------------
\* Once per occurrence: what has been enqueued lies before the next run of the
\* row, and so does the next run of a row before the one planned for it.

FiredOf(s) ==
    /\ IsFiniteSet(fired[s])
    /\ total[s] = Cardinality(fired[s])
    /\ \A x \in fired[s] : x < nextRun[s]

OInv ==
    /\ CInv
    /\ \A s \in Schedules : FiredOf(s)
    /\ \A w \in Tickers : \A s \in held[w] \ todo[w] : plan[w][s] > nextRun[s]

\* A schedule that starts afresh has nothing enqueued.
LEMMA FreshFired ==
  ASSUME CInv, NEW s \in Schedules, Afresh(s), CInv'
  PROVE  FiredOf(s)'
  BY FS_EmptySet DEF CInv, CronTypeOK, Afresh, FiredOf

\* Nothing is enqueued at first.
LEMMA OnceInitial == CronInit => OInv
<1> SUFFICES ASSUME CronInit PROVE OInv
  OBVIOUS
<1>1. \A s \in Schedules : FiredOf(s)
  BY FS_EmptySet DEF CronInit, FiredOf, NoTimes
<1> QED
  BY <1>1, CronInitial DEF CronInit, OInv

\* What leaves the rows' history and what is held alone keeps the invariant.
LEMMA OnceKept ==
  ASSUME OInv, CInv', UNCHANGED <<fired, total, nextRun, plan, held, todo>>
  PROVE  OInv'
  BY DEF OInv, FiredOf

\* A new transaction has planned nothing.
LEMMA OnceLockDue == ASSUME OInv, NEW w \in Tickers, LockDue(w) PROVE OInv'
<1>1. CInv'
  BY LockDueStep DEF OInv
<1>2. \A s \in Schedules : FiredOf(s)'
  BY DEF OInv, FiredOf, LockDue, rowVars
<1>3. \A v \in Tickers : \A s \in held'[v] \ todo'[v] : plan'[v][s] > nextRun'[s]
  BY DEF OInv, CInv, CronTypeOK, LockDue, rowVars
<1> QED
  BY <1>1, <1>2, <1>3 DEF OInv

\* With the clocks in step, the planned run is later than the due one.
LEMMA OnceAdvance ==
  ASSUME OInv, Lag = 0, NEW w \in Tickers, NEW s \in Schedules, Advance(w, s)
  PROVE  OInv'
<1>1. CInv'
  BY AdvanceStep DEF OInv
<1>2. \A r \in Schedules : FiredOf(r)'
  BY DEF OInv, FiredOf, Advance, rowVars
<1>3. AppNow = now /\ now \in 0..MaxTime
  BY DEF OInv, CInv, CronTypeOK, AppNow
<1>4. s \in held[w] /\ nextRun[s] <= now
  BY DEF OInv, CInv, HeldOf, Advance
<1>5. NextCronRun(cron[s], AppNow) > nextRun[s]
  BY <1>3, <1>4, NextRunLater DEF OInv, CInv, CronTypeOK
<1>6. \A v \in Tickers : \A r \in held'[v] \ todo'[v] : plan'[v][r] > nextRun'[r]
  BY <1>5 DEF OInv, CInv, CronTypeOK, HeldOf, Advance, rowVars
<1> QED
  BY <1>1, <1>2, <1>6 DEF OInv

\* COMMIT enqueues the due occurrence, which is later than any enqueued before.
LEMMA OnceCommit == ASSUME OInv, NEW w \in Tickers, CommitRows(w) PROVE OInv'
<1>1. CInv'
  BY CommitStep DEF OInv
<1>2. ASSUME NEW s \in Schedules PROVE FiredOf(s)'
  <2>1. CASE s \notin held[w]
    <3>1. fired'[s] = fired[s] /\ total'[s] = total[s] /\ nextRun'[s] = nextRun[s]
      BY <2>1 DEF OInv, CInv, CronTypeOK, CommitRows
    <3> QED
      BY <3>1 DEF OInv, FiredOf
  <2>2. CASE s \in held[w]
    <3>1. /\ fired'[s] = fired[s] \cup {read[w][s]}
          /\ total'[s] = total[s] + 1
          /\ nextRun'[s] = plan[w][s]
      BY <2>2 DEF CommitRows
    <3>2. read[w][s] = nextRun[s] /\ plan[w][s] > nextRun[s]
      BY <2>2 DEF OInv, CInv, HeldOf, CommitRows
    <3>3. read[w][s] \notin fired[s] /\ nextRun[s] \in Nat /\ plan[w][s] \in Nat
      BY <3>2 DEF OInv, CInv, CronTypeOK, FiredOf
    <3>4. /\ IsFiniteSet(fired[s] \cup {read[w][s]})
          /\ Cardinality(fired[s] \cup {read[w][s]}) = Cardinality(fired[s]) + 1
      BY <3>3, FS_AddElement DEF OInv, FiredOf
    <3>5. \A x \in fired[s] : x \in Nat /\ x < plan[w][s]
      BY <3>2, <3>3 DEF OInv, CInv, CronTypeOK, FiredOf
    <3> QED
      BY <3>1, <3>2, <3>4, <3>5 DEF OInv, FiredOf
  <2> QED
    BY <2>1, <2>2
<1>3. ASSUME NEW v \in Tickers, NEW s \in held'[v] \ todo'[v]
      PROVE  plan'[v][s] > nextRun'[s]
  <2>1. v # w /\ s \in held[v] \ todo[v] /\ plan'[v] = plan[v]
    BY <1>3 DEF CommitRows, EndTx, OInv, CInv, CronTypeOK
  <2>2. s \in Schedules /\ s \notin held[w]
    BY <2>1 DEF OInv, CInv, CronTypeOK
  <2> QED
    BY <2>1, <2>2 DEF OInv, CommitRows
<1> QED
  BY <1>1, <1>2, <1>3 DEF OInv

\* ROLLBACK enqueues nothing.
LEMMA OnceRollback == ASSUME OInv, NEW w \in Tickers, Rollback(w) PROVE OInv'
<1>1. CInv'
  BY RollbackStep DEF OInv
<1>2. \A s \in Schedules : FiredOf(s)'
  BY DEF OInv, FiredOf, Rollback, rowVars
<1>3. \A v \in Tickers : \A s \in held'[v] \ todo'[v] : plan'[v][s] > nextRun'[s]
  BY DEF OInv, CInv, CronTypeOK, Rollback, EndTx, rowVars
<1> QED
  BY <1>1, <1>2, <1>3 DEF OInv

\* A row whose timing a user sets starts afresh, and no transaction holds it.
LEMMA OnceAfresh ==
  ASSUME OInv, CInv', NEW s \in Schedules, Afresh(s), UNCHANGED tickVars,
         \A r \in Schedules : r # s => nextRun'[r] = nextRun[r],
         \A w \in Tickers : s \notin held[w]
  PROVE  OInv'
<1>1. ASSUME NEW r \in Schedules PROVE FiredOf(r)'
  <2>1. CASE r = s
    BY <2>1, FreshFired DEF OInv
  <2>2. CASE r # s
    BY <2>2 DEF OInv, CInv, CronTypeOK, Afresh, FiredOf
  <2> QED
    BY <2>1, <2>2
<1>2. ASSUME NEW v \in Tickers, NEW r \in held[v] \ todo[v]
      PROVE  plan[v][r] > nextRun'[r]
  <2>1. r \in Schedules /\ r # s
    BY DEF OInv, CInv, CronTypeOK
  <2> QED
    BY <2>1 DEF OInv
<1> QED
  BY <1>1, <1>2 DEF OInv, tickVars

\* What a user does enqueues nothing.
LEMMA OnceUser == ASSUME OInv, UserStep PROVE OInv'
<1>1. CInv'
  BY UserKeepsCInv DEF OInv
<1>2. ASSUME NEW s \in Schedules, CreateSchedule(s) PROVE OInv'
  <2>1. \A w \in Tickers : s \notin held[w]
    BY <1>2 DEF CreateSchedule, OInv, CInv, HeldOf
  <2> QED
    BY <1>1, <1>2, <2>1, OnceAfresh DEF CreateSchedule, OInv, CInv, CronTypeOK
<1>3. ASSUME NEW s \in Schedules, DeleteSchedule(s) PROVE OInv'
  BY <1>1, <1>3, OnceAfresh DEF DeleteSchedule, Unlocked, OInv, CInv, CronTypeOK
<1>4. ASSUME NEW u \in Users, NEW s \in Schedules, PatchRead(u, s) PROVE OInv'
  BY <1>1, <1>4, OnceKept DEF PatchRead, rowVars, tickVars
<1>5. ASSUME NEW u \in Users, PatchSend(u) PROVE OInv'
  BY <1>1, <1>5, OnceKept DEF PatchSend, rowVars, tickVars
<1>6. ASSUME NEW u \in Users, PatchUpdate(u) PROVE OInv'
  <2>1. CASE UNCHANGED <<nextRun, fired, total>>
    BY <1>1, <1>6, <2>1, OnceKept DEF PatchUpdate, tickVars
  <2>2. CASE ~ UNCHANGED <<nextRun, fired, total>>
    <3>1. /\ patch[u].on \in live
          /\ nextRun' = [nextRun EXCEPT ![patch[u].on] = patch[u].next]
          /\ Afresh(patch[u].on)
          /\ \A w \in Tickers : patch[u].on \notin held[w]
      BY <1>6, <2>2 DEF PatchUpdate, Unlocked
    <3>2. patch[u].on \in Schedules
      BY <3>1 DEF OInv, CInv, CronTypeOK
    <3> QED
      BY <1>1, <1>6, <3>1, <3>2, OnceAfresh DEF PatchUpdate, OInv, CInv, CronTypeOK
  <2> QED
    BY <2>1, <2>2
<1> QED
  BY <1>2, <1>3, <1>4, <1>5, <1>6 DEF UserStep

\* Every step keeps the invariant, if the clocks are in step.
LEMMA OnceStep == Lag = 0 /\ OInv /\ [CronNext]_cronVars => OInv'
<1> SUFFICES ASSUME Lag = 0, OInv, [CronNext]_cronVars PROVE OInv'
  OBVIOUS
<1>1. CInv'
  BY CronStepCInv DEF OInv
<1>2. CASE UNCHANGED cronVars
  BY <1>1, <1>2, OnceKept DEF cronVars, rowVars, tickVars
<1>3. CASE ClockTick
  BY <1>1, <1>3, OnceKept DEF ClockTick, rowVars, tickVars
<1> QED
  BY <1>2, <1>3, OnceLockDue, OnceAdvance, OnceCommit, OnceRollback, OnceUser DEF CronNext

\* With the clocks of application and database in step, an occurrence is enqueued
\* once, however many processes believe they lead.
THEOREM OnceCorrect == ASSUME Lag = 0 PROVE Spec => []OncePerOccurrence
<1>1. CronInit => OInv
  BY OnceInitial
<1>2. OInv /\ [CronNext]_cronVars => OInv'
  BY OnceStep
<1>3. OInv => OncePerOccurrence
  BY DEF OInv, FiredOf, OncePerOccurrence
<1> QED
  BY <1>1, <1>2, <1>3, ImplementsCron, PTL DEF CronSpec

-----------------------------------------------------------------------------
\* The next run fits the expression: so does what a transaction has planned, and
\* what a PATCH under way is about to write.

Fits(c, x) == \E t \in 0..now : x = NextCronRun(c, t)

PatchOf(u) ==
    patch[u].stage # "none" =>
        /\ patch[u].stage = "sent" /\ patch[u].timing => Fits(patch[u].cron, patch[u].next)
        /\ ~patch[u].timing /\ patch[u].on \in live => patch[u].cron = cron[patch[u].on]

FInv ==
    /\ CInv
    /\ \A s \in live : Fits(cron[s], nextRun[s])
    /\ \A w \in Tickers : \A s \in held[w] \ todo[w] : Fits(cron[s], plan[w][s])
    /\ \A u \in Users : PatchOf(u)

\* What was computed from the application's clock fits.
LEMMA FitsNow == ASSUME CronTypeOK, NEW c PROVE Fits(c, NextCronRun(c, AppNow))
  BY AppNowRange DEF Fits, CronTypeOK

\* What fits goes on fitting.
LEMMA FitsLater ==
  ASSUME CronTypeOK, CronTypeOK', now' >= now, NEW c, NEW x, Fits(c, x)
  PROVE  Fits(c, x)'
<1>1. PICK t \in 0..now : x = NextCronRun(c, t)
  BY DEF Fits
<1>2. t \in 0..now'
  BY <1>1 DEF CronTypeOK
<1> QED
  BY <1>1, <1>2 DEF Fits

\* Every schedule starts with a next run that fits.
LEMMA FitInitial == CronInit => FInv
<1> SUFFICES ASSUME CronInit PROVE FInv
  OBVIOUS
<1>1. \A s \in live : Fits(cron[s], nextRun[s])
  BY DEF CronInit, Fits
<1> QED
  BY <1>1, CronInitial DEF CronInit, FInv, PatchOf, NoPatch

\* What leaves the rows, the plans and the PATCHes alone keeps the invariant.
LEMMA FitKept ==
  ASSUME FInv, CInv', now' >= now, UNCHANGED <<live, cron, nextRun, tickVars, patch>>
  PROVE  FInv'
<1>1. \A s \in live' : Fits(cron[s], nextRun[s])'
  BY FitsLater DEF FInv, CInv
<1>2. \A w \in Tickers : \A s \in held'[w] \ todo'[w] : Fits(cron[s], plan[w][s])'
  BY FitsLater DEF FInv, CInv, tickVars
<1>3. \A u \in Users : PatchOf(u)'
  BY FitsLater DEF FInv, CInv, PatchOf
<1> QED
  BY <1>1, <1>2, <1>3 DEF FInv

\* The materializer leaves the expressions and the PATCHes alone.
LEMMA FitRows ==
  ASSUME FInv, CInv', UNCHANGED <<now, live, cron, patch>>,
         \A s \in live : nextRun'[s] # nextRun[s] => Fits(cron[s], nextRun'[s]),
         \A w \in Tickers : \A s \in held'[w] \ todo'[w] :
            (s \notin held[w] \ todo[w] \/ plan'[w][s] # plan[w][s])
                => Fits(cron[s], plan'[w][s])
  PROVE  FInv'
<1>1. \A s \in live' : Fits(cron[s], nextRun[s])'
  BY DEF FInv, Fits
<1>2. \A w \in Tickers : \A s \in held'[w] \ todo'[w] : Fits(cron[s], plan[w][s])'
  BY DEF FInv, Fits
<1>3. \A u \in Users : PatchOf(u)'
  BY DEF FInv, PatchOf, Fits
<1> QED
  BY <1>1, <1>2, <1>3 DEF FInv

\* A materializer's transaction keeps the invariant.
LEMMA FitTx ==
  ASSUME FInv, NEW w \in Tickers,
         \/ LockDue(w)
         \/ \E s \in Schedules : Advance(w, s)
         \/ CommitRows(w)
         \/ Rollback(w)
  PROVE  FInv'
<1>1. CInv'
  BY LockDueStep, AdvanceStep, CommitStep, RollbackStep DEF FInv
<1>2. CASE LockDue(w)
  <2>1. \A v \in Tickers : \A s \in held'[v] \ todo'[v] :
            s \in held[v] \ todo[v] /\ plan'[v][s] = plan[v][s]
    BY <1>2 DEF LockDue, FInv, CInv, CronTypeOK
  <2> QED
    BY <1>1, <1>2, <2>1, FitRows DEF LockDue, rowVars
<1>3. ASSUME NEW s \in Schedules, Advance(w, s) PROVE FInv'
  <2>1. Fits(cron[s], NextCronRun(cron[s], AppNow))
    BY FitsNow DEF FInv, CInv
  <2>2. \A v \in Tickers : \A r \in held'[v] \ todo'[v] :
            \/ r \in held[v] \ todo[v] /\ plan'[v][r] = plan[v][r]
            \/ r = s /\ plan'[v][r] = NextCronRun(cron[s], AppNow)
    BY <1>3 DEF Advance, FInv, CInv, CronTypeOK
  <2> QED
    BY <1>1, <1>3, <2>1, <2>2, FitRows DEF Advance, rowVars
<1>4. CASE CommitRows(w)
  <2>1. \A s \in live : nextRun'[s] # nextRun[s] => Fits(cron[s], nextRun'[s])
    BY <1>4 DEF CommitRows, FInv, CInv, CronTypeOK
  <2>2. \A v \in Tickers : \A s \in held'[v] \ todo'[v] :
            s \in held[v] \ todo[v] /\ plan'[v][s] = plan[v][s]
    BY <1>4 DEF CommitRows, EndTx, FInv, CInv, CronTypeOK
  <2> QED
    BY <1>1, <1>4, <2>1, <2>2, FitRows DEF CommitRows
<1>5. CASE Rollback(w)
  <2>1. \A v \in Tickers : \A s \in held'[v] \ todo'[v] :
            s \in held[v] \ todo[v] /\ plan'[v][s] = plan[v][s]
    BY <1>5 DEF Rollback, EndTx, FInv, CInv, CronTypeOK
  <2> QED
    BY <1>1, <1>5, <2>1, FitRows DEF Rollback, rowVars
<1> QED
  BY <1>2, <1>3, <1>4, <1>5

\* What a user writes to row s fits, if s is held by nobody and no PATCH that keeps
\* the timing is under way for it.
LEMMA FitUser ==
  ASSUME FInv, CInv', NEW s \in Schedules, UNCHANGED <<now, tickVars>>,
         \A r \in Schedules : r # s =>
            (r \in live' => r \in live) /\ cron'[r] = cron[r] /\ nextRun'[r] = nextRun[r],
         s \in live' => Fits(cron'[s], nextRun'[s]),
         \A w \in Tickers : s \notin held[w],
         \A u \in Users : patch'[u].stage # "none" => patch'[u] = patch[u]
            /\ (patch[u].on = s /\ ~patch[u].timing => s \notin live')
  PROVE  FInv'
<1>1. \A r \in live' : Fits(cron[r], nextRun[r])'
  BY DEF FInv, CInv, CronTypeOK, Fits
<1>2. \A w \in Tickers : \A r \in held'[w] \ todo'[w] : Fits(cron[r], plan[w][r])'
  <2>1. \A w \in Tickers : \A r \in held[w] : r \in Schedules /\ r # s
    BY DEF FInv, CInv, CronTypeOK
  <2> QED
    BY <2>1 DEF FInv, Fits, tickVars
<1>3. ASSUME NEW u \in Users, patch'[u].stage # "none" PROVE PatchOf(u)'
  <2>1. patch'[u] = patch[u] /\ patch[u].on \in Schedules
    BY <1>3, PatchFields DEF FInv, CInv, Patches
  <2> QED
    BY <1>3, <2>1 DEF FInv, PatchOf, Fits
<1> QED
  BY <1>1, <1>2, <1>3 DEF FInv, PatchOf

\* What a PATCH does before its UPDATE concerns itself alone.
LEMMA FitPatch ==
  ASSUME FInv, CInv', NEW u \in Users, UNCHANGED <<now, live, cron, nextRun, tickVars>>,
         \A v \in Users : v # u => patch'[v] = patch[v],
         PatchOf(u)'
  PROVE  FInv'
<1>1. \A r \in live' : Fits(cron[r], nextRun[r])'
  BY DEF FInv, Fits
<1>2. \A w \in Tickers : \A r \in held'[w] \ todo'[w] : Fits(cron[r], plan[w][r])'
  BY DEF FInv, Fits, tickVars
<1>3. \A v \in Users : PatchOf(v)'
  BY DEF FInv, PatchOf, Fits
<1> QED
  BY <1>1, <1>2, <1>3 DEF FInv

\* The routes keep the invariant, as long as PATCHes do not overlap.
LEMMA FitUserStep ==
  ASSUME FInv, UserStep, \A u, v \in Users : u = v
  PROVE  FInv'
<1>1. CInv'
  BY UserKeepsCInv DEF FInv
<1>2. ASSUME NEW s \in Schedules, CreateSchedule(s) PROVE FInv'
  <2>1. PICK c \in Crons :
            /\ cron' = [cron EXCEPT ![s] = c]
            /\ nextRun' = [nextRun EXCEPT ![s] = NextCronRun(c, AppNow)]
    BY <1>2 DEF CreateSchedule
  <2>2. Fits(cron'[s], nextRun'[s])
    BY <2>1, FitsNow DEF FInv, CInv, CronTypeOK
  <2>3. \A w \in Tickers : s \notin held[w]
    BY <1>2 DEF CreateSchedule, FInv, CInv, HeldOf
  <2>4. \A r \in Schedules : r # s =>
            (r \in live' => r \in live) /\ cron'[r] = cron[r] /\ nextRun'[r] = nextRun[r]
    BY <1>2, <2>1 DEF CreateSchedule, FInv, CInv, CronTypeOK
  <2> QED
    BY <1>1, <1>2, <2>2, <2>3, <2>4, FitUser DEF CreateSchedule
<1>3. ASSUME NEW s \in Schedules, DeleteSchedule(s) PROVE FInv'
  <2>1. \A r \in Schedules : r # s =>
            (r \in live' => r \in live) /\ cron'[r] = cron[r] /\ nextRun'[r] = nextRun[r]
    BY <1>3 DEF DeleteSchedule, FInv, CInv, CronTypeOK
  <2> QED
    BY <1>1, <1>3, <2>1, FitUser DEF DeleteSchedule, Unlocked
<1>4. ASSUME NEW u \in Users, NEW s \in Schedules, PatchRead(u, s) PROVE FInv'
  <2>1. PatchOf(u)'
    BY <1>4 DEF PatchRead, PatchOf, rowVars, FInv, CInv, CronTypeOK
  <2> QED
    BY <1>1, <1>4, <2>1, FitPatch DEF PatchRead, rowVars
<1>5. ASSUME NEW u \in Users, PatchSend(u) PROVE FInv'
  <2>1. patch[u] \in Patches
    BY <1>5, PatchFields DEF FInv, CInv, PatchSend
  <2>2. /\ patch'[u].on = patch[u].on /\ patch'[u].cron = patch[u].cron
        /\ patch'[u].timing = patch[u].timing
        /\ patch[u].timing => patch'[u].next = NextCronRun(patch[u].cron, AppNow)
    BY <1>5, <2>1 DEF PatchSend, FInv, CInv, CronTypeOK, Patches
  <2>3. PatchOf(u)'
    <3>1. Fits(patch[u].cron, NextCronRun(patch[u].cron, AppNow))
      BY FitsNow DEF FInv, CInv
    <3>2. patch[u].timing => Fits(patch[u].cron, patch[u].next)'
      BY <1>5, <2>2, <3>1 DEF PatchSend, Fits
    <3>3. ~patch[u].timing /\ patch[u].on \in live => patch[u].cron = cron[patch[u].on]
      BY <1>5 DEF PatchSend, PatchOf, FInv
    <3> QED
      BY <1>5, <2>2, <3>2, <3>3 DEF PatchSend, PatchOf, rowVars
  <2> QED
    BY <1>1, <1>5, <2>3, FitPatch DEF PatchSend, rowVars
<1>6. ASSUME NEW u \in Users, PatchUpdate(u) PROVE FInv'
  <2> DEFINE s == patch[u].on
  <2>1. patch[u] \in Patches /\ s \in Schedules
    BY <1>6, PatchFields DEF FInv, CInv, PatchUpdate, Patches
  <2>2. patch'[u] = NoPatch
    BY <1>6 DEF PatchUpdate, FInv, CInv, CronTypeOK
  <2>3. s \in live => Fits(cron'[s], nextRun'[s])
    BY <1>6, <2>1 DEF PatchUpdate, FInv, CInv, CronTypeOK, PatchOf
  <2>4. \A r \in Schedules : r # s => cron'[r] = cron[r] /\ nextRun'[r] = nextRun[r]
    BY <1>6 DEF PatchUpdate, FInv, CInv, CronTypeOK
  <2>5. \A v \in Users : patch'[v].stage = "none"
    BY <2>2 DEF NoPatch
  <2> QED
    BY <1>1, <1>6, <2>1, <2>3, <2>4, <2>5, FitUser DEF PatchUpdate, Unlocked
<1> QED
  BY <1>2, <1>3, <1>4, <1>5, <1>6 DEF UserStep

\* Every step keeps the invariant.
LEMMA FitStep ==
  ASSUME \A u, v \in Users : u = v
  PROVE  FInv /\ [CronNext]_cronVars => FInv'
<1> SUFFICES ASSUME FInv, [CronNext]_cronVars PROVE FInv'
  OBVIOUS
<1>1. CInv'
  BY CronStepCInv DEF FInv
<1>2. CASE UNCHANGED cronVars
  BY <1>1, <1>2, FitKept DEF cronVars, rowVars, FInv, CInv, CronTypeOK
<1>3. CASE ClockTick
  BY <1>1, <1>3, FitKept DEF ClockTick, rowVars, FInv, CInv, CronTypeOK
<1> QED
  BY <1>2, <1>3, FitTx, FitUserStep DEF CronNext

\* The next run of a schedule was computed from its expression, although a
\* materializer and a PATCH may race for it, as long as one PATCH is handled at a
\* time.
THEOREM FitCorrect ==
  ASSUME \A u, v \in Users : u = v
  PROVE  Spec => []NextFitsExpression
<1>1. CronInit => FInv
  BY FitInitial
<1>2. FInv /\ [CronNext]_cronVars => FInv'
  BY FitStep
<1>3. FInv => NextFitsExpression
  BY DEF FInv, Fits, NextFitsExpression
<1> QED
  BY <1>1, <1>2, <1>3, ImplementsCron, PTL DEF CronSpec
=============================================================================
