-------------------------- MODULE QueueClaimProofs --------------------------
(***************************************************************************)
(* Proofs about QueueClaim, for every set of queues, jobs and workers,     *)
(* every capacity and every set of limits.                                 *)
(*                                                                         *)
(* The limits are only checked where a claim commits, but what is compared *)
(* was counted three statements earlier.  BudgetOf and RateOf say that the *)
(* count a claimer holds is still good: nobody else can add an active job  *)
(* or a claim of this second to the queue while it holds the queue's lock, *)
(* which LockOf says it does.  IInv is the conjunction.                    *)
(***************************************************************************)
EXTENDS QueueClaim, FiniteSetTheorems, TLAPS

\* The claimer inside the critical section of a queue is the lock's holder.
LockOf(w) ==
    /\ pc[w] \in InTx => cur[w] \in Queues
    /\ pc[w] \in Inside => lock[cur[w]] = w
    /\ \A q \in Queues : lock[q] = w => pc[w] \in Inside /\ cur[w] = q
    /\ pc[w] # "commit" => taken[w] = {}

RowsOf(w) ==
    \A j \in taken[w] : QueueOf[j] = cur[w] /\ status[j] = "queued" /\ j \notin cancelling

\* The slots it holds, or the rows it has taken, fit the limit it has read.
BudgetOf(w) ==
    /\ pc[w] \in Inside => seen[w].max \in Limits /\ seen[w].max <= peak[cur[w]]
    /\ pc[w] \in {"rate", "update"} =>
          Cardinality(Active(cur[w])) + slots[w] <= seen[w].max
    /\ pc[w] = "commit" =>
          Cardinality(Active(cur[w])) + Cardinality(taken[w]) <= seen[w].max

\* Rate limit r is within rate limit s.
Within(r, s) == s # None => r # None /\ r <= s

RateOf(w) ==
    /\ pc[w] \in Inside => seen[w].rate \in Rates /\ Within(seen[w].rate, peakRate[cur[w]])
    /\ pc[w] = "rate" => seen[w].rate # None
    /\ pc[w] = "update" /\ seen[w].rate # None =>
          Cardinality(Recent(cur[w], age[w])) + slots[w] <= seen[w].rate
    /\ pc[w] = "commit" /\ seen[w].rate # None =>
          Cardinality(Recent(cur[w], age[w])) + Cardinality(taken[w]) <= seen[w].rate

ClaimedIn(q, a) == {j \in JobsOf(q) : claimedAt[j] = a}

\* The limits a queue has, and what it holds, are within its peaks.
QueueInv(q) ==
    /\ maxConc[q] <= peak[q]
    /\ Within(rate[q], peakRate[q])
    /\ Cardinality(Active(q)) <= peak[q]
    /\ \A a \in Ages : peakRate[q] # None => Cardinality(ClaimedIn(q, a)) <= peakRate[q]

\* The inductive invariant.
IInv ==
    /\ TypeOK
    /\ \A w \in Workers : LockOf(w)
    /\ \A w \in Workers : RowsOf(w)
    /\ \A w \in Workers : BudgetOf(w)
    /\ \A w \in Workers : RateOf(w)
    /\ \A q \in Queues : QueueInv(q)
    /\ \A j \in Jobs : claimedAt[j] \in {None, sentAt[j]}


\* What the invariant says of one claimer.
ClaimerInv(w) == LockOf(w) /\ RowsOf(w) /\ BudgetOf(w) /\ RateOf(w)

-----------------------------------------------------------------------------

\* A set of jobs has at least as many elements as its subsets.
LEMMA SubsetCount ==
  ASSUME NEW S \in SUBSET Jobs, NEW T \in SUBSET S
  PROVE  /\ Cardinality(S) \in Nat /\ Cardinality(T) \in Nat
         /\ Cardinality(T) <= Cardinality(S)
<1>1. IsFiniteSet(S)
  BY JobsAssumption, FS_Subset
<1>2. IsFiniteSet(T) /\ Cardinality(T) <= Cardinality(S)
  BY <1>1, FS_Subset
<1> QED
  BY <1>1, <1>2, FS_CardinalityType

\* A union has at most as many elements as its parts together.
LEMMA UnionCount ==
  ASSUME NEW S \in SUBSET Jobs, NEW T \in SUBSET Jobs
  PROVE  Cardinality(S \cup T) <= Cardinality(S) + Cardinality(T)
<1>1. IsFiniteSet(S) /\ IsFiniteSet(T)
  BY JobsAssumption, FS_Subset
<1>2. Cardinality(S \cup T) = Cardinality(S) + Cardinality(T) - Cardinality(S \cap T)
  BY <1>1, FS_Union
<1>3. Cardinality(S) \in Nat /\ Cardinality(T) \in Nat /\ Cardinality(S \cap T) \in Nat
  BY SubsetCount
<1> QED
  BY <1>2, <1>3

\* What is counted is counted in numbers.
LEMMA Counts ==
  /\ \A q : Active(q) \in SUBSET Jobs /\ Cardinality(Active(q)) \in Nat
  /\ \A q, a : Recent(q, a) \in SUBSET Jobs /\ Cardinality(Recent(q, a)) \in Nat
  /\ \A q, a : ClaimedIn(q, a) \in SUBSET Jobs /\ Cardinality(ClaimedIn(q, a)) \in Nat
<1>1. /\ \A q : Active(q) \in SUBSET Jobs
      /\ \A q, a : Recent(q, a) \in SUBSET Jobs
      /\ \A q, a : ClaimedIn(q, a) \in SUBSET Jobs
  BY DEF Active, Recent, ClaimedIn, JobsOf
<1> QED
  BY <1>1, SubsetCount

\* The initial states satisfy the inductive invariant.
LEMMA InitIInv == Init => IInv
<1> SUFFICES ASSUME Init PROVE IInv
  OBVIOUS
<1>1. TypeOK
  BY CapacityAssumption, LimitsAssumption, RatesAssumption, BoundAssumption
  DEF Init, TypeOK, JobStatus, Ages, InTx, Inside, Unread
<1>2. \A w \in Workers : ClaimerInv(w)
  BY NoneAssumption
  DEF Init, ClaimerInv, LockOf, RowsOf, BudgetOf, RateOf, InTx, Inside
<1>3. ASSUME NEW q \in Queues PROVE QueueInv(q)
  <2>1. /\ \A j \in Jobs : status[j] = "new" /\ claimedAt[j] = None
        /\ maxConc \in [Queues -> Limits] /\ peak = maxConc
        /\ rate \in [Queues -> Rates] /\ peakRate = rate
    BY DEF Init
  <2>2. Active(q) = {}
    BY <2>1 DEF Active, JobsOf
  <2>3. \A a \in Ages : a # None
    BY NoneAssumption DEF Ages
  <2>4. \A a \in Ages : ClaimedIn(q, a) = {}
    BY <2>1, <2>3 DEF ClaimedIn, JobsOf
  <2>5. maxConc[q] \in Nat /\ maxConc[q] = peak[q]
    BY <2>1, LimitsAssumption
  <2>6. rate[q] = peakRate[q] /\ (rate[q] # None => rate[q] \in Nat)
    BY <2>1, RatesAssumption
  <2> QED
    BY <2>2, <2>4, <2>5, <2>6, FS_EmptySet DEF QueueInv, Within
<1>4. \A j \in Jobs : claimedAt[j] \in {None, sentAt[j]}
  BY DEF Init
<1> QED
  BY <1>1, <1>2, <1>3, <1>4 DEF IInv, ClaimerInv

-----------------------------------------------------------------------------
\* Types.

\* A claimer's call keeps the types.
LEMMA ClaimTypes ==
  ASSUME TypeOK, NEW w \in Workers, RateOf(w), ClaimStep(w) \/ Abort(w)
  PROVE  TypeOK'
<1> USE DEF Goto
<1>1. CASE Prescan(w)
  <2>1. 1..Capacity \subseteq 0..Capacity
    BY CapacityAssumption
  <2> QED
    BY <1>1, <2>1 DEF Prescan, TypeOK, queueVars, jobVars, txVars, InTx, Inside
<1>2. ASSUME NEW q \in Queues, Begin(w, q) PROVE TypeOK'
  BY <1>2 DEF Begin, TypeOK, queueVars, jobVars, InTx, Inside
<1>3. CASE Return(w)
  BY <1>3, CapacityAssumption DEF Return, TypeOK, queueVars, jobVars, txVars, InTx, Inside
<1>4. CASE LockQueue(w)
  <2>1. cur[w] \in Queues /\ maxConc[cur[w]] \in Limits /\ rate[cur[w]] \in Rates
    BY <1>4 DEF LockQueue, TypeOK
  <2> QED
    BY <1>4, <2>1 DEF LockQueue, TypeOK, queueVars, jobVars, callVars, InTx, Inside
<1>5. ASSUME EndTx(w) PROVE
          /\ lock' \in [Queues -> Workers \cup {None}]
          /\ cur' \in [Workers -> Queues \cup {None}] /\ age' \in [Workers -> Ages]
          /\ seen' \in [Workers -> [max : Limits \cup {0}, rate : Rates \cup {None}]]
          /\ slots' \in [Workers -> Int] /\ taken' \in [Workers -> SUBSET Jobs]
  BY <1>5 DEF EndTx, TypeOK, Unread, Ages
<1>6. CASE SkipQueue(w)
  BY <1>5, <1>6 DEF SkipQueue, TypeOK, queueVars, jobVars, callVars, InTx, Inside
<1>7. seen[w].max \in Nat /\ seen[w].rate \in Rates \cup {None}
  <2>1. seen[w] \in [max : Limits \cup {0}, rate : Rates \cup {None}]
    BY DEF TypeOK
  <2>2. seen[w].max \in Limits \cup {0} /\ seen[w].rate \in Rates \cup {None}
    BY <2>1
  <2>3. Limits \cup {0} \subseteq Nat
    BY LimitsAssumption
  <2> QED
    BY <2>2, <2>3
<1>8. CASE CountActive(w)
  <2>1. want[w] - Cardinality(got[w]) \in Int
    <3>1. got[w] \in SUBSET Jobs /\ want[w] \in Int
      BY CapacityAssumption DEF TypeOK
    <3> QED
      BY <3>1, SubsetCount
  <2>2. seen[w].max - Cardinality(Active(cur[w])) \in Int
    BY <1>7, Counts
  <2>3. slots' \in [Workers -> Int]
    BY <1>8, <2>1, <2>2 DEF CountActive, TypeOK, Lesser
  <2>4. pc' \in [Workers -> {"idle", "scan"} \cup InTx]
    BY <1>8 DEF CountActive, TypeOK, InTx, Inside
  <2> QED
    BY <1>8, <2>3, <2>4 DEF CountActive, TypeOK, queueVars, jobVars, callVars
<1>9. CASE CountRecent(w)
  <2>1. slots[w] \in Int /\ Cardinality(Recent(cur[w], age[w])) \in Int
    BY Counts DEF TypeOK
  <2>2. Lesser(slots[w], seen[w].rate - Cardinality(Recent(cur[w], age[w]))) \in Int
    <3>1. seen[w].rate \in Nat
      BY <1>7, <1>9, RatesAssumption DEF RateOf, CountRecent
    <3>2. seen[w].rate - Cardinality(Recent(cur[w], age[w])) \in Int
      BY <2>1, <3>1
    <3> QED
      BY <2>1, <3>2 DEF Lesser
  <2> QED
    BY <1>9, <2>2 DEF CountRecent, TypeOK, queueVars, jobVars, callVars, InTx, Inside
<1>10. CASE NoSlots(w)
  BY <1>5, <1>10 DEF NoSlots, TypeOK, queueVars, jobVars, callVars, InTx, Inside
<1>11. CASE TakeRows(w)
  <2>1. taken' \in [Workers -> SUBSET Jobs]
    BY <1>11 DEF TakeRows, TypeOK, Claimable, JobsOf
  <2> QED
    BY <1>11, <2>1 DEF TakeRows, TypeOK, queueVars, jobVars, callVars, InTx, Inside
<1>12. CASE Commit(w)
  <2>1. taken[w] \in SUBSET Jobs /\ age[w] \in Ages
    BY DEF TypeOK
  <2>2. status' \in [Jobs -> JobStatus]
    BY <1>12 DEF Commit, TypeOK, JobStatus
  <2>3. claimedAt' \in [Jobs -> Ages \cup {None}] /\ sentAt' \in [Jobs -> Ages \cup {None}]
    BY <1>12, <2>1 DEF Commit, TypeOK
  <2>4. got' \in [Workers -> SUBSET Jobs]
    BY <1>12, <2>1 DEF Commit, TypeOK
  <2> QED
    BY <1>5, <1>12, <2>2, <2>3, <2>4 DEF Commit, TypeOK, queueVars, InTx, Inside
<1>13. CASE Abort(w)
  BY <1>5, <1>13, CapacityAssumption, BoundAssumption
  DEF Abort, Upset, TypeOK, queueVars, jobVars, InTx, Inside
<1> QED
  BY <1>1, <1>2, <1>3, <1>4, <1>6, <1>8, <1>9, <1>10, <1>11, <1>12, <1>13 DEF ClaimStep

\* The other writers of jobs keep the types.
LEMMA WriteTypes == ASSUME TypeOK, NEW j \in Jobs, WriteStep(j) PROVE TypeOK'
<1> USE DEF queueVars, claimerVars, callVars, txVars, SetStatus
<1>1. ASSUME NEW from, NEW to \in JobStatus, Move(j, from, to)
      PROVE  status' \in [Jobs -> JobStatus]
  BY <1>1 DEF Move, TypeOK
<1>2. CASE Enqueue(j)
  BY <1>1, <1>2 DEF Enqueue, Move, TypeOK, JobStatus
<1>3. CASE Promote(j)
  BY <1>1, <1>3 DEF Promote, Move, TypeOK, JobStatus
<1>4. CASE Succeed(j)
  BY <1>1, <1>4 DEF Succeed, Move, TypeOK, JobStatus
<1>5. CASE Bury(j)
  BY <1>1, <1>5 DEF Bury, Move, TypeOK, JobStatus
<1>6. CASE Retry(j)
  BY <1>1, <1>6, BoundAssumption DEF Retry, PutBack, Upset, Move, TypeOK, JobStatus
<1>7. CASE Requeue(j)
  BY <1>1, <1>7, BoundAssumption DEF Requeue, PutBack, Upset, Move, TypeOK, JobStatus
<1>8. CASE RetryNow(j)
  BY <1>1, <1>8, BoundAssumption DEF RetryNow, PutBack, Upset, Move, TypeOK, JobStatus
<1>9. CASE CancelUpdate(j)
  BY <1>9 DEF CancelUpdate, TypeOK
<1>10. CASE CancelCommit(j)
  BY <1>10 DEF CancelCommit, TypeOK, JobStatus
<1> QED
  BY <1>2, <1>3, <1>4, <1>5, <1>6, <1>7, <1>8, <1>9, <1>10 DEF WriteStep

\* Raising a limit gives one of the two limits, or no limit.
LEMMA RaiseLimit ==
  ASSUME NEW S \in SUBSET (Nat \cup {None}), NEW r \in S, NEW s \in S
  PROVE  Raise(r, s) \in {r, s} /\ Within(r, Raise(r, s)) /\ Within(s, Raise(r, s))
<1>1. CASE r = None \/ s = None
  BY <1>1 DEF Raise, Within
<1>2. CASE r # None /\ s # None
  <2>1. r \in Nat /\ s \in Nat
    BY <1>2
  <2> QED
    BY <1>2, <2>1 DEF Raise, Within
<1> QED
  BY <1>1, <1>2

\* Administration keeps the types.
LEMMA AdminTypes == ASSUME TypeOK, NEW q \in Queues, AdminStep(q) PROVE TypeOK'
<1> USE DEF jobVars, claimerVars, callVars, txVars, Upset
<1>1. ASSUME NEW m \in Limits, NEW r \in Rates, Patch(q, m, r) PROVE TypeOK'
  <2>1. Raise(peak[q], m) \in Limits
    <3>1. peak[q] \in Limits
      BY DEF TypeOK
    <3>2. Limits \in SUBSET (Nat \cup {None})
      BY LimitsAssumption
    <3>3. Raise(peak[q], m) \in {peak[q], m}
      BY <3>1, <3>2, RaiseLimit
    <3> QED
      BY <3>1, <3>3
  <2>2. Raise(peakRate[q], r) \in Rates
    <3>1. peakRate[q] \in Rates
      BY DEF TypeOK
    <3>2. Rates \in SUBSET (Nat \cup {None})
      BY RatesAssumption
    <3>3. Raise(peakRate[q], r) \in {peakRate[q], r}
      BY <3>1, <3>2, RaiseLimit
    <3> QED
      BY <3>1, <3>3
  <2> QED
    BY <1>1, <2>1, <2>2, BoundAssumption DEF Patch, TypeOK
<1>2. CASE Pause(q)
  BY <1>2, BoundAssumption DEF Pause, TypeOK
<1>3. CASE Resume(q)
  BY <1>3, BoundAssumption DEF Resume, TypeOK
<1>4. CASE DeleteCheck(q)
  BY <1>4, BoundAssumption DEF DeleteCheck, TypeOK
<1>5. CASE DeleteQueue(q)
  BY <1>5 DEF DeleteQueue, TypeOK, JobStatus
<1> QED
  BY <1>1, <1>2, <1>3, <1>4, <1>5 DEF AdminStep

\* A second that passes keeps the types.
LEMMA TickTypes == ASSUME TypeOK, Tick PROVE TypeOK'
<1>1. \A a \in Ages \cup {None} : Older(a) \in Ages \cup {None}
  BY DEF Older, Ages
<1> QED
  BY <1>1 DEF Tick, TypeOK, queueVars, callVars, Ages

\* Every step keeps the types.
LEMMA TypeStep == IInv /\ [Next]_vars => TypeOK'
<1> SUFFICES ASSUME IInv, [Next]_vars PROVE TypeOK'
  OBVIOUS
<1> USE DEF IInv
<1>1. CASE UNCHANGED vars
  BY <1>1 DEF vars, queueVars, jobVars, claimerVars, callVars, txVars, TypeOK
<1> QED
  BY <1>1, ClaimTypes, WriteTypes, AdminTypes, TickTypes DEF Next

-----------------------------------------------------------------------------
\* Frames.

\* A claimer outside the critical section holds nothing.
LEMMA Outside ==
  ASSUME NEW w, pc'[w] \in {"idle", "scan", "lock"}, taken'[w] = {},
         \A q \in Queues : lock'[q] # w,
         pc'[w] = "lock" => cur'[w] \in Queues
  PROVE  ClaimerInv(w)'
<1>1. LockOf(w)'
  BY DEF LockOf, InTx, Inside
<1>2. RowsOf(w)'
  BY DEF RowsOf
<1>3. BudgetOf(w)'
  BY DEF BudgetOf, Inside
<1>4. RateOf(w)'
  BY DEF RateOf, Inside
<1> QED
  BY <1>1, <1>2, <1>3, <1>4 DEF ClaimerInv

\* A claimer's invariant survives a step of anyone else: what it counted does not
\* grow, the peaks of its queue do not fall, and its rows stay as they are.
LEMMA Bystander ==
  ASSUME IInv, TypeOK', NEW w \in Workers,
         pc'[w] = pc[w], cur'[w] = cur[w], seen'[w] = seen[w],
         slots'[w] = slots[w], taken'[w] = taken[w],
         \A q \in Queues : lock'[q] = w <=> lock[q] = w,
         \A j \in taken[w] : status'[j] = status[j] /\ j \notin cancelling',
         pc[w] \in Inside =>
            /\ peak[cur[w]] <= peak'[cur[w]]
            /\ Within(peakRate[cur[w]], peakRate'[cur[w]])
            /\ Active(cur[w])' \subseteq Active(cur[w])
            /\ Recent(cur[w], age[w])' \subseteq Recent(cur[w], age[w])
  PROVE  ClaimerInv(w)'
<1>1. LockOf(w)'
  BY DEF IInv, LockOf, InTx
<1>2. RowsOf(w)'
  BY DEF IInv, RowsOf
<1>3. CASE pc[w] \notin Inside
  BY <1>1, <1>2, <1>3 DEF ClaimerInv, BudgetOf, RateOf, Inside
<1>4. CASE pc[w] \in Inside
  <2>1. cur[w] \in Queues /\ taken[w] \in SUBSET Jobs
    BY <1>4 DEF IInv, LockOf, TypeOK, InTx
  <2>2. /\ peak[cur[w]] \in Nat /\ peak'[cur[w]] \in Nat
        /\ seen[w].max \in Limits /\ seen[w].max \in Nat /\ seen[w].max <= peak[cur[w]]
        /\ slots[w] \in Int /\ Cardinality(taken[w]) \in Nat
    <3>1. peak[cur[w]] \in Limits /\ peak'[cur[w]] \in Limits
      BY <2>1 DEF IInv, TypeOK
    <3>2. seen[w].max \in Limits /\ seen[w].max <= peak[cur[w]]
      BY <1>4 DEF IInv, BudgetOf
    <3>3. slots[w] \in Int
      BY DEF IInv, TypeOK
    <3> QED
      BY <2>1, <3>1, <3>2, <3>3, LimitsAssumption, SubsetCount
  <2>3. Cardinality(Active(cur[w]))' <= Cardinality(Active(cur[w]))
    BY <1>4, Counts, SubsetCount
  <2>4. Cardinality(Recent(cur[w], age[w]))' <= Cardinality(Recent(cur[w], age[w]))
    BY <1>4, Counts, SubsetCount
  <2>5. /\ Cardinality(Active(cur[w])) \in Nat /\ Cardinality(Active(cur[w]))' \in Nat
        /\ Cardinality(Recent(cur[w], age[w])) \in Nat
        /\ Cardinality(Recent(cur[w], age[w]))' \in Nat
    <3>1. Active(cur[w])' \in SUBSET Jobs /\ Recent(cur[w], age[w])' \in SUBSET Jobs
      BY <1>4, Counts
    <3> QED
      BY <3>1, Counts, SubsetCount
  <2>6. BudgetOf(w)'
    <3>1. seen'[w].max \in Limits /\ seen'[w].max <= peak'[cur'[w]]
      BY <1>4, <2>2
    <3>2. pc'[w] \in {"rate", "update"} =>
              Cardinality(Active(cur[w]))' + slots'[w] <= seen'[w].max
      BY <2>2, <2>3, <2>5 DEF IInv, BudgetOf
    <3>3. pc'[w] = "commit" =>
              Cardinality(Active(cur[w]))' + Cardinality(taken'[w]) <= seen'[w].max
      <4>1. pc[w] = "commit" =>
                Cardinality(Active(cur[w])) + Cardinality(taken[w]) <= seen[w].max
        BY DEF IInv, BudgetOf
      <4>2. pc[w] = "commit" =>
                Cardinality(Active(cur[w]))' + Cardinality(taken[w]) <= seen[w].max
        BY <2>2, <2>3, <2>5, <4>1
      <4> QED
        BY <4>2
    <3> QED
      BY <3>1, <3>2, <3>3 DEF BudgetOf
  <2>7. RateOf(w)'
    <3>1. /\ seen[w].rate \in Rates /\ Within(seen[w].rate, peakRate[cur[w]])
          /\ seen[w].rate # None => seen[w].rate \in Nat
      BY <1>4, RatesAssumption DEF IInv, RateOf
    <3>2. /\ peakRate[cur[w]] # None => peakRate[cur[w]] \in Nat
          /\ peakRate'[cur[w]] # None => peakRate'[cur[w]] \in Nat
      BY <2>1, RatesAssumption DEF IInv, TypeOK
    <3>3. seen'[w].rate \in Rates /\ Within(seen'[w].rate, peakRate'[cur'[w]])
      BY <1>4, <3>1, <3>2 DEF Within
    <3>4. pc'[w] = "rate" => seen'[w].rate # None
      BY DEF IInv, RateOf
    <3>5. pc'[w] = "update" /\ seen'[w].rate # None =>
              Cardinality(Recent(cur[w], age[w]))' + slots'[w] <= seen'[w].rate
      <4>1. pc[w] = "update" /\ seen[w].rate # None =>
                Cardinality(Recent(cur[w], age[w])) + slots[w] <= seen[w].rate
        BY DEF IInv, RateOf
      <4>2. pc[w] = "update" /\ seen[w].rate # None =>
                Cardinality(Recent(cur[w], age[w]))' + slots[w] <= seen[w].rate
        BY <2>2, <2>4, <2>5, <3>1, <4>1
      <4> QED
        BY <4>2
    <3>6. pc'[w] = "commit" /\ seen'[w].rate # None =>
              Cardinality(Recent(cur[w], age[w]))' + Cardinality(taken'[w]) <= seen'[w].rate
      <4>1. pc[w] = "commit" /\ seen[w].rate # None =>
                Cardinality(Recent(cur[w], age[w])) + Cardinality(taken[w]) <= seen[w].rate
        BY DEF IInv, RateOf
      <4>2. pc[w] = "commit" /\ seen[w].rate # None =>
                Cardinality(Recent(cur[w], age[w]))' + Cardinality(taken[w]) <= seen[w].rate
        BY <2>2, <2>4, <2>5, <3>1, <4>1
      <4> QED
        BY <4>2
    <3> QED
      BY <3>3, <3>4, <3>5, <3>6 DEF RateOf
  <2> QED
    BY <1>1, <1>2, <2>6, <2>7 DEF ClaimerInv
<1> QED
  BY <1>3, <1>4

\* A queue's invariant survives a step that adds nothing to it.
LEMMA QueueFrame ==
  ASSUME IInv, NEW q \in Queues,
         maxConc'[q] = maxConc[q], peak'[q] = peak[q],
         rate'[q] = rate[q], peakRate'[q] = peakRate[q],
         Active(q)' \subseteq Active(q),
         \A a \in Ages : ClaimedIn(q, a)' \subseteq ClaimedIn(q, a)
  PROVE  QueueInv(q)'
<1>1. QueueInv(q) /\ peak[q] \in Nat /\ (peakRate[q] # None => peakRate[q] \in Nat)
  BY LimitsAssumption, RatesAssumption DEF IInv, TypeOK
<1>2. /\ Cardinality(Active(q)') <= Cardinality(Active(q))
      /\ Cardinality(Active(q)') \in Nat /\ Cardinality(Active(q)) \in Nat
  BY Counts, SubsetCount
<1>3. ASSUME NEW a \in Ages
      PROVE  /\ Cardinality(ClaimedIn(q, a)') <= Cardinality(ClaimedIn(q, a))
             /\ Cardinality(ClaimedIn(q, a)') \in Nat /\ Cardinality(ClaimedIn(q, a)) \in Nat
  BY Counts, SubsetCount
<1>4. Cardinality(Active(q)') <= peak'[q]
  BY <1>1, <1>2 DEF QueueInv
<1>5. \A a \in Ages : peakRate'[q] # None => Cardinality(ClaimedIn(q, a)') <= peakRate'[q]
  BY <1>1, <1>3 DEF QueueInv
<1>6. maxConc'[q] <= peak'[q] /\ Within(rate'[q], peakRate'[q])
  BY <1>1 DEF QueueInv
<1> QED
  BY <1>4, <1>5, <1>6 DEF QueueInv

-----------------------------------------------------------------------------
\* Steps of everybody but the claimers.

\* Jobs leave the active state, or lose their claim time, and no row that a claim
\* has locked is touched.
OnlyLess ==
    /\ UNCHANGED <<maxConc, rate, peak, peakRate>>
    /\ UNCHANGED <<pc, cur, age, seen, slots, taken, lock>>
    /\ UNCHANGED sentAt
    /\ \A k \in Jobs : status'[k] = "active" => status[k] = "active"
    /\ \A k \in Jobs : claimedAt'[k] \in {None, claimedAt[k]}
    /\ \A w \in Workers : \A k \in taken[w] : status'[k] = status[k] /\ k \notin cancelling'

\* A step that only takes away preserves the invariant.
LEMMA LessKeepsIInv == ASSUME IInv, TypeOK', OnlyLess PROVE IInv'
<1>1. \A q : Active(q)' \subseteq Active(q)
  BY DEF OnlyLess, Active, JobsOf
<1>2. \A q, a : Recent(q, a)' \subseteq Recent(q, a)
  BY DEF OnlyLess, Recent, JobsOf
<1>3. \A a \in Ages : a # None
  BY NoneAssumption DEF Ages
<1>4. \A q : \A a \in Ages : ClaimedIn(q, a)' \subseteq ClaimedIn(q, a)
  BY <1>3 DEF OnlyLess, ClaimedIn, JobsOf
<1>5. ASSUME NEW w \in Workers PROVE ClaimerInv(w)'
  <2>1. pc[w] \in Inside => cur[w] \in Queues
    BY DEF IInv, LockOf, InTx
  <2>2. pc[w] \in Inside => /\ peak[cur[w]] \in Nat
                            /\ peakRate[cur[w]] # None => peakRate[cur[w]] \in Nat
    BY <2>1, LimitsAssumption, RatesAssumption DEF IInv, TypeOK
  <2>3. pc[w] \in Inside => /\ peak[cur[w]] <= peak'[cur[w]]
                            /\ Within(peakRate[cur[w]], peakRate'[cur[w]])
    BY <2>2 DEF OnlyLess, Within
  <2>4. Active(cur[w])' \subseteq Active(cur[w])
    BY <1>1 DEF OnlyLess, Active, JobsOf
  <2>5. Recent(cur[w], age[w])' \subseteq Recent(cur[w], age[w])
    BY <1>2 DEF OnlyLess, Recent, JobsOf
  <2> QED
    BY <2>3, <2>4, <2>5, Bystander DEF OnlyLess
<1>6. ASSUME NEW q \in Queues PROVE QueueInv(q)'
  <2>1. /\ maxConc'[q] = maxConc[q] /\ peak'[q] = peak[q]
        /\ rate'[q] = rate[q] /\ peakRate'[q] = peakRate[q]
    BY DEF OnlyLess
  <2> QED
    BY <1>1, <1>4, <2>1, QueueFrame
<1>7. \A j \in Jobs : claimedAt'[j] \in {None, sentAt'[j]}
  BY DEF IInv, OnlyLess
<1> QED
  BY <1>5, <1>6, <1>7 DEF IInv, ClaimerInv

\* The rows a claim has locked are queued, and no free row is among them.
LEMMA LockedRows ==
  ASSUME IInv, NEW w \in Workers, NEW k \in taken[w]
  PROVE  /\ k \in Jobs /\ status[k] = "queued" /\ k \notin cancelling
         /\ ~ Free(k)
  BY DEF IInv, TypeOK, RowsOf, Free, Taken

\* The other writers of jobs only take away.
LEMMA WriteOnlyLess == ASSUME IInv, NEW j \in Jobs, WriteStep(j) PROVE OnlyLess
<1> USE DEF queueVars, claimerVars, callVars, txVars, SetStatus
<1>1. status \in [Jobs -> JobStatus] /\ claimedAt \in [Jobs -> Ages \cup {None}]
  BY DEF IInv, TypeOK
<1>2. ASSUME NEW from, NEW to, to # "active", Move(j, from, to),
             \A k \in Jobs : claimedAt'[k] \in {None, claimedAt[k]}
      PROVE  OnlyLess
  BY <1>1, <1>2, LockedRows DEF OnlyLess, Move
<1>3. ASSUME UNCHANGED claimedAt PROVE \A k \in Jobs : claimedAt'[k] \in {None, claimedAt[k]}
  BY <1>3
<1>4. ASSUME claimedAt' = [claimedAt EXCEPT ![j] = None]
      PROVE  \A k \in Jobs : claimedAt'[k] \in {None, claimedAt[k]}
  BY <1>1, <1>4
<1>5. CASE Enqueue(j)
  BY <1>2, <1>3, <1>5 DEF Enqueue
<1>6. CASE Promote(j) \/ Succeed(j)
  BY <1>2, <1>3, <1>6 DEF Promote, Succeed
<1>7. CASE Bury(j)
  BY <1>2, <1>4, <1>7 DEF Bury
<1>8. CASE Retry(j) \/ Requeue(j) \/ RetryNow(j)
  BY <1>2, <1>4, <1>8 DEF Retry, Requeue, RetryNow, PutBack
<1>9. CASE CancelUpdate(j)
  BY <1>3, <1>9, LockedRows DEF CancelUpdate, OnlyLess
<1>10. CASE CancelCommit(j)
  BY <1>1, <1>3, <1>10, LockedRows DEF CancelCommit, OnlyLess
<1> QED
  BY <1>5, <1>6, <1>7, <1>8, <1>9, <1>10 DEF WriteStep

\* So do pausing, resuming and deleting a queue.
LEMMA AdminOnlyLess ==
  ASSUME IInv, NEW q \in Queues, Pause(q) \/ Resume(q) \/ DeleteCheck(q) \/ DeleteQueue(q)
  PROVE  OnlyLess
<1> USE DEF queueVars, jobVars, claimerVars, callVars, txVars
<1>1. CASE Pause(q) \/ Resume(q) \/ DeleteCheck(q)
  BY <1>1, LockedRows DEF Pause, Resume, DeleteCheck, OnlyLess
<1>2. CASE DeleteQueue(q)
  <2>1. \A w \in Workers : \A k \in taken[w] : k \in Jobs /\ QueueOf[k] # q
    BY <1>2, LockedRows DEF DeleteQueue, JobsOf
  <2> QED
    BY <1>2, <2>1, LockedRows DEF DeleteQueue, OnlyLess
<1> QED
  BY <1>1, <1>2

\* A new limit may lower the peaks only of a queue that holds nothing.
LEMMA PatchKeepsIInv ==
  ASSUME IInv, TypeOK', NEW q \in Queues, NEW m \in Limits, NEW r \in Rates, Patch(q, m, r)
  PROVE  IInv'
<1> USE DEF jobVars, claimerVars, callVars, txVars
<1>1. /\ UNCHANGED <<jobVars, claimerVars>>
      /\ maxConc' = [maxConc EXCEPT ![q] = m] /\ rate' = [rate EXCEPT ![q] = r]
  BY DEF Patch
<1>2. /\ peak \in [Queues -> Limits] /\ peakRate \in [Queues -> Rates]
      /\ maxConc \in [Queues -> Limits] /\ rate \in [Queues -> Rates]
  BY DEF IInv, TypeOK
<1>3. Limits \in SUBSET (Nat \cup {None}) /\ Rates \in SUBSET (Nat \cup {None})
  BY LimitsAssumption, RatesAssumption
<1>4. \A k \in Limits : k \in Nat /\ k # None
  BY LimitsAssumption, NoneAssumption
<1>5. /\ Within(peak[q], Raise(peak[q], m)) /\ Within(m, Raise(peak[q], m))
      /\ Raise(peak[q], m) \in Limits
  <2>1. peak[q] \in Limits
    BY <1>2
  <2>2. /\ Within(peak[q], Raise(peak[q], m)) /\ Within(m, Raise(peak[q], m))
        /\ Raise(peak[q], m) \in {peak[q], m}
    BY <1>3, <2>1, RaiseLimit
  <2> QED
    BY <2>1, <2>2
<1>6. /\ peak[q] <= Raise(peak[q], m) /\ m <= Raise(peak[q], m)
      /\ Raise(peak[q], m) \in Nat
  BY <1>4, <1>5 DEF Within
<1>7. /\ Within(peakRate[q], Raise(peakRate[q], r)) /\ Within(r, Raise(peakRate[q], r))
      /\ Raise(peakRate[q], r) \in Rates
  <2>1. peakRate[q] \in Rates
    BY <1>2
  <2>2. /\ Within(peakRate[q], Raise(peakRate[q], r)) /\ Within(r, Raise(peakRate[q], r))
        /\ Raise(peakRate[q], r) \in {peakRate[q], r}
    BY <1>3, <2>1, RaiseLimit
  <2> QED
    BY <2>1, <2>2
<1>8. \A k \in Rates : Within(k, k) /\ (k # None => k \in Nat)
  BY RatesAssumption DEF Within
<1>9. \A p \in Queues : /\ p # q => peak'[p] = peak[p] /\ peakRate'[p] = peakRate[p]
                        /\ peak'[q] \in {m, Raise(peak[q], m)}
                        /\ peakRate'[q] \in {r, Raise(peakRate[q], r)}
                        /\ ~ Idle(q) => peak'[q] = Raise(peak[q], m)
                        /\ lock[q] # None => peakRate'[q] = Raise(peakRate[q], r)
                        /\ (\E j \in JobsOf(q) : sentAt[j] # None)
                              => peakRate'[q] = Raise(peakRate[q], r)
  BY <1>2 DEF Patch
<1>10. ASSUME NEW w \in Workers PROVE ClaimerInv(w)'
  <2>1. pc[w] \in Inside => cur[w] \in Queues /\ lock[cur[w]] = w /\ w # None
    BY NoneAssumption DEF IInv, LockOf, InTx
  <2>2. pc[w] \in Inside => /\ peak[cur[w]] <= peak'[cur[w]]
                            /\ Within(peakRate[cur[w]], peakRate'[cur[w]])
    <3>1. CASE cur[w] = q
      BY <1>6, <1>7, <1>9, <2>1, <3>1 DEF Idle
    <3>2. CASE cur[w] # q
      <4>1. ASSUME pc[w] \in Inside
            PROVE  peak[cur[w]] \in Nat /\ peakRate[cur[w]] \in Rates
        BY <1>2, <1>4, <2>1, <4>1
      <4> QED
        BY <1>8, <1>9, <2>1, <3>2, <4>1
    <3> QED
      BY <3>1, <3>2
  <2>3. Active(cur[w])' \subseteq Active(cur[w])
    BY <1>1 DEF Active, JobsOf
  <2>4. Recent(cur[w], age[w])' \subseteq Recent(cur[w], age[w])
    BY <1>1 DEF Recent, JobsOf
  <2>5. /\ pc'[w] = pc[w] /\ cur'[w] = cur[w] /\ seen'[w] = seen[w]
        /\ slots'[w] = slots[w] /\ taken'[w] = taken[w]
        /\ \A p \in Queues : lock'[p] = w <=> lock[p] = w
        /\ \A j \in taken[w] : status'[j] = status[j] /\ j \notin cancelling'
    BY <1>1, LockedRows
  <2> QED
    BY <2>2, <2>3, <2>4, <2>5, Bystander
<1>11. ASSUME NEW p \in Queues PROVE QueueInv(p)'
  <2>1. Active(p)' = Active(p) /\ \A a \in Ages : ClaimedIn(p, a)' = ClaimedIn(p, a)
    BY <1>1 DEF Active, ClaimedIn, JobsOf
  <2>2. CASE p # q
    BY <1>1, <1>2, <1>9, <2>1, <2>2, QueueFrame
  <2>3. CASE p = q
    <3>1. /\ QueueInv(q) /\ peak[q] \in Nat /\ Cardinality(Active(q)) \in Nat
          /\ maxConc'[q] = m /\ rate'[q] = r
      BY <1>1, <1>2, <1>4, Counts DEF IInv
    <3>2. maxConc'[q] <= peak'[q] /\ Within(rate'[q], peakRate'[q])
      BY <1>4, <1>6, <1>7, <1>8, <1>9, <3>1
    <3>3. Cardinality(Active(q)) <= peak'[q]
      <4>1. CASE Idle(q)
        <5>1. Cardinality(Active(q)) = 0
          BY <4>1, FS_EmptySet DEF Idle
        <5> QED
          BY <1>4, <1>6, <1>9, <5>1
      <4>2. CASE ~ Idle(q)
        BY <1>6, <1>9, <3>1, <4>2 DEF QueueInv
      <4> QED
        BY <4>1, <4>2
    <3>4. ASSUME NEW a \in Ages, peakRate'[q] # None
          PROVE  Cardinality(ClaimedIn(q, a)) <= peakRate'[q]
      <4>1. peakRate'[q] \in Nat
        BY <1>7, <1>8, <1>9, <3>4
      <4>2. CASE \A j \in JobsOf(q) : sentAt[j] = None
        <5>1. ClaimedIn(q, a) = {}
          BY <4>2, NoneAssumption DEF IInv, ClaimedIn, JobsOf, Ages
        <5> QED
          BY <4>1, <5>1, FS_EmptySet
      <4>3. CASE \E j \in JobsOf(q) : sentAt[j] # None
        <5>1. peakRate'[q] = Raise(peakRate[q], r)
          BY <1>9, <4>3
        <5>2. peakRate[q] # None /\ peakRate[q] \in Nat /\ peakRate[q] <= peakRate'[q]
          BY <1>2, <1>7, <1>8, <3>4, <5>1 DEF Within
        <5>3. Cardinality(ClaimedIn(q, a)) <= peakRate[q]
          BY <3>1, <5>2 DEF QueueInv
        <5>4. Cardinality(ClaimedIn(q, a)) \in Nat
          BY Counts
        <5> QED
          BY <4>1, <5>2, <5>3, <5>4
      <4> QED
        BY <4>2, <4>3
    <3> QED
      BY <2>1, <2>3, <3>2, <3>3, <3>4 DEF QueueInv
  <2> QED
    BY <2>2, <2>3
<1>12. \A j \in Jobs : claimedAt'[j] \in {None, sentAt'[j]}
  BY <1>1 DEF IInv
<1> QED
  BY <1>10, <1>11, <1>12 DEF IInv, ClaimerInv

\* A second passes: what was claimed in a transaction's second still is.
LEMMA TickKeepsIInv == ASSUME IInv, TypeOK', Tick PROVE IInv'
<1> USE DEF queueVars, callVars
<1>1. /\ claimedAt \in [Jobs -> Ages \cup {None}] /\ sentAt \in [Jobs -> Ages \cup {None}]
      /\ \A w \in Workers : age[w] = 0
      /\ age' = [w \in Workers |-> IF pc[w] \in InTx THEN 1 ELSE 0]
      /\ claimedAt' = [j \in Jobs |-> Older(claimedAt[j])]
      /\ sentAt' = [j \in Jobs |-> Older(sentAt[j])]
      /\ UNCHANGED <<queueVars, status, cancelling, pc, callVars, cur, seen,
                     slots, taken, lock>>
  BY DEF Tick, IInv, TypeOK
<1>2. 0 # None /\ 1 # None
  BY NoneAssumption
<1>3. Older(None) = None /\ Older(1) = None /\ Older(0) = 1
  BY <1>2 DEF Older
<1>4. ASSUME NEW w \in Workers PROVE ClaimerInv(w)'
  <2>1. pc[w] \in Inside => cur[w] \in Queues
    BY DEF IInv, LockOf, InTx
  <2>2. pc[w] \in Inside => /\ peak[cur[w]] \in Nat
                            /\ peakRate[cur[w]] # None => peakRate[cur[w]] \in Nat
    BY <2>1, LimitsAssumption, RatesAssumption DEF IInv, TypeOK
  <2>3. pc[w] \in Inside => /\ peak[cur[w]] <= peak'[cur[w]]
                            /\ Within(peakRate[cur[w]], peakRate'[cur[w]])
    BY <1>1, <2>2 DEF Within
  <2>4. Active(cur[w])' \subseteq Active(cur[w])
    BY <1>1 DEF Active, JobsOf
  <2>5. pc[w] \in Inside => Recent(cur[w], age[w])' \subseteq Recent(cur[w], age[w])
    <3> SUFFICES ASSUME pc[w] \in Inside, NEW j \in JobsOf(cur[w]), claimedAt'[j] # None
                 PROVE  claimedAt[j] # None /\ claimedAt[j] <= age[w]
      BY <1>1 DEF Recent, JobsOf
    <3>1. claimedAt[j] \in {0, 1, None} /\ claimedAt'[j] = Older(claimedAt[j])
      BY <1>1 DEF Ages, JobsOf
    <3>2. claimedAt[j] = 0
      BY <1>3, <3>1
    <3> QED
      BY <1>1, <1>2, <3>2
  <2>6. /\ pc'[w] = pc[w] /\ cur'[w] = cur[w] /\ seen'[w] = seen[w]
        /\ slots'[w] = slots[w] /\ taken'[w] = taken[w]
        /\ \A p \in Queues : lock'[p] = w <=> lock[p] = w
        /\ \A j \in taken[w] : status'[j] = status[j] /\ j \notin cancelling'
    BY <1>1, LockedRows
  <2> QED
    BY <2>3, <2>4, <2>5, <2>6, Bystander
<1>5. ASSUME NEW q \in Queues PROVE QueueInv(q)'
  <2>1. Active(q)' = Active(q)
    BY <1>1 DEF Active, JobsOf
  <2>2. ClaimedIn(q, 0)' = {} /\ ClaimedIn(q, 1)' = ClaimedIn(q, 0)
    <3>1. ASSUME NEW j \in Jobs
          PROVE  claimedAt'[j] # 0 /\ (claimedAt'[j] = 1 <=> claimedAt[j] = 0)
      <4>1. claimedAt[j] \in {0, 1, None} /\ claimedAt'[j] = Older(claimedAt[j])
        BY <1>1 DEF Ages
      <4> QED
        BY <1>2, <1>3, <4>1
    <3> QED
      BY <3>1 DEF ClaimedIn, JobsOf
  <2>3. QueueInv(q) /\ (peakRate[q] # None => peakRate[q] \in Nat)
    BY RatesAssumption DEF IInv, TypeOK
  <2>4. ASSUME NEW a \in Ages, peakRate[q] # None
        PROVE  Cardinality(ClaimedIn(q, a)') <= peakRate[q]
    <3>1. CASE a = 0
      BY <2>2, <2>3, <2>4, <3>1, FS_EmptySet
    <3>2. CASE a = 1
      BY <2>2, <2>3, <2>4, <3>2 DEF QueueInv, Ages
    <3> QED
      BY <3>1, <3>2 DEF Ages
  <2> QED
    BY <1>1, <2>1, <2>3, <2>4 DEF QueueInv
<1>6. \A j \in Jobs : claimedAt'[j] \in {None, sentAt'[j]}
  <2> SUFFICES ASSUME NEW j \in Jobs PROVE claimedAt'[j] \in {None, sentAt'[j]}
    OBVIOUS
  <2>1. claimedAt[j] \in {None, sentAt[j]}
    BY DEF IInv
  <2> QED
    BY <1>1, <1>3, <2>1
<1> QED
  BY <1>4, <1>5, <1>6 DEF IInv, ClaimerInv

-----------------------------------------------------------------------------
\* Steps of a claimer.

\* The rows that w's transaction has locked are in w's queue alone.
LEMMA LockedQueue ==
  ASSUME IInv, NEW v \in Workers, NEW w \in Workers, v # w,
         pc[v] \in Inside, pc[w] \in Inside
  PROVE  cur[v] # cur[w] /\ cur[v] \in Queues /\ cur[w] \in Queues
  BY DEF IInv, LockOf, InTx

\* A step of w's that leaves the jobs and the queues alone, and of the locks at
\* most moves w's own, matters to w alone.
LEMMA OwnStep ==
  ASSUME IInv, TypeOK', NEW w \in Workers, UNCHANGED <<queueVars, jobVars>>,
         \A v \in Workers \ {w} :
            /\ pc'[v] = pc[v] /\ cur'[v] = cur[v] /\ age'[v] = age[v]
            /\ seen'[v] = seen[v] /\ slots'[v] = slots[v] /\ taken'[v] = taken[v]
            /\ \A q \in Queues : lock'[q] = v <=> lock[q] = v,
         ClaimerInv(w)'
  PROVE  IInv'
<1> USE DEF queueVars, jobVars
<1>1. ASSUME NEW v \in Workers, v # w PROVE ClaimerInv(v)'
  <2>1. pc[v] \in Inside => cur[v] \in Queues
    BY DEF IInv, LockOf, InTx
  <2>2. pc[v] \in Inside => /\ peak[cur[v]] \in Nat
                            /\ peakRate[cur[v]] # None => peakRate[cur[v]] \in Nat
    BY <2>1, LimitsAssumption, RatesAssumption DEF IInv, TypeOK
  <2>3. pc[v] \in Inside => /\ peak[cur[v]] <= peak'[cur[v]]
                            /\ Within(peakRate[cur[v]], peakRate'[cur[v]])
    BY <2>2 DEF Within
  <2>4. Active(cur[v])' \subseteq Active(cur[v])
    BY <1>1 DEF Active, JobsOf
  <2>5. Recent(cur[v], age[v])' \subseteq Recent(cur[v], age[v])
    BY <1>1 DEF Recent, JobsOf
  <2>6. \A j \in taken[v] : status'[j] = status[j] /\ j \notin cancelling'
    BY LockedRows
  <2> QED
    BY <1>1, <2>3, <2>4, <2>5, <2>6, Bystander
<1>2. ASSUME NEW q \in Queues PROVE QueueInv(q)'
  <2>1. Active(q)' = Active(q) /\ \A a \in Ages : ClaimedIn(q, a)' = ClaimedIn(q, a)
    BY DEF Active, ClaimedIn, JobsOf
  <2> QED
    BY <2>1, QueueFrame
<1>3. \A j \in Jobs : claimedAt'[j] \in {None, sentAt'[j]}
  BY DEF IInv
<1>4. \A v \in Workers : ClaimerInv(v)'
  BY <1>1
<1> QED
  BY <1>2, <1>3, <1>4 DEF IInv, ClaimerInv

\* The end of a transaction frees what w held, and nothing else.
LEMMA EndTxFrees ==
  ASSUME IInv, NEW w \in Workers, EndTx(w)
  PROVE  /\ taken'[w] = {}
         /\ \A q \in Queues : lock'[q] # w
         /\ \A v \in Workers \ {w} :
               /\ cur'[v] = cur[v] /\ age'[v] = age[v]
               /\ seen'[v] = seen[v] /\ slots'[v] = slots[v] /\ taken'[v] = taken[v]
               /\ \A q \in Queues : lock'[q] = v <=> lock[q] = v
<1>1. w # None /\ \A v \in Workers : v # None
  BY NoneAssumption
<1> QED
  BY <1>1 DEF EndTx, IInv, TypeOK

\* The steps that leave w outside the critical section, save COMMIT.
LEMMA OutsideStep ==
  ASSUME IInv, TypeOK', NEW w \in Workers,
         \/ Prescan(w) \/ (\E q \in Queues : Begin(w, q)) \/ Return(w)
         \/ SkipQueue(w) \/ NoSlots(w) \/ Abort(w)
  PROVE  IInv'
<1> USE DEF Goto
<1>1. pc \in [Workers -> {"idle", "scan"} \cup InTx] /\ cur \in [Workers -> Queues \cup {None}]
  BY DEF IInv, TypeOK
<1>2. CASE Prescan(w) \/ (\E q \in Queues : Begin(w, q)) \/ Return(w)
  <2>1. /\ pc[w] \in {"idle", "scan"} /\ pc'[w] \in {"idle", "scan", "lock"}
        /\ pc'[w] = "lock" => cur'[w] \in Queues
        /\ UNCHANGED <<queueVars, jobVars, age, seen, slots, taken, lock>>
        /\ \A v \in Workers \ {w} : pc'[v] = pc[v] /\ cur'[v] = cur[v]
    BY <1>1, <1>2 DEF Prescan, Begin, Return, txVars
  <2>2. taken[w] = {} /\ \A q \in Queues : lock[q] # w
    BY <2>1 DEF IInv, LockOf, Inside
  <2>3. ClaimerInv(w)'
    BY <2>1, <2>2, Outside
  <2> QED
    BY <2>1, <2>3, OwnStep
<1>3. CASE SkipQueue(w) \/ NoSlots(w) \/ Abort(w)
  <2>1. /\ EndTx(w) /\ pc'[w] \in {"idle", "scan"}
        /\ UNCHANGED <<queueVars, jobVars>>
        /\ \A v \in Workers \ {w} : pc'[v] = pc[v]
    BY <1>1, <1>3 DEF SkipQueue, NoSlots, Abort
  <2>2. ClaimerInv(w)'
    BY <2>1, EndTxFrees, Outside
  <2> QED
    BY <2>1, <2>2, EndTxFrees, OwnStep
<1> QED
  BY <1>2, <1>3

\* The lock is granted: the limits it reads are within the peaks.
LEMMA LockQueueStep == ASSUME IInv, TypeOK', NEW w \in Workers, LockQueue(w) PROVE IInv'
<1> USE DEF Goto, callVars
<1>1. /\ pc[w] = "lock" /\ cur[w] \in Queues /\ lock[cur[w]] = None
      /\ lock' = [lock EXCEPT ![cur[w]] = w]
      /\ seen' = [seen EXCEPT ![w] = [max |-> maxConc[cur[w]], rate |-> rate[cur[w]]]]
      /\ pc' = [pc EXCEPT ![w] = "count"]
      /\ UNCHANGED <<queueVars, jobVars, cur, age, slots, taken>>
  BY DEF LockQueue, IInv, LockOf, InTx
<1>2. /\ pc \in [Workers -> {"idle", "scan"} \cup InTx]
      /\ seen \in [Workers -> [max : Limits \cup {0}, rate : Rates \cup {None}]]
      /\ lock \in [Queues -> Workers \cup {None}]
      /\ maxConc[cur[w]] \in Limits /\ rate[cur[w]] \in Rates
  BY <1>1 DEF IInv, TypeOK
<1>3. pc'[w] = "count" /\ seen'[w] = [max |-> maxConc[cur[w]], rate |-> rate[cur[w]]]
  BY <1>1, <1>2
<1>4. ASSUME NEW v \in Workers \ {w}, NEW q \in Queues PROVE lock'[q] = v <=> lock[q] = v
  BY <1>1, <1>2, <1>4, NoneAssumption
<1>5. LockOf(w)'
  <2>1. lock'[cur[w]] = w /\ taken[w] = {} /\ \A q \in Queues : lock[q] # w
    BY <1>1, <1>2 DEF IInv, LockOf, Inside
  <2>2. \A q \in Queues : lock'[q] = w => q = cur[w]
    BY <1>1, <1>2, <2>1
  <2> QED
    BY <1>1, <1>3, <2>1, <2>2 DEF LockOf, InTx, Inside
<1>6. RowsOf(w)'
  BY <1>5, <1>3 DEF RowsOf, LockOf
<1>7. BudgetOf(w)'
  BY <1>1, <1>2, <1>3 DEF BudgetOf, IInv, QueueInv, queueVars
<1>8. RateOf(w)'
  BY <1>1, <1>2, <1>3 DEF RateOf, IInv, QueueInv, queueVars
<1>9. ClaimerInv(w)'
  BY <1>5, <1>6, <1>7, <1>8 DEF ClaimerInv
<1> QED
  BY <1>1, <1>2, <1>4, <1>9, OwnStep

\* Lesser is the lesser.
LEMMA LesserLeast ==
  ASSUME NEW a \in Int, NEW b \in Int
  PROVE  Lesser(a, b) \in Int /\ Lesser(a, b) <= a /\ Lesser(a, b) <= b
  BY DEF Lesser

\* What a claimer that holds its queue's lock knows.
LEMMA HolderFacts ==
  ASSUME IInv, NEW w \in Workers, pc[w] \in Inside
  PROVE  /\ cur[w] \in Queues /\ pc[w] \in InTx
         /\ seen[w].max \in Nat /\ seen[w].max \in Limits
         /\ seen[w].rate \in Rates /\ (seen[w].rate # None => seen[w].rate \in Nat)
         /\ slots[w] \in Int
         /\ want[w] - Cardinality(got[w]) \in Int
         /\ taken[w] \in SUBSET Jobs /\ Cardinality(taken[w]) \in Nat
<1>1. cur[w] \in Queues /\ pc[w] \in InTx
  BY DEF IInv, LockOf, InTx
<1>2. seen[w].max \in Nat /\ seen[w].max \in Limits
  BY LimitsAssumption DEF IInv, BudgetOf
<1>3. seen[w].rate \in Rates /\ (seen[w].rate # None => seen[w].rate \in Nat)
  BY RatesAssumption DEF IInv, RateOf
<1>4. /\ slots[w] \in Int /\ want[w] \in Int
      /\ got[w] \in SUBSET Jobs /\ taken[w] \in SUBSET Jobs
  BY CapacityAssumption DEF IInv, TypeOK
<1>5. Cardinality(got[w]) \in Nat /\ Cardinality(taken[w]) \in Nat
  BY <1>4, SubsetCount
<1> QED
  BY <1>1, <1>2, <1>3, <1>4, <1>5

\* The active jobs are counted: the slots fit the limit.
LEMMA CountActiveStep == ASSUME IInv, TypeOK', NEW w \in Workers, CountActive(w) PROVE IInv'
<1> USE DEF Goto, callVars
<1> DEFINE n == Cardinality(Active(cur[w]))
<1> DEFINE s == Lesser(want[w] - Cardinality(got[w]), seen[w].max - n)
<1>1. /\ pc[w] = "count" /\ pc[w] \in Inside
      /\ slots' = [slots EXCEPT ![w] = s]
      /\ pc' = [pc EXCEPT ![w] = IF seen[w].rate = None THEN "update" ELSE "rate"]
      /\ UNCHANGED <<queueVars, jobVars, cur, age, seen, taken, lock>>
  BY DEF CountActive, Inside
<1>2. /\ pc \in [Workers -> {"idle", "scan"} \cup InTx] /\ slots \in [Workers -> Int]
  BY DEF IInv, TypeOK
<1>3. n \in Nat /\ seen[w].max \in Nat /\ want[w] - Cardinality(got[w]) \in Int
  BY <1>1, Counts, HolderFacts
<1>4. n + s <= seen[w].max
  <2>1. seen[w].max - n \in Int
    BY <1>3
  <2>2. s \in Int /\ s <= seen[w].max - n
    BY <1>3, <2>1, LesserLeast
  <2> QED
    BY <1>3, <2>2
<1>5. /\ pc'[w] = IF seen[w].rate = None THEN "update" ELSE "rate"
      /\ slots'[w] = s
  BY <1>1, <1>2
<1>6. n' = n
  BY <1>1 DEF Active, JobsOf, jobVars
<1>7. LockOf(w)'
  BY <1>1, <1>5 DEF IInv, LockOf, InTx, Inside
<1>8. RowsOf(w)'
  BY <1>1, <1>5, <1>7 DEF LockOf, RowsOf
<1>9. BudgetOf(w)'
  <2>1. seen[w].max \in Limits /\ seen[w].max <= peak[cur[w]]
    BY <1>1 DEF IInv, BudgetOf
  <2> QED
    BY <1>1, <1>4, <1>5, <1>6, <2>1 DEF BudgetOf, queueVars
<1>10. RateOf(w)'
  <2>1. seen[w].rate \in Rates /\ Within(seen[w].rate, peakRate[cur[w]])
    BY <1>1 DEF IInv, RateOf
  <2> QED
    BY <1>1, <1>5, <2>1 DEF RateOf, queueVars
<1>11. ClaimerInv(w)'
  BY <1>7, <1>8, <1>9, <1>10 DEF ClaimerInv
<1> QED
  BY <1>1, <1>2, <1>11, OwnStep

\* The recent claims are counted: the slots fit the rate limit.
LEMMA CountRecentStep == ASSUME IInv, TypeOK', NEW w \in Workers, CountRecent(w) PROVE IInv'
<1> USE DEF Goto, callVars
<1> DEFINE n == Cardinality(Active(cur[w]))
<1> DEFINE k == Cardinality(Recent(cur[w], age[w]))
<1> DEFINE s == Lesser(slots[w], seen[w].rate - k)
<1>1. /\ pc[w] = "rate" /\ pc[w] \in Inside
      /\ slots' = [slots EXCEPT ![w] = s]
      /\ pc' = [pc EXCEPT ![w] = "update"]
      /\ UNCHANGED <<queueVars, jobVars, cur, age, seen, taken, lock>>
  BY DEF CountRecent, Inside
<1>2. pc \in [Workers -> {"idle", "scan"} \cup InTx] /\ slots \in [Workers -> Int]
  BY DEF IInv, TypeOK
<1>3. n \in Nat /\ k \in Nat /\ seen[w].max \in Nat /\ slots[w] \in Int
  BY <1>1, Counts, HolderFacts
<1>4. seen[w].rate \in Nat
  BY <1>1, HolderFacts DEF IInv, RateOf
<1>5. s \in Int /\ s <= slots[w] /\ s <= seen[w].rate - k
  <2>1. seen[w].rate - k \in Int
    BY <1>3, <1>4
  <2> QED
    BY <1>3, <2>1, LesserLeast
<1>6. k + s <= seen[w].rate
  BY <1>3, <1>4, <1>5
<1>7. n + s <= seen[w].max
  <2>1. n + slots[w] <= seen[w].max
    BY <1>1 DEF IInv, BudgetOf
  <2> QED
    BY <1>3, <1>5, <2>1
<1>8. pc'[w] = "update" /\ slots'[w] = s
  BY <1>1, <1>2
<1>9. n' = n /\ k' = k
  BY <1>1 DEF Active, Recent, JobsOf, jobVars
<1>10. LockOf(w)'
  BY <1>1, <1>8 DEF IInv, LockOf, InTx, Inside
<1>11. RowsOf(w)'
  BY <1>8, <1>10 DEF LockOf, RowsOf
<1>12. BudgetOf(w)'
  <2>1. seen[w].max \in Limits /\ seen[w].max <= peak[cur[w]]
    BY <1>1 DEF IInv, BudgetOf
  <2> QED
    BY <1>1, <1>7, <1>8, <1>9, <2>1 DEF BudgetOf, queueVars
<1>13. RateOf(w)'
  <2>1. seen[w].rate \in Rates /\ Within(seen[w].rate, peakRate[cur[w]])
    BY <1>1 DEF IInv, RateOf
  <2> QED
    BY <1>1, <1>6, <1>8, <1>9, <2>1 DEF RateOf, queueVars
<1>14. ClaimerInv(w)'
  BY <1>10, <1>11, <1>12, <1>13 DEF ClaimerInv
<1> QED
  BY <1>1, <1>2, <1>14, OwnStep

\* The rows are locked: no more than there are slots.
LEMMA TakeRowsStep == ASSUME IInv, TypeOK', NEW w \in Workers, TakeRows(w) PROVE IInv'
<1> USE DEF Goto, callVars
<1> DEFINE n == Cardinality(Active(cur[w]))
<1> DEFINE k == Cardinality(Recent(cur[w], age[w]))
<1>1. PICK S \in SUBSET Claimable(cur[w]) :
         /\ Cardinality(S) = Lesser(slots[w], Cardinality(Claimable(cur[w])))
         /\ taken' = [taken EXCEPT ![w] = S]
  BY DEF TakeRows
<1>2. /\ pc[w] = "update" /\ pc[w] \in Inside
      /\ pc' = [pc EXCEPT ![w] = "commit"]
      /\ UNCHANGED <<queueVars, jobVars, cur, age, seen, slots, lock>>
  BY DEF TakeRows, Inside
<1>3. pc \in [Workers -> {"idle", "scan"} \cup InTx] /\ taken \in [Workers -> SUBSET Jobs]
  BY DEF IInv, TypeOK
<1>4. /\ n \in Nat /\ k \in Nat /\ seen[w].max \in Nat /\ slots[w] \in Int
      /\ seen[w].rate # None => seen[w].rate \in Nat
  BY <1>2, Counts, HolderFacts
<1>5. Cardinality(S) \in Nat /\ Cardinality(S) <= slots[w]
  <2>1. Claimable(cur[w]) \in SUBSET Jobs
    BY DEF Claimable, JobsOf
  <2>2. Cardinality(Claimable(cur[w])) \in Nat /\ Cardinality(S) \in Nat
    BY <1>1, <2>1, SubsetCount
  <2>3. Lesser(slots[w], Cardinality(Claimable(cur[w]))) <= slots[w]
    <3>1. slots[w] \in Int /\ Cardinality(Claimable(cur[w])) \in Int
      BY <1>4, <2>2
    <3> QED
      BY <3>1 DEF Lesser
  <2> QED
    BY <1>1, <2>2, <2>3
<1>6. pc'[w] = "commit" /\ taken'[w] = S
  BY <1>1, <1>2, <1>3
<1>7. n' = n /\ k' = k
  BY <1>2 DEF Active, Recent, JobsOf, jobVars
<1>8. LockOf(w)'
  BY <1>2, <1>6 DEF IInv, LockOf, InTx, Inside
<1>9. RowsOf(w)'
  BY <1>2, <1>6 DEF RowsOf, Claimable, JobsOf, jobVars
<1>10. BudgetOf(w)'
  <2>1. seen[w].max \in Limits /\ seen[w].max <= peak[cur[w]] /\ n + slots[w] <= seen[w].max
    BY <1>2 DEF IInv, BudgetOf
  <2>2. n + Cardinality(S) <= seen[w].max
    BY <1>4, <1>5, <2>1
  <2> QED
    BY <1>2, <1>6, <1>7, <2>1, <2>2 DEF BudgetOf, queueVars
<1>11. RateOf(w)'
  <2>1. seen[w].rate \in Rates /\ Within(seen[w].rate, peakRate[cur[w]])
    BY <1>2 DEF IInv, RateOf
  <2>2. seen[w].rate # None => k + slots[w] <= seen[w].rate
    BY <1>2 DEF IInv, RateOf
  <2>3. seen[w].rate # None => k + Cardinality(S) <= seen[w].rate
    BY <1>4, <1>5, <2>2
  <2> QED
    BY <1>2, <1>6, <1>7, <2>1, <2>3 DEF RateOf, queueVars
<1>12. ClaimerInv(w)'
  BY <1>8, <1>9, <1>10, <1>11 DEF ClaimerInv
<1> QED
  BY <1>1, <1>2, <1>3, <1>12, OwnStep

\* COMMIT: what was counted plus what was taken is what the queue now holds.
LEMMA CommitStep == ASSUME IInv, TypeOK', NEW w \in Workers, Commit(w) PROVE IInv'
<1> USE DEF Goto, queueVars
<1> DEFINE S == taken[w]
<1>1. /\ pc[w] = "commit" /\ pc[w] \in Inside
      /\ status' = [j \in Jobs |-> IF j \in S THEN "active" ELSE status[j]]
      /\ claimedAt' = [j \in Jobs |-> IF j \in S THEN age[w] ELSE claimedAt[j]]
      /\ sentAt' = [j \in Jobs |-> IF j \in S THEN age[w] ELSE sentAt[j]]
      /\ pc' = [pc EXCEPT ![w] = "scan"]
      /\ EndTx(w) /\ UNCHANGED <<queueVars, cancelling>>
  BY DEF Commit, Inside
<1> PICK q \in Queues : q = cur[w]
  BY <1>1, HolderFacts
<1>2. /\ pc \in [Workers -> {"idle", "scan"} \cup InTx]
      /\ age[w] \in Ages /\ S \in SUBSET Jobs
  BY DEF IInv, TypeOK
<1>3. \A j \in S : QueueOf[j] = q /\ status[j] = "queued"
  BY DEF IInv, RowsOf
<1>4. \A p \in Queues : /\ p # q => Active(p)' = Active(p)
                        /\ p = q => Active(p)' = Active(p) \cup S
  BY <1>1, <1>2, <1>3 DEF Active, JobsOf
<1>5. \A p \in Queues, a \in Ages :
         /\ p # q \/ a # age[w] => ClaimedIn(p, a)' \subseteq ClaimedIn(p, a)
         /\ p = q /\ a = age[w] => ClaimedIn(p, a)' \subseteq Recent(p, a) \cup S
  <2>1. \A a \in Ages : a # None /\ a <= a
    BY NoneAssumption DEF Ages
  <2> QED
    BY <1>1, <1>2, <1>3, <2>1 DEF ClaimedIn, Recent, JobsOf
<1>6. ClaimerInv(w)'
  <2>1. pc'[w] = "scan"
    BY <1>1, <1>2
  <2> QED
    BY <1>1, <2>1, EndTxFrees, Outside
<1>7. ASSUME NEW v \in Workers, v # w PROVE ClaimerInv(v)'
  <2>1. pc'[v] = pc[v]
    BY <1>1, <1>7
  <2>2. cur'[v] = cur[v] /\ age'[v] = age[v]
    BY <1>1, <1>7, EndTxFrees
  <2>3. pc[v] \in Inside => cur[v] # q /\ cur[v] \in Queues
    BY <1>1, <1>7, LockedQueue
  <2>4. pc[v] \in Inside => /\ peak[cur[v]] \in Nat
                            /\ peakRate[cur[v]] # None => peakRate[cur[v]] \in Nat
    BY <2>3, LimitsAssumption, RatesAssumption DEF IInv, TypeOK
  <2>5. pc[v] \in Inside => /\ peak[cur[v]] <= peak'[cur[v]]
                            /\ Within(peakRate[cur[v]], peakRate'[cur[v]])
    BY <1>1, <2>4 DEF Within
  <2>6. pc[v] \in Inside => Active(cur[v])' \subseteq Active(cur[v])
    BY <1>4, <2>2, <2>3
  <2>7. pc[v] \in Inside => Recent(cur[v], age[v])' \subseteq Recent(cur[v], age[v])
    BY <1>1, <1>3, <2>2, <2>3 DEF Recent, JobsOf
  <2>8. ASSUME NEW j \in taken[v] PROVE status'[j] = status[j] /\ j \notin cancelling'
    <3>1. pc[v] \in Inside /\ QueueOf[j] = cur[v] /\ j \in Jobs
      BY <2>8 DEF IInv, LockOf, RowsOf, TypeOK, Inside
    <3>2. j \notin S
      BY <1>3, <2>3, <3>1
    <3> QED
      BY <1>1, <2>8, <3>1, <3>2, LockedRows
  <2>9. /\ seen'[v] = seen[v] /\ slots'[v] = slots[v] /\ taken'[v] = taken[v]
        /\ \A p \in Queues : lock'[p] = v <=> lock[p] = v
    BY <1>1, <1>7, EndTxFrees
  <2> QED
    BY <2>1, <2>2, <2>5, <2>6, <2>7, <2>8, <2>9, Bystander
<1>8. ASSUME NEW p \in Queues, p # q PROVE QueueInv(p)'
  BY <1>1, <1>4, <1>5, <1>8, QueueFrame
<1>9. QueueInv(q)'
  <2>1. /\ QueueInv(q) /\ peak[q] \in Nat /\ seen[w].max \in Nat
        /\ peakRate[q] # None => peakRate[q] \in Nat
        /\ seen[w].rate # None => seen[w].rate \in Nat
        /\ Cardinality(S) \in Nat
    BY <1>1, <1>2, HolderFacts, LimitsAssumption, RatesAssumption DEF IInv, TypeOK
  <2>2. Cardinality(Active(q) \cup S) <= peak[q]
    <3>1. Cardinality(Active(q)) + Cardinality(S) <= seen[w].max /\ seen[w].max <= peak[q]
      BY <1>1 DEF IInv, BudgetOf
    <3>2. /\ Active(q) \cup S \in SUBSET Jobs /\ Cardinality(Active(q)) \in Nat
          /\ Cardinality(Active(q) \cup S) <= Cardinality(Active(q)) + Cardinality(S)
      BY <1>2, Counts, UnionCount
    <3>3. Cardinality(Active(q) \cup S) \in Nat
      BY <3>2, SubsetCount
    <3> QED
      BY <2>1, <3>1, <3>2, <3>3
  <2>3. ASSUME NEW a \in Ages, peakRate[q] # None
        PROVE  Cardinality(ClaimedIn(q, a)') <= peakRate[q]
    <3>1. CASE a # age[w]
      <4>1. Cardinality(ClaimedIn(q, a)) <= peakRate[q]
        BY <2>1, <2>3 DEF QueueInv
      <4>2. /\ Cardinality(ClaimedIn(q, a)') <= Cardinality(ClaimedIn(q, a))
            /\ Cardinality(ClaimedIn(q, a)') \in Nat /\ Cardinality(ClaimedIn(q, a)) \in Nat
        BY <1>2, <1>5, <3>1, Counts, SubsetCount
      <4> QED
        BY <2>1, <2>3, <4>1, <4>2
    <3>2. CASE a = age[w]
      <4>1. /\ Cardinality(Recent(q, a)) + Cardinality(S) <= seen[w].rate
            /\ seen[w].rate # None /\ seen[w].rate <= peakRate[q]
        BY <1>1, <2>3, <3>2 DEF IInv, RateOf, Within
      <4>2. /\ Recent(q, a) \cup S \in SUBSET Jobs /\ Cardinality(Recent(q, a)) \in Nat
            /\ Cardinality(Recent(q, a) \cup S) <= Cardinality(Recent(q, a)) + Cardinality(S)
        BY <1>2, Counts, UnionCount
      <4>3. ClaimedIn(q, a)' \subseteq Recent(q, a) \cup S
        BY <1>2, <1>5, <3>2
      <4>4. /\ Cardinality(ClaimedIn(q, a)') <= Cardinality(Recent(q, a) \cup S)
            /\ Cardinality(ClaimedIn(q, a)') \in Nat
            /\ Cardinality(Recent(q, a) \cup S) \in Nat
        BY <4>2, <4>3, SubsetCount
      <4> QED
        BY <2>1, <2>3, <4>1, <4>2, <4>4
    <3> QED
      BY <3>1, <3>2
  <2>4. /\ UNCHANGED <<maxConc, rate, peak, peakRate>>
        /\ maxConc[q] <= peak[q] /\ Within(rate[q], peakRate[q])
    BY <1>1, <2>1 DEF QueueInv
  <2>5. Active(q)' = Active(q) \cup S
    BY <1>4
  <2> QED
    BY <2>2, <2>3, <2>4, <2>5 DEF QueueInv
<1>10. \A j \in Jobs : claimedAt'[j] \in {None, sentAt'[j]}
  BY <1>1 DEF IInv
<1> QED
  BY <1>6, <1>7, <1>8, <1>9, <1>10 DEF IInv, ClaimerInv

-----------------------------------------------------------------------------
\* The invariant, and what follows from it.

\* Every step preserves the inductive invariant.
LEMMA StepIInv == IInv /\ [Next]_vars => IInv'
<1> SUFFICES ASSUME IInv, [Next]_vars PROVE IInv'
  OBVIOUS
<1>1. TypeOK'
  BY TypeStep
<1>2. ASSUME NEW w \in Workers, ClaimStep(w) \/ Abort(w) PROVE IInv'
  <2>1. CASE \/ Prescan(w) \/ (\E q \in Queues : Begin(w, q)) \/ Return(w)
             \/ SkipQueue(w) \/ NoSlots(w) \/ Abort(w)
    BY <1>1, <2>1, OutsideStep
  <2>2. CASE LockQueue(w)
    BY <1>1, <2>2, LockQueueStep
  <2>3. CASE CountActive(w)
    BY <1>1, <2>3, CountActiveStep
  <2>4. CASE CountRecent(w)
    BY <1>1, <2>4, CountRecentStep
  <2>5. CASE TakeRows(w)
    BY <1>1, <2>5, TakeRowsStep
  <2>6. CASE Commit(w)
    BY <1>1, <2>6, CommitStep
  <2> QED
    BY <1>2, <2>1, <2>2, <2>3, <2>4, <2>5, <2>6 DEF ClaimStep
<1>3. ASSUME NEW j \in Jobs, WriteStep(j) PROVE IInv'
  BY <1>1, <1>3, WriteOnlyLess, LessKeepsIInv
<1>4. ASSUME NEW q \in Queues, AdminStep(q) PROVE IInv'
  <2>1. ASSUME NEW m \in Limits, NEW r \in Rates, Patch(q, m, r) PROVE IInv'
    BY <1>1, <2>1, PatchKeepsIInv
  <2>2. CASE Pause(q) \/ Resume(q) \/ DeleteCheck(q) \/ DeleteQueue(q)
    BY <1>1, <2>2, AdminOnlyLess, LessKeepsIInv
  <2> QED
    BY <1>4, <2>1, <2>2 DEF AdminStep
<1>5. CASE Tick
  BY <1>1, <1>5, TickKeepsIInv
<1>6. CASE UNCHANGED vars
  <2>1. OnlyLess
    BY <1>6, LockedRows
    DEF OnlyLess, vars, queueVars, jobVars, claimerVars, callVars, txVars
  <2> QED
    BY <1>1, <2>1, LessKeepsIInv
<1> QED
  BY <1>2, <1>3, <1>4, <1>5, <1>6 DEF Next

\* Every reachable state satisfies the inductive invariant.
THEOREM Invariance == Spec => []IInv
  BY InitIInv, StepIInv, PTL DEF Spec

\* Every reachable state is well typed.
THEOREM TypeCorrect == Spec => []TypeOK
<1>1. IInv => TypeOK
  BY DEF IInv
<1> QED
  BY <1>1, Invariance, PTL

\* The active jobs of a queue stay within its concurrency limit (claim.ts: the
\* advisory lock makes the count and the claim of a queue one).
THEOREM LimitCorrect == Spec => []WithinLimit
<1>1. IInv => WithinLimit
  BY DEF IInv, QueueInv, WithinLimit
<1> QED
  BY <1>1, Invariance, PTL

\* The claims recorded in a second stay within its rate limit (claim.ts: the count
\* and the stamp of a claim use the same now()).
THEOREM RateCorrect == Spec => []RateKept
<1>1. IInv => RateKept
  BY DEF IInv, QueueInv, ClaimedIn, RateKept
<1> QED
  BY <1>1, Invariance, PTL

\* A row is in the hands of one transaction at a time, and a claim under way has
\* only queued rows (claim.ts: FOR UPDATE SKIP LOCKED under the queue's lock).
THEOREM RowsCorrect == Spec => []RowLockedOnce
<1>1. ASSUME IInv PROVE RowLockedOnce
  <2>1. \A w \in Workers, j \in Jobs : j \in taken[w] =>
           QueueOf[j] = cur[w] /\ status[j] = "queued" /\ j \notin cancelling
    BY <1>1 DEF IInv, RowsOf
  <2>2. ASSUME NEW v \in Workers, NEW w \in Workers, v # w, NEW j \in taken[v] \cap taken[w]
        PROVE  FALSE
    <3>1. pc[v] = "commit" /\ pc[w] = "commit"
      BY <1>1, <2>2 DEF IInv, LockOf
    <3>2. cur[v] # cur[w]
      BY <1>1, <2>2, <3>1, LockedQueue DEF Inside
    <3> QED
      BY <1>1, <2>2, <3>2 DEF IInv, RowsOf
  <2> QED
    BY <2>1, <2>2 DEF RowLockedOnce
<1> QED
  BY <1>1, Invariance, PTL

=============================================================================
