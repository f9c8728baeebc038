------------------------ MODULE WorkerServiceProofs ------------------------
(***************************************************************************)
(* Proofs about WorkerService, for every concurrency, every finite set of  *)
(* rows, every finite set of calls and every number of upsets.             *)
(*                                                                         *)
(* SlotsKept needs the capacity that a claim was asked with, which pollLoop*)
(* computes before its await: Slots says that what is in the map, and what *)
(* the claim may still bring, fit together.  Its other half is a count     *)
(* (MissedOf): the calls that the map misses, and those it will come to    *)
(* miss by claims that the reaper has made possible, are no more than the  *)
(* jobs taken from under a call.  ClaimsAreLaunched needs to    *)
(* know which call will move the row on (HeldOf): for a claimed row one    *)
(* that has yet to start, for a running row one whose execution is open; a *)
(* call of an earlier claim that still runs does neither.  DrainIsComplete *)
(* needs that the promises taken at the start of the drain are those of    *)
(* all the pipelines, until its end.                                       *)
(***************************************************************************)
EXTENDS WorkerService, TLAPS, FiniteSetTheorems

\* Entries in the map and rows the claim may bring fit the slots.
Slots ==
    /\ Cardinality(InFlight) + asked <= Concurrency
    /\ Cardinality(got) <= asked
    /\ loop # "claiming" => asked = 0

\* The map knows the call of a job that has one, unless it was claimed again.
MapOf(j) == j \in Busy => CallsOf(j) = {inflight[j]} \/ j \in rejoined

\* How many calls of a job the map misses.
Missed(j) == Cardinality(CallsOf(j) \ {inflight[j]})

\* How many more it may come to miss without another upset: the launch of a job that
\* claimJobs has yet to return forgets the call in the map, and so does the next
\* claim of a job that is queued again under its call, or on its way to one.
Loose(j) ==
    (IF j \in got /\ inflight[j] # None THEN 1 ELSE 0)
    + (IF row[j] = "queued" /\ (j \in got \/ inflight[j] # None) THEN 1 ELSE 0)

\* The map holds calls that run, and each it misses was taken from under.
MissedOf(j) ==
    /\ inflight[j] # None => inflight[j] \in CallsOf(j)
    /\ Missed(j) + Loose(j) <= revoked[j]
    /\ revoked[j] <= upsets

\* Some call will move on a row that the worker holds.
HeldOf(j) == Alive =>
    /\ row[j] = "claimed" =>
          j \in got \cup dropped \/ \E c \in Calls : pipe[j][c].step = "start"
    /\ row[j] = "running" =>
          j \in dropped \/ \E c \in Calls : pipe[j][c].step = "handler" /\ pipe[j][c].open

\* The loop has ended when the drain begins, and the drain awaits every call.
Draining ==
    /\ stage \in {"scheduler", "drain", "offline", "closing"} => loop = "ended"
    /\ stage = "drain" =>
          \A j \in Busy : <<j, inflight[j]>> \in awaited \/ j \in rejoined
    /\ stage \in {"offline", "closing"} /\ drained => Busy \subseteq rejoined

\* The inductive invariant.
WInv ==
    /\ TypeOK
    /\ Slots
    /\ \A j \in Jobs : MapOf(j)
    /\ \A j \in Jobs : MissedOf(j)
    /\ \A j \in Jobs : HeldOf(j)
    /\ Draining

CallRecord == [step : {"idle", "start", "handler"}, open : BOOLEAN]

-----------------------------------------------------------------------------

\* Sets of jobs have cardinalities, and fewer jobs are no more.
LEMMA JobSets ==
  ASSUME NEW S \in SUBSET Jobs, NEW T \in SUBSET S
  PROVE  /\ IsFiniteSet(S) /\ Cardinality(S) \in Nat
         /\ Cardinality(T) \in Nat /\ Cardinality(T) <= Cardinality(S)
<1>1. IsFiniteSet(S)
  BY JobsAssumption, FS_Subset
<1>2. IsFiniteSet(T) /\ Cardinality(T) <= Cardinality(S)
  BY <1>1, FS_Subset
<1> QED
  BY <1>1, <1>2, FS_CardinalityType

\* A union has at most as many elements as its parts together.
LEMMA JobUnion ==
  ASSUME NEW S \in SUBSET Jobs, NEW T \in SUBSET Jobs
  PROVE  Cardinality(S \cup T) <= Cardinality(S) + Cardinality(T)
<1>1. IsFiniteSet(S) /\ IsFiniteSet(T) /\ Cardinality(S) \in Nat /\ Cardinality(T) \in Nat
  BY JobSets
<1>2. Cardinality(S \cap T) \in Nat
  BY JobSets
<1>3. Cardinality(S \cup T) = Cardinality(S) + Cardinality(T) - Cardinality(S \cap T)
  BY <1>1, FS_Union
<1> QED
  BY <1>1, <1>2, <1>3

\* Sets of calls have cardinalities.
LEMMA CallSets ==
  ASSUME NEW S \in SUBSET Calls
  PROVE  IsFiniteSet(S) /\ Cardinality(S) \in Nat
<1>1. IsFiniteSet(S)
  BY CallsAssumption, FS_Subset
<1> QED
  BY <1>1, FS_CardinalityType

\* What is missed is all of the calls but the one in the map.
LEMMA MissedCount ==
  ASSUME TypeOK, NEW j \in Jobs, MissedOf(j)
  PROVE  /\ CallsOf(j) \in SUBSET Calls /\ Cardinality(CallsOf(j)) \in Nat
         /\ Missed(j) \in Nat /\ Loose(j) \in 0..2
         /\ Cardinality(CallsOf(j)) =
               IF inflight[j] = None THEN Missed(j) ELSE Missed(j) + 1
<1>1. CallsOf(j) \in SUBSET Calls
  BY DEF CallsOf
<1>2. IsFiniteSet(CallsOf(j)) /\ Cardinality(CallsOf(j)) \in Nat
  BY <1>1, CallSets
<1>3. Missed(j) = IF inflight[j] \in CallsOf(j) THEN Cardinality(CallsOf(j)) - 1
                                               ELSE Cardinality(CallsOf(j))
  BY <1>2, FS_RemoveElement DEF Missed
<1>4. Missed(j) \in Nat
  <2>1. CallsOf(j) \ {inflight[j]} \in SUBSET Calls
    BY <1>1
  <2> QED
    BY <2>1, CallSets DEF Missed
<1>5. inflight[j] # None <=> inflight[j] \in CallsOf(j)
  BY <1>1, CallsAssumption DEF MissedOf
<1>6. Loose(j) \in 0..2
  BY DEF Loose
<1> QED
  BY <1>1, <1>2, <1>3, <1>4, <1>5, <1>6

\* The calls of a job and its entry stay, and no claim becomes possible.
LEMMA MissedStays ==
  ASSUME WInv, NEW j \in Jobs, CallsOf(j)' = CallsOf(j), inflight'[j] = inflight[j],
         j \in got' => j \in got, row'[j] = "queued" => row[j] = "queued",
         revoked'[j] = revoked[j], upsets' \in Nat, upsets <= upsets'
  PROVE  MissedOf(j)'
<1>1. TypeOK /\ MissedOf(j)
  BY DEF WInv
<1>2. Missed(j) \in Nat /\ Loose(j) \in 0..2
  BY <1>1, MissedCount
<1>3. Missed(j)' = Missed(j)
  BY DEF Missed
<1>4. Loose(j)' \in 0..2 /\ Loose(j)' <= Loose(j)
  BY DEF Loose
<1>5. upsets \in Nat /\ revoked[j] \in Nat
  BY <1>1, UpsetsAssumption DEF TypeOK
<1> HIDE DEF Missed, Loose
<1>6. Missed(j)' + Loose(j)' <= revoked'[j]
  BY <1>1, <1>2, <1>3, <1>4, <1>5 DEF MissedOf
<1> QED
  BY <1>1, <1>5, <1>6 DEF MissedOf

\* The call that launch() gives a job.
NewCall(j) == CHOOSE c \in Calls \ CallsOf(j) : TRUE

\* What launch() does to the pipelines and to the map.
LEMMA Launched ==
  ASSUME TypeOK, NEW J \in SUBSET Jobs, Launch(J)
  PROVE  /\ pipe' \in [Jobs -> [Calls -> CallRecord]]
         /\ inflight' \in [Jobs -> Calls \cup {None}]
         /\ \A j \in J : NewCall(j) \in Calls /\ pipe[j][NewCall(j)].step = "idle"
                         /\ pipe'[j][NewCall(j)].step = "start"
         /\ \A j \in Jobs, c \in Calls :
               pipe'[j][c] # pipe[j][c] => j \in J /\ c = NewCall(j)
         /\ \A j \in Jobs : inflight'[j] = IF j \in J THEN NewCall(j) ELSE inflight[j]
         /\ InFlight' = InFlight \cup J
         /\ rejoined' = rejoined \cup (J \cap Busy)
         /\ Busy' = Busy \cup J
<1>1. /\ \A j \in J : CallsOf(j) # Calls
      /\ pipe' = [j \in Jobs |-> IF j \in J
                     THEN [pipe[j] EXCEPT ![NewCall(j)].step = "start"] ELSE pipe[j]]
      /\ inflight' = [j \in Jobs |-> IF j \in J THEN NewCall(j) ELSE inflight[j]]
      /\ rejoined' = rejoined \cup (J \cap Busy)
  BY DEF Launch, NewCall
<1>2. \A j \in J : NewCall(j) \in Calls \ CallsOf(j)
  <2> SUFFICES ASSUME NEW j \in J PROVE NewCall(j) \in Calls \ CallsOf(j)
    OBVIOUS
  <2>1. \E c : c \in Calls \ CallsOf(j)
    BY <1>1 DEF CallsOf
  <2> QED
    BY <2>1 DEF NewCall
<1>3. \A j \in J : NewCall(j) \in Calls /\ pipe[j][NewCall(j)].step = "idle"
  BY <1>2 DEF CallsOf
<1> HIDE DEF NewCall
<1>4. \A j \in Jobs, c \in Calls :
         pipe'[j][c] = IF j \in J /\ c = NewCall(j)
                       THEN [pipe[j][c] EXCEPT !.step = "start"] ELSE pipe[j][c]
  BY <1>1, <1>3 DEF TypeOK
<1>5. \A j \in Jobs, c \in Calls : pipe[j][c] \in CallRecord
  BY DEF TypeOK, CallRecord
<1>6. \A r \in CallRecord : [r EXCEPT !.step = "start"] \in CallRecord
                            /\ [r EXCEPT !.step = "start"].step = "start"
  BY DEF CallRecord
<1>7. pipe' \in [Jobs -> [Calls -> CallRecord]]
  <2>1. \A j \in J : [pipe[j] EXCEPT ![NewCall(j)].step = "start"] \in [Calls -> CallRecord]
    BY <1>3, <1>5, <1>6 DEF TypeOK, CallRecord
  <2> QED
    BY <1>1, <2>1 DEF TypeOK, CallRecord
<1>8. inflight' \in [Jobs -> Calls \cup {None}]
  BY <1>1, <1>3 DEF TypeOK
<1>9. InFlight' = InFlight \cup J
  BY <1>1, <1>3, CallsAssumption DEF InFlight
<1>10. \A j \in J : pipe'[j][NewCall(j)].step = "start"
  <2> SUFFICES ASSUME NEW j \in J PROVE pipe'[j][NewCall(j)].step = "start"
    OBVIOUS
  <2>1. pipe'[j][NewCall(j)] = [pipe[j][NewCall(j)] EXCEPT !.step = "start"]
    BY <1>3, <1>4
  <2> QED
    BY <1>3, <1>5, <1>6, <2>1
<1>11. \A j \in Jobs, c \in Calls : pipe'[j][c] # pipe[j][c] => j \in J /\ c = NewCall(j)
  BY <1>4
<1>12. Busy' = Busy \cup J
  <2>1. \A j \in Jobs : j \in Busy' => j \in Busy \cup J
    BY <1>11 DEF Busy, CallsOf
  <2>2. \A j \in J : j \in Busy'
    BY <1>3, <1>10 DEF Busy, CallsOf
  <2>3. \A j \in Jobs : j \in Busy /\ j \notin J => j \in Busy'
    BY <1>11 DEF Busy, CallsOf
  <2>4. Busy \subseteq Jobs /\ Busy' \subseteq Jobs
    BY DEF Busy
  <2> QED
    BY <2>1, <2>2, <2>3, <2>4
<1> QED
  BY <1>1, <1>3, <1>7, <1>8, <1>9, <1>10, <1>11, <1>12

\* What the end of a call does to the pipelines and to the map.
LEMMA EndOfCall ==
  ASSUME TypeOK, NEW j \in Jobs, NEW c \in Calls, Ended(j, c)
  PROVE  /\ pipe' \in [Jobs -> [Calls -> CallRecord]]
         /\ inflight' \in [Jobs -> Calls \cup {None}]
         /\ rejoined' \in SUBSET Jobs
         /\ \A i \in Jobs, d \in Calls : i # j \/ d # c => pipe'[i][d] = pipe[i][d]
         /\ \A i \in Jobs : i # j => inflight'[i] = inflight[i]
         /\ \A i \in Jobs : CallsOf(i)' = IF i = j THEN CallsOf(i) \ {c} ELSE CallsOf(i)
         /\ InFlight' \subseteq InFlight
         /\ Busy' \subseteq Busy
         /\ \A i \in Busy' : i \in rejoined => i \in rejoined'
         /\ inflight'[j] = None
<1>1. /\ pipe' = [pipe EXCEPT ![j][c] = Idle]
      /\ inflight' = [inflight EXCEPT ![j] = None]
      /\ rejoined' = IF CallsOf(j) = {c} THEN rejoined \ {j} ELSE rejoined
  BY DEF Ended
<1>2. pipe' \in [Jobs -> [Calls -> CallRecord]]
  BY <1>1 DEF TypeOK, CallRecord, Idle
<1>3. inflight' \in [Jobs -> Calls \cup {None}] /\ rejoined' \in SUBSET Jobs
  BY <1>1 DEF TypeOK
<1>4. \A i \in Jobs, d \in Calls : pipe'[i][d] = IF i = j /\ d = c THEN Idle ELSE pipe[i][d]
  BY <1>1 DEF TypeOK
<1>5. \A i \in Jobs : CallsOf(i)' = IF i = j THEN CallsOf(i) \ {c} ELSE CallsOf(i)
  BY <1>4 DEF CallsOf, Idle
<1>6. Busy' \subseteq Busy
  BY <1>5 DEF Busy
<1>7. /\ InFlight' \subseteq InFlight /\ inflight'[j] = None
      /\ \A i \in Jobs : i # j => inflight'[i] = inflight[i]
  BY <1>1 DEF InFlight, TypeOK
<1>8. \A i \in Busy' : i \in rejoined => i \in rejoined'
  BY <1>1, <1>5 DEF Busy
<1> QED
  BY <1>2, <1>3, <1>4, <1>5, <1>6, <1>7, <1>8

-----------------------------------------------------------------------------
\* The initial states.

\* At the start nothing runs, and the first claim asks for every slot.
LEMMA InitWInv == Init => WInv
<1> SUFFICES ASSUME Init PROVE WInv
  OBVIOUS
<1>1. TypeOK
  <2>1. Idle \in CallRecord
    BY DEF Idle, CallRecord
  <2>2. pipe \in [Jobs -> [Calls -> CallRecord]]
    BY <2>1 DEF Init
  <2>3. asked \in 0..Concurrency /\ upsets \in 0..MaxUpsets
    BY ConcurrencyAssumption, UpsetsAssumption DEF Init
  <2>4. row \in [Jobs -> {"queued", "done"} \cup Active] /\ stage \in Stages
        /\ revoked \in [Jobs -> 0..MaxUpsets]
    BY UpsetsAssumption DEF Init, Stages
  <2> QED
    BY <2>2, <2>3, <2>4 DEF Init, TypeOK, CallRecord
<1>2. InFlight = {} /\ Busy = {} /\ Cardinality({}) = 0
  BY FS_EmptySet DEF Init, InFlight, Busy, CallsOf, Idle
<1>3. Slots
  BY <1>2, ConcurrencyAssumption DEF Init, Slots
<1>4. \A j \in Jobs : MapOf(j) /\ HeldOf(j)
  BY <1>2 DEF Init, MapOf, HeldOf
<1>5. Draining
  BY <1>2 DEF Init, Draining
<1>6. \A j \in Jobs : MissedOf(j)
  <2> SUFFICES ASSUME NEW j \in Jobs PROVE MissedOf(j)
    OBVIOUS
  <2>1. CallsOf(j) \ {inflight[j]} = {}
    BY <1>2 DEF Busy
  <2>2. Missed(j) = 0 /\ Loose(j) = 0
    BY <1>2, <2>1 DEF Missed, Loose, Init
  <2> QED
    BY <2>2 DEF MissedOf, Init
<1> QED
  BY <1>1, <1>3, <1>4, <1>5, <1>6 DEF WInv

-----------------------------------------------------------------------------
\* The steps of the loop.

\* Rows are committed to this worker within the capacity that was asked for.
LEMMA ClaimCommitStep ==
  ASSUME WInv, NEW S \in SUBSET Jobs, ClaimCommit(S)
  PROVE  WInv'
<1>1. /\ loop = "claiming" /\ got' = got \cup S /\ dropped' = dropped \ S
      /\ Cardinality(got) + Cardinality(S) <= asked
      /\ row' = [j \in Jobs |-> IF j \in S THEN "claimed" ELSE row[j]]
      /\ UNCHANGED <<wstat, loop, asked, pipe, inflight, running, stage, awaited, drained,
                     rejoined, revoked, upsets>>
  BY DEF ClaimCommit, pipeVars
<1>2. TypeOK'
  BY <1>1 DEF WInv, TypeOK, Active
<1>3. UNCHANGED <<InFlight, Busy>> /\ \A j : CallsOf(j)' = CallsOf(j)
  BY <1>1 DEF InFlight, Busy, CallsOf
<1>4. Slots'
  <2>1. got \in SUBSET Jobs /\ asked \in Nat
    BY DEF WInv, TypeOK
  <2>2. Cardinality(got') \in Nat /\ Cardinality(got') <= Cardinality(got) + Cardinality(S)
        /\ Cardinality(got) \in Nat /\ Cardinality(S) \in Nat
    BY <1>1, <2>1, JobUnion, JobSets
  <2> QED
    BY <1>1, <1>3, <2>1, <2>2 DEF WInv, Slots
<1>5. \A j \in Jobs : MapOf(j)'
  BY <1>1, <1>3 DEF WInv, MapOf
<1>6. \A j \in Jobs : HeldOf(j)'
  <2> SUFFICES ASSUME NEW j \in Jobs PROVE HeldOf(j)'
    OBVIOUS
  <2>1. CASE j \in S
    BY <1>1, <2>1 DEF HeldOf
  <2>2. CASE j \notin S
    BY <1>1, <2>2 DEF WInv, HeldOf, Alive
  <2> QED
    BY <2>1, <2>2
<1>7. Draining'
  BY <1>1, <1>3 DEF WInv, Draining
<1>8. \A j \in Jobs : MissedOf(j)'
  <2> SUFFICES ASSUME NEW j \in Jobs PROVE MissedOf(j)'
    OBVIOUS
  <2>1. upsets \in Nat
    BY UpsetsAssumption DEF WInv, TypeOK
  <2>2. CASE j \notin S
    BY <1>1, <1>3, <2>1, <2>2, MissedStays
  <2>3. CASE j \in S
    <3>1. MissedOf(j) /\ Missed(j)' = Missed(j)
      BY <1>1, <1>3 DEF WInv, Missed
    <3>2. row[j] = "queued" /\ row'[j] = "claimed"
      BY <1>1, <2>3 DEF ClaimCommit
    <3>3. Loose(j)' <= Loose(j) /\ Loose(j)' \in 0..2 /\ Loose(j) \in 0..2
      BY <1>1, <3>2 DEF Loose
    <3>4. Missed(j) \in Nat /\ revoked[j] \in Nat
      BY <3>1, MissedCount DEF WInv, TypeOK
    <3> HIDE DEF Missed, Loose
    <3>5. Missed(j)' + Loose(j)' <= revoked[j]
      BY <3>1, <3>3, <3>4 DEF MissedOf
    <3> QED
      BY <1>1, <1>3, <3>1, <3>5 DEF MissedOf
  <2> QED
    BY <2>2, <2>3
<1> QED
  BY <1>2, <1>4, <1>5, <1>6, <1>7, <1>8 DEF WInv

\* The head of the loop keeps to its states, and asks for no more than is free.
LEMMA PollAsks ==
  ASSUME NEW size \in Nat, size <= Concurrency, Poll(size)
  PROVE  /\ loop' \in {"claiming", "sleep", "ended"} /\ asked' \in 0..Concurrency
         /\ size + asked' <= Concurrency
         /\ loop' # "claiming" => asked' = 0
  BY ConcurrencyAssumption DEF Poll

\* Every row that claimJobs returns is launched, in a slot that is free.
LEMMA ClaimReturnsStep ==
  ASSUME WInv, ClaimReturns
  PROVE  WInv'
<1> DEFINE size == Cardinality(InFlight \cup got)
<1>1. /\ loop = "claiming" /\ got' = {} /\ Launch(got) /\ Alive
      /\ UNCHANGED <<row, wstat, running, stage, awaited, drained, dropped, revoked, upsets>>
  BY DEF ClaimReturns
<1>2. TypeOK /\ got \in SUBSET Jobs /\ InFlight \in SUBSET Jobs /\ asked \in 0..Concurrency
  BY DEF WInv, TypeOK, InFlight
<1>3. /\ pipe' \in [Jobs -> [Calls -> CallRecord]]
      /\ inflight' \in [Jobs -> Calls \cup {None}]
      /\ \A j \in got : NewCall(j) \in Calls /\ pipe[j][NewCall(j)].step = "idle"
                        /\ pipe'[j][NewCall(j)].step = "start"
      /\ \A j \in Jobs, c \in Calls :
            pipe'[j][c] # pipe[j][c] => j \in got /\ c = NewCall(j)
      /\ \A j \in Jobs : inflight'[j] = IF j \in got THEN NewCall(j) ELSE inflight[j]
      /\ InFlight' = InFlight \cup got
      /\ rejoined' = rejoined \cup (got \cap Busy)
      /\ Busy' = Busy \cup got
  BY <1>1, <1>2, Launched
<1> HIDE DEF NewCall
<1>4. size \in Nat /\ size <= Concurrency
  <2>1. Cardinality(InFlight) \in Nat /\ Cardinality(got) \in Nat
    BY <1>2, JobSets
  <2>2. size <= Cardinality(InFlight) + Cardinality(got) /\ size \in Nat
    BY <1>2, JobUnion, JobSets
  <2> QED
    BY <1>2, <2>1, <2>2, ConcurrencyAssumption DEF WInv, Slots
<1>5. /\ loop' \in {"claiming", "sleep", "ended"} /\ asked' \in 0..Concurrency
      /\ size + asked' <= Concurrency
      /\ loop' # "claiming" => asked' = 0
  <2>1. \/ loop' = "sleep" /\ asked' = 0
        \/ Poll(size)
    BY <1>1 DEF Launch
  <2> HIDE DEF size
  <2>2. CASE loop' = "sleep" /\ asked' = 0
    BY <1>4, <2>2, ConcurrencyAssumption
  <2>3. CASE Poll(size)
    BY <1>4, <2>3, PollAsks
  <2> QED
    BY <2>1, <2>2, <2>3
<1>6. TypeOK'
  BY <1>1, <1>2, <1>3, <1>5 DEF TypeOK, CallRecord
<1>7. Slots'
  <2>1. Cardinality(got') = 0
    BY <1>1, FS_EmptySet
  <2> QED
    BY <1>3, <1>4, <1>5, <2>1 DEF Slots
<1>8. \A j \in Jobs : MapOf(j)'
  <2> SUFFICES ASSUME NEW j \in Jobs, j \in Busy', j \notin rejoined'
               PROVE  CallsOf(j)' = {inflight'[j]}
    BY DEF MapOf
  <2>1. CASE j \notin got
    <3>1. j \in Busy /\ j \notin rejoined /\ inflight'[j] = inflight[j]
      BY <1>3, <2>1
    <3>2. CallsOf(j)' = CallsOf(j)
      BY <1>3, <2>1 DEF CallsOf
    <3> QED
      BY <3>1, <3>2 DEF WInv, MapOf
  <2>2. CASE j \in got
    <3>1. CallsOf(j) = {}
      BY <1>3, <2>2 DEF Busy
    <3>2. \A c \in Calls : pipe'[j][c].step # "idle" => c = NewCall(j)
      BY <1>3, <3>1 DEF CallsOf
    <3>3. CallsOf(j)' = {NewCall(j)}
      BY <1>3, <2>2, <3>2 DEF CallsOf
    <3> QED
      BY <1>3, <2>2, <3>3
  <2> QED
    BY <2>1, <2>2
<1>9. \A j \in Jobs : HeldOf(j)'
  <2> SUFFICES ASSUME NEW j \in Jobs PROVE HeldOf(j)'
    OBVIOUS
  <2>1. HeldOf(j) /\ row'[j] = row[j]
    BY <1>1 DEF WInv
  <2>2. row[j] = "claimed" => j \in dropped \/ \E c \in Calls : pipe'[j][c].step = "start"
    <3>1. CASE j \in got
      BY <1>3, <3>1
    <3>2. CASE j \notin got
      BY <1>1, <1>3, <2>1, <3>2 DEF HeldOf
    <3> QED
      BY <3>1, <3>2
  <2>3. row[j] = "running" => j \in dropped
            \/ \E c \in Calls : pipe'[j][c].step = "handler" /\ pipe'[j][c].open
    <3> SUFFICES ASSUME NEW c \in Calls, pipe[j][c].step = "handler", pipe[j][c].open
                 PROVE  pipe'[j][c] = pipe[j][c]
      BY <1>1, <2>1 DEF HeldOf
    <3> QED
      BY <1>3
  <2> QED
    BY <1>1, <2>1, <2>2, <2>3 DEF HeldOf
<1>10. Draining'
  BY <1>1 DEF WInv, Draining, Alive, TypeOK
<1>11. \A j \in Jobs : MissedOf(j)'
  <2> SUFFICES ASSUME NEW j \in Jobs PROVE MissedOf(j)'
    OBVIOUS
  <2>1. upsets \in Nat /\ revoked[j] \in Nat /\ MissedOf(j)
    BY UpsetsAssumption DEF WInv, TypeOK
  <2>2. CASE j \notin got
    <3>1. CallsOf(j)' = CallsOf(j) /\ inflight'[j] = inflight[j]
      BY <1>3, <2>2 DEF CallsOf
    <3> QED
      BY <1>1, <2>1, <2>2, <3>1, MissedStays
  <2>3. CASE j \in got
    <3>1. inflight'[j] = NewCall(j) /\ NewCall(j) \in CallsOf(j)' /\ NewCall(j) \notin CallsOf(j)
      BY <1>3, <2>3 DEF CallsOf
    <3>2. CallsOf(j)' \ {NewCall(j)} = CallsOf(j)
      BY <1>3, <3>1 DEF CallsOf
    <3>3. Missed(j)' = Cardinality(CallsOf(j))
      BY <3>1, <3>2 DEF Missed
    <3>4. /\ Missed(j) \in Nat /\ Loose(j) \in 0..2
          /\ Cardinality(CallsOf(j)) =
                IF inflight[j] = None THEN Missed(j) ELSE Missed(j) + 1
      BY <1>2, <2>1, MissedCount
    <3>5. /\ Loose(j)' \in 0..2
          /\ Loose(j) = (IF inflight[j] # None THEN 1 ELSE 0) + Loose(j)'
      BY <1>1, <2>3, <3>1, <1>3, CallsAssumption DEF Loose
    <3> HIDE DEF Missed, Loose
    <3>6. Missed(j)' + Loose(j)' <= revoked[j]
      BY <2>1, <3>3, <3>4, <3>5 DEF MissedOf
    <3> QED
      BY <1>1, <2>1, <3>1, <3>6 DEF MissedOf
  <2> QED
    BY <2>2, <2>3
<1> QED
  BY <1>6, <1>7, <1>8, <1>9, <1>10, <1>11 DEF WInv

\* The other two ways the loop goes on: claimJobs rejects, or a sleep ends.
LEMMA LoopStepWInv ==
  ASSUME WInv, ClaimRejects \/ SleepEnds
  PROVE  WInv'
<1>1. /\ UNCHANGED <<row, wstat, pipe, inflight, running, stage, awaited, drained, rejoined,
                     revoked>>
      /\ loop \in {"claiming", "sleep"}
  BY DEF ClaimRejects, SleepEnds, pipeVars, history
<1>2. /\ got \in SUBSET Jobs /\ InFlight \in SUBSET Jobs /\ asked \in 0..Concurrency
      /\ Cardinality(InFlight) \in Nat /\ Cardinality(got) \in Nat
      /\ Cardinality(InFlight) <= Concurrency
  BY JobSets, ConcurrencyAssumption DEF WInv, TypeOK, InFlight, Slots
<1>3. /\ loop' \in {"claiming", "sleep", "ended"} /\ asked' \in 0..Concurrency
      /\ Cardinality(InFlight) + asked' <= Concurrency
      /\ Cardinality(got') <= asked'
      /\ loop' # "claiming" => asked' = 0
      /\ got' \in SUBSET Jobs /\ got' \subseteq got /\ dropped' = dropped \cup (got \ got')
      /\ upsets' \in 0..MaxUpsets /\ upsets <= upsets'
  <2>1. CASE ClaimRejects
    BY <1>2, <2>1, FS_EmptySet, ConcurrencyAssumption, UpsetsAssumption
    DEF ClaimRejects, Upset, WInv, TypeOK
  <2>2. CASE SleepEnds
    <3>1. got' = got /\ dropped' = dropped /\ Poll(Cardinality(InFlight)) /\ upsets' = upsets
      BY <2>2 DEF SleepEnds, history
    <3>2. asked = 0
      BY <2>2 DEF SleepEnds, WInv, Slots
    <3>3. Cardinality(got) = 0
      BY <1>2, <3>2 DEF WInv, Slots
    <3>4. /\ loop' \in {"claiming", "sleep", "ended"} /\ asked' \in 0..Concurrency
          /\ Cardinality(InFlight) + asked' <= Concurrency
          /\ loop' # "claiming" => asked' = 0
      BY <1>2, <3>1, PollAsks
    <3> QED
      BY <1>2, <3>1, <3>3, <3>4, ConcurrencyAssumption DEF WInv, TypeOK
  <2> QED
    BY <2>1, <2>2
<1>4. TypeOK'
  BY <1>1, <1>2, <1>3 DEF WInv, TypeOK
<1>5. UNCHANGED <<InFlight, Busy>> /\ \A j : CallsOf(j)' = CallsOf(j)
  BY <1>1 DEF InFlight, Busy, CallsOf
<1>6. Slots'
  BY <1>3, <1>5 DEF Slots
<1>7. \A j \in Jobs : MapOf(j)' /\ HeldOf(j)'
  BY <1>1, <1>3, <1>5 DEF WInv, MapOf, HeldOf, Alive
<1>8. Draining'
  BY <1>1 DEF WInv, Draining
<1>9. \A j \in Jobs : MissedOf(j)'
  BY <1>1, <1>3, <1>5, UpsetsAssumption, MissedStays
<1> QED
  BY <1>4, <1>6, <1>7, <1>8, <1>9 DEF WInv

-----------------------------------------------------------------------------
\* The steps of a pipeline.

\* The end of a call frees its slot and leaves the others to be awaited.  What is
\* left to show is who moves the row on.
LEMMA EndStep ==
  ASSUME WInv, NEW j \in Jobs, NEW c \in Calls, pipe[j][c].step # "idle",
         Ended(j, c), UNCHANGED <<wstat, procVars>>,
         row' \in [Jobs -> {"queued", "done"} \cup Active],
         \A i \in Jobs : i # j => row'[i] = row[i],
         dropped \subseteq dropped', dropped' \in SUBSET Jobs, revoked' = revoked,
         upsets' \in 0..MaxUpsets, upsets <= upsets',
         HeldOf(j)'
  PROVE  WInv'
<1>1. /\ pipe' \in [Jobs -> [Calls -> CallRecord]]
      /\ inflight' \in [Jobs -> Calls \cup {None}]
      /\ rejoined' \in SUBSET Jobs
      /\ \A i \in Jobs, d \in Calls : i # j \/ d # c => pipe'[i][d] = pipe[i][d]
      /\ \A i \in Jobs : i # j => inflight'[i] = inflight[i]
      /\ \A i \in Jobs : CallsOf(i)' = IF i = j THEN CallsOf(i) \ {c} ELSE CallsOf(i)
      /\ InFlight' \subseteq InFlight
      /\ Busy' \subseteq Busy
      /\ \A i \in Busy' : i \in rejoined => i \in rejoined'
      /\ inflight'[j] = None
  BY EndOfCall DEF WInv
<1>2. UNCHANGED <<loop, asked, got, running, stage, awaited, drained>>
  BY DEF procVars
<1>3. TypeOK'
  BY <1>1, <1>2 DEF WInv, TypeOK, CallRecord
<1>4. Slots'
  <2>1. Cardinality(InFlight') \in Nat /\ Cardinality(InFlight) \in Nat
        /\ Cardinality(InFlight') <= Cardinality(InFlight)
    BY <1>1, JobSets DEF InFlight
  <2> QED
    BY <1>2, <2>1, ConcurrencyAssumption DEF WInv, TypeOK, Slots
<1>5. \A i \in Busy' : CallsOf(i) = {inflight[i]} => i # j
  <2> SUFFICES ASSUME j \in Busy', CallsOf(j) = {inflight[j]} PROVE FALSE
    OBVIOUS
  <2>1. c \in CallsOf(j)
    BY DEF CallsOf
  <2>2. CallsOf(j)' = {}
    BY <1>1, <2>1
  <2> QED
    BY <2>2 DEF Busy
<1>6. \A i \in Jobs : MapOf(i)'
  BY <1>1, <1>5 DEF WInv, MapOf, Busy
<1>7. \A i \in Jobs : HeldOf(i)'
  <2> SUFFICES ASSUME NEW i \in Jobs, i # j PROVE HeldOf(i)'
    OBVIOUS
  <2>1. HeldOf(i) /\ row'[i] = row[i] /\ \A d \in Calls : pipe'[i][d] = pipe[i][d]
    BY <1>1 DEF WInv
  <2> QED
    BY <1>2, <2>1 DEF HeldOf, Alive
<1>8. Draining'
  <2>1. \A i \in Busy' : i \in Jobs /\ i \in Busy
    BY <1>1 DEF Busy
  <2>2. \A i \in Busy' : i \notin rejoined' => i # j /\ inflight'[i] = inflight[i]
    BY <1>1, <1>5, <2>1 DEF WInv, MapOf
  <2> QED
    BY <1>1, <1>2, <2>1, <2>2 DEF WInv, Draining
<1>9. \A i \in Jobs : MissedOf(i)'
  <2> SUFFICES ASSUME NEW i \in Jobs PROVE MissedOf(i)'
    OBVIOUS
  <2>1. /\ upsets \in Nat /\ upsets' \in Nat /\ revoked[j] \in Nat
        /\ TypeOK /\ MissedOf(j)
    BY UpsetsAssumption DEF WInv, TypeOK
  <2>2. CASE i # j
    BY <1>1, <1>2, <2>1, <2>2, MissedStays
  <2>3. CASE i = j
    <3>1. CallsOf(j) \in SUBSET Calls /\ c \in CallsOf(j)
      BY DEF CallsOf
    <3>2. Missed(j)' = Cardinality(CallsOf(j)) - 1
      <4>1. CallsOf(j)' \ {inflight'[j]} = CallsOf(j) \ {c}
        BY <1>1, <3>1, CallsAssumption
      <4>2. IsFiniteSet(CallsOf(j))
        BY <3>1, CallSets
      <4> QED
        BY <3>1, <4>1, <4>2, FS_RemoveElement DEF Missed
    <3>3. /\ Missed(j) \in Nat /\ Loose(j) \in 0..2
          /\ Cardinality(CallsOf(j)) =
                IF inflight[j] = None THEN Missed(j) ELSE Missed(j) + 1
      BY <2>1, MissedCount
    <3>4. Loose(j)' \in 0..1 /\ (inflight[j] # None => Loose(j)' <= Loose(j))
      BY <1>1, <1>2 DEF Loose
    <3> HIDE DEF Missed, Loose
    <3>5. Missed(j)' + Loose(j)' <= revoked[j]
      BY <2>1, <3>2, <3>3, <3>4 DEF MissedOf
    <3> QED
      BY <1>1, <2>1, <2>3, <3>5 DEF MissedOf, WInv, TypeOK
  <2> QED
    BY <2>2, <2>3
<1> QED
  BY <1>3, <1>4, <1>6, <1>7, <1>8, <1>9 DEF WInv

\* startExecution commits: the row runs, under the call that was still to start.
LEMMA StartStep ==
  ASSUME WInv, NEW j \in Jobs, NEW c \in Calls, Start(j, c)
  PROVE  WInv'
<1>1. /\ Alive /\ pipe[j][c].step = "start"
      /\ pipe' = [pipe EXCEPT ![j][c] = [step |-> "handler", open |-> TRUE]]
      /\ row' = [row EXCEPT ![j] = IF @ = "claimed" THEN "running" ELSE @]
      /\ \A d \in Calls : ~pipe[j][d].open
      /\ UNCHANGED <<wstat, loop, asked, got, running, stage, awaited, drained, inflight,
                     rejoined, dropped, revoked, upsets>>
  BY DEF Start, procVars, history
<1>2. /\ \A i \in Jobs, d \in Calls : i # j \/ d # c => pipe'[i][d] = pipe[i][d]
      /\ pipe'[j][c].step = "handler" /\ pipe'[j][c].open
      /\ row'[j] = (IF row[j] = "claimed" THEN "running" ELSE row[j])
      /\ \A i \in Jobs : i # j => row'[i] = row[i]
  BY <1>1 DEF WInv, TypeOK
<1>3. TypeOK'
  <2>1. [step |-> "handler", open |-> TRUE] \in CallRecord
    BY DEF CallRecord
  <2>2. pipe' \in [Jobs -> [Calls -> CallRecord]]
    BY <1>1, <2>1 DEF WInv, TypeOK, CallRecord
  <2>3. row' \in [Jobs -> {"queued", "done"} \cup Active]
    BY <1>1 DEF WInv, TypeOK, Active
  <2> QED
    BY <1>1, <2>2, <2>3 DEF WInv, TypeOK, CallRecord
<1>4. \A i \in Jobs : CallsOf(i)' = CallsOf(i)
  BY <1>1, <1>2 DEF CallsOf
<1>5. Busy' = Busy /\ InFlight' = InFlight
  BY <1>1, <1>4 DEF Busy, InFlight
<1>6. Slots' /\ Draining'
  BY <1>1, <1>5 DEF WInv, Slots, Draining
<1>7. \A i \in Jobs : MapOf(i)'
  BY <1>1, <1>4, <1>5 DEF WInv, MapOf
<1>8. \A i \in Jobs : HeldOf(i)'
  <2> SUFFICES ASSUME NEW i \in Jobs PROVE HeldOf(i)'
    OBVIOUS
  <2>1. HeldOf(i)
    BY DEF WInv
  <2>2. CASE i = j
    BY <1>1, <1>2, <2>1, <2>2 DEF HeldOf
  <2>3. CASE i # j
    BY <1>1, <1>2, <2>1, <2>3 DEF HeldOf, Alive
  <2> QED
    BY <2>2, <2>3
<1>9. \A i \in Jobs : MissedOf(i)'
  <2>1. upsets \in Nat /\ \A i \in Jobs : row'[i] = "queued" => row[i] = "queued"
    BY <1>2, UpsetsAssumption DEF WInv, TypeOK
  <2> QED
    BY <1>1, <1>4, <2>1, MissedStays
<1> QED
  BY <1>3, <1>6, <1>7, <1>8, <1>9 DEF WInv

\* A call that has started ends: a row that is claimed is moved on by another
\* call, and so is a running row whose open execution is not this one's.
LEMMA ReportStep ==
  ASSUME WInv, NEW j \in Jobs, NEW c \in Calls, Complete(j, c) \/ Fail(j, c)
  PROVE  WInv'
<1>1. /\ Alive /\ pipe[j][c].step = "handler" /\ Ended(j, c)
      /\ UNCHANGED <<wstat, procVars, dropped, revoked, upsets>>
  BY DEF Complete, Fail
<1>2. /\ row' \in [Jobs -> {"queued", "done"} \cup Active]
      /\ \A i \in Jobs : i # j => row'[i] = row[i]
      /\ \/ row'[j] \notin Active
         \/ row'[j] = row[j] /\ (row[j] = "running" => ~pipe[j][c].open)
  <2>1. CASE Complete(j, c)
    BY <2>1 DEF Complete, WInv, TypeOK, Active
  <2>2. CASE Fail(j, c)
    BY <2>2 DEF Fail, WInv, TypeOK, Active
  <2> QED
    BY <2>1, <2>2
<1>3. \A d \in Calls : d # c => pipe'[j][d] = pipe[j][d]
  BY <1>1, EndOfCall DEF WInv
<1>4. HeldOf(j)'
  <2>1. CASE row'[j] \notin Active
    BY <2>1 DEF HeldOf, Active
  <2>2. CASE row'[j] = row[j] /\ (row[j] = "running" => ~pipe[j][c].open)
    <3>1. HeldOf(j)
      BY DEF WInv
    <3> QED
      BY <1>1, <1>3, <2>2, <3>1 DEF HeldOf, procVars
  <2> QED
    BY <1>2, <2>1, <2>2
<1>5. dropped' \in SUBSET Jobs /\ upsets' \in 0..MaxUpsets /\ upsets <= upsets'
  BY <1>1, UpsetsAssumption DEF WInv, TypeOK
<1> QED
  BY <1>1, <1>2, <1>4, <1>5, EndStep

\* A call that ends without a commit leaves a row that is known to be lost.
LEMMA LostStep ==
  ASSUME WInv, NEW j \in Jobs, NEW c \in Calls, StartRejected(j, c) \/ ReportLost(j, c)
  PROVE  WInv'
<1>1. /\ pipe[j][c].step # "idle" /\ Ended(j, c) /\ dropped' = dropped \cup {j}
      /\ UNCHANGED <<wstat, procVars, revoked>>
  BY DEF StartRejected, ReportLost
<1>2. upsets' \in 0..MaxUpsets /\ upsets <= upsets'
  BY UpsetsAssumption DEF StartRejected, ReportLost, Upset, WInv, TypeOK
<1>3. HeldOf(j)'
  BY <1>1 DEF HeldOf
<1>4. /\ dropped' \in SUBSET Jobs /\ row' \in [Jobs -> {"queued", "done"} \cup Active]
      /\ \A i \in Jobs : i # j => row'[i] = row[i]
  BY <1>1 DEF StartRejected, ReportLost, WInv, TypeOK, Active
<1> QED
  BY <1>1, <1>2, <1>3, <1>4, EndStep

-----------------------------------------------------------------------------
\* stop(), the end of the process, and the fleet.

\* The steps of stop() touch no row, no pipeline and no entry of the map.
LEMMA StopStepWInv ==
  ASSUME WInv, Stop \/ SetDraining \/ BeginDrain \/ EndDrain \/ SetOffline
  PROVE  WInv'
<1>1. UNCHANGED <<row, asked, got, pipe, inflight, rejoined, dropped, revoked>>
  BY DEF Stop, SetDraining, BeginDrain, EndDrain, SetOffline, pipeVars, history
<1>2. UNCHANGED <<InFlight, Busy>> /\ \A j : CallsOf(j)' = CallsOf(j)
  BY <1>1 DEF InFlight, Busy, CallsOf
<1>3. Alive
  BY DEF Stop, SetDraining, BeginDrain, EndDrain, SetOffline, Alive
<1>4. TypeOK'
  <2> USE DEF WInv, TypeOK, Stages
  <2>1. CASE Stop
    BY <1>1, <2>1 DEF Stop
  <2>2. CASE SetDraining
    BY <1>1, <2>2, UpsetsAssumption DEF SetDraining, Upset
  <2>3. CASE BeginDrain
    <3>1. awaited' \in SUBSET (Jobs \X Calls)
      BY <2>3 DEF BeginDrain, InFlight
    <3> QED
      BY <1>1, <2>3, <3>1 DEF BeginDrain
  <2>4. CASE EndDrain
    BY <1>1, <2>4 DEF EndDrain
  <2>5. CASE SetOffline
    BY <1>1, <2>5, UpsetsAssumption DEF SetOffline, Upset
  <2> QED
    BY <2>1, <2>2, <2>3, <2>4, <2>5
<1>5. Slots'
  BY <1>1, <1>2
  DEF WInv, Slots, Stop, SetDraining, BeginDrain, EndDrain, SetOffline
<1>6. \A j \in Jobs : MapOf(j)' /\ HeldOf(j)'
  BY <1>1, <1>2, <1>3 DEF WInv, MapOf, HeldOf
<1>7. Draining'
  <2>1. CASE Stop
    BY <1>1, <1>2, <2>1 DEF Stop, WInv, Draining
  <2>2. CASE SetDraining
    BY <1>1, <1>2, <2>2 DEF SetDraining, WInv, Draining
  <2>3. CASE BeginDrain
    <3>1. \A j \in Busy : <<j, inflight[j]>> \in awaited' \/ j \in rejoined
      <4> SUFFICES ASSUME NEW j \in Busy, j \notin rejoined
                   PROVE  j \in InFlight
        BY <2>3 DEF BeginDrain
      <4>1. j \in Jobs /\ MapOf(j)
        BY DEF WInv, Busy
      <4>2. CallsOf(j) = {inflight[j]} /\ CallsOf(j) \subseteq Calls
        BY <4>1 DEF MapOf, CallsOf
      <4> QED
        BY <4>1, <4>2, CallsAssumption DEF InFlight
    <3> QED
      BY <1>1, <1>2, <2>3, <3>1 DEF BeginDrain, WInv, Draining
  <2>4. CASE EndDrain
    <3>1. ASSUME \A a \in awaited : pipe[a[1]][a[2]].step = "idle", NEW j \in Busy
          PROVE  j \in rejoined
      <4> SUFFICES ASSUME j \notin rejoined PROVE FALSE
        OBVIOUS
      <4>1. <<j, inflight[j]>> \in awaited /\ MapOf(j)
        BY <2>4 DEF EndDrain, WInv, Draining, Busy
      <4>2. CallsOf(j) = {inflight[j]}
        BY <4>1 DEF MapOf
      <4>3. pipe[j][inflight[j]].step = "idle"
        BY <3>1, <4>1
      <4> QED
        BY <4>2, <4>3 DEF CallsOf
    <3> QED
      BY <1>1, <1>2, <2>4, <3>1 DEF EndDrain, WInv, Draining
  <2>5. CASE SetOffline
    BY <1>1, <1>2, <2>5 DEF SetOffline, WInv, Draining
  <2> QED
    BY <2>1, <2>2, <2>3, <2>4, <2>5
<1>8. \A j \in Jobs : MissedOf(j)'
  <2>1. upsets' \in Nat /\ upsets \in Nat /\ upsets <= upsets'
    BY UpsetsAssumption
    DEF WInv, TypeOK, Stop, SetDraining, BeginDrain, EndDrain, SetOffline, Upset
  <2> QED
    BY <1>1, <1>2, <2>1, MissedStays
<1> QED
  BY <1>4, <1>5, <1>6, <1>7, <1>8 DEF WInv

\* The process is gone, and nothing of it is left but its rows.
LEMMA GoneStep ==
  ASSUME WInv, Gone, upsets' \in 0..MaxUpsets
  PROVE  WInv'
<1>1. TypeOK'
  <2>1. Idle \in CallRecord
    BY DEF Idle, CallRecord
  <2>2. pipe' \in [Jobs -> [Calls -> CallRecord]]
    BY <2>1 DEF Gone
  <2>3. asked' \in 0..Concurrency /\ stage' \in Stages /\ revoked' \in [Jobs -> 0..MaxUpsets]
    BY ConcurrencyAssumption, UpsetsAssumption DEF Gone, Stages
  <2> QED
    BY <2>2, <2>3 DEF Gone, WInv, TypeOK, CallRecord
<1>2. InFlight' = {} /\ Busy' = {} /\ ~Alive' /\ Cardinality({}) = 0
  BY FS_EmptySet DEF Gone, InFlight, Busy, CallsOf, Idle, Alive
<1>3. Slots'
  BY <1>2, ConcurrencyAssumption DEF Gone, Slots
<1>4. \A j \in Jobs : MapOf(j)' /\ HeldOf(j)'
  BY <1>2 DEF MapOf, HeldOf
<1>5. Draining'
  BY DEF Gone, Draining
<1>6. \A j \in Jobs : MissedOf(j)'
  <2> SUFFICES ASSUME NEW j \in Jobs PROVE MissedOf(j)'
    OBVIOUS
  <2>1. CallsOf(j)' \ {inflight'[j]} = {}
    BY <1>2 DEF Busy
  <2>2. Missed(j)' = 0 /\ Loose(j)' = 0
    BY <1>2, <2>1 DEF Missed, Loose, Gone
  <2> QED
    BY <2>2, UpsetsAssumption DEF MissedOf, Gone
<1> QED
  BY <1>1, <1>3, <1>4, <1>5, <1>6 DEF WInv

\* A row is taken back by the reaper; the calls that work on it do not notice.
LEMMA GiveBackStep ==
  ASSUME WInv, NEW j \in Jobs, GiveBack(j)
  PROVE  WInv'
<1>1. /\ row' \in [Jobs -> {"queued", "done"} \cup Active]
      /\ row'[j] \notin Active /\ \A i \in Jobs : i # j => row'[i] = row[i]
      /\ pipe' = [pipe EXCEPT ![j] = [c \in Calls |-> [@[c] EXCEPT !.open = FALSE]]]
      /\ UNCHANGED <<wstat, loop, asked, got, running, stage, awaited, drained, inflight,
                     rejoined, dropped>>
  BY DEF GiveBack, procVars, WInv, TypeOK, Active
<1>2. /\ upsets \in Nat /\ upsets' \in 0..MaxUpsets /\ upsets <= upsets'
      /\ \A i \in Jobs : revoked[i] \in Nat
      /\ \A i \in Jobs : i # j => revoked'[i] = revoked[i]
      /\ IF j \in got \cup Busy
         THEN upsets' = upsets + 1 /\ revoked'[j] = revoked[j] + 1
         ELSE upsets' = upsets /\ revoked' = revoked
  <2>1. upsets \in 0..MaxUpsets /\ revoked \in [Jobs -> 0..MaxUpsets]
    BY DEF WInv, TypeOK
  <2> QED
    BY <2>1, UpsetsAssumption DEF GiveBack, Upset
<1>3. /\ \A c \in Calls : pipe'[j][c] = [pipe[j][c] EXCEPT !.open = FALSE]
      /\ \A i \in Jobs : i # j => pipe'[i] = pipe[i]
  BY <1>1 DEF WInv, TypeOK
<1>4. \A r \in CallRecord : [r EXCEPT !.open = FALSE] \in CallRecord
                            /\ [r EXCEPT !.open = FALSE].step = r.step
  BY DEF CallRecord
<1>5. \A c \in Calls : pipe[j][c] \in CallRecord
  BY DEF WInv, TypeOK, CallRecord
<1>6. TypeOK'
  <2>1. [c \in Calls |-> [pipe[j][c] EXCEPT !.open = FALSE]] \in [Calls -> CallRecord]
    BY <1>4, <1>5
  <2>2. pipe' \in [Jobs -> [Calls -> CallRecord]]
    BY <1>1, <2>1 DEF WInv, TypeOK, CallRecord
  <2>3. revoked' \in [Jobs -> 0..MaxUpsets]
    <3>1. CASE j \in got \cup Busy
      <4>1. revoked[j] + 1 \in 0..MaxUpsets
        BY <1>2, <3>1, UpsetsAssumption DEF WInv, MissedOf
      <4> QED
        BY <3>1, <4>1 DEF GiveBack, WInv, TypeOK
    <3>2. CASE j \notin got \cup Busy
      BY <1>2, <3>2 DEF WInv, TypeOK
    <3> QED
      BY <3>1, <3>2
  <2> QED
    BY <1>1, <1>2, <2>2, <2>3 DEF WInv, TypeOK, CallRecord
<1>7. \A i \in Jobs : CallsOf(i)' = CallsOf(i)
  <2>1. \A c \in Calls : pipe'[j][c].step = pipe[j][c].step
    BY <1>3, <1>4, <1>5
  <2> QED
    BY <1>3, <2>1 DEF CallsOf
<1>8. Busy' = Busy /\ InFlight' = InFlight
  BY <1>1, <1>7 DEF Busy, InFlight
<1>9. Slots' /\ Draining'
  BY <1>1, <1>8 DEF WInv, Slots, Draining
<1>10. \A i \in Jobs : MapOf(i)'
  BY <1>1, <1>7, <1>8 DEF WInv, MapOf
<1>11. \A i \in Jobs : HeldOf(i)'
  <2> SUFFICES ASSUME NEW i \in Jobs PROVE HeldOf(i)'
    OBVIOUS
  <2>1. CASE i = j
    BY <1>1, <2>1 DEF HeldOf, Active
  <2>2. CASE i # j
    <3>1. HeldOf(i)
      BY DEF WInv
    <3> QED
      BY <1>1, <1>3, <2>2, <3>1 DEF HeldOf, Alive
  <2> QED
    BY <2>1, <2>2
<1>12. \A i \in Jobs : MissedOf(i)'
  <2> SUFFICES ASSUME NEW i \in Jobs PROVE MissedOf(i)'
    OBVIOUS
  <2>1. MissedOf(j) /\ TypeOK
    BY DEF WInv
  <2>2. CASE i # j
    BY <1>1, <1>2, <1>7, <2>2, MissedStays
  <2>3. CASE i = j
    <3>1. Missed(j)' = Missed(j) /\ Missed(j) \in Nat
      BY <1>1, <1>7, <2>1, MissedCount DEF Missed
    <3>2. /\ Loose(j)' \in 0..2 /\ Loose(j) \in 0..2 /\ Loose(j)' <= Loose(j) + 1
          /\ j \notin got \cup Busy => Loose(j)' = 0 /\ Loose(j) = 0
      BY <1>1, <2>1 DEF Loose, MissedOf, Busy, Active, GiveBack
    <3> HIDE DEF Missed, Loose
    <3>3. Missed(j)' + Loose(j)' <= revoked'[j]
      BY <1>2, <2>1, <3>1, <3>2 DEF MissedOf
    <3> QED
      BY <1>1, <1>2, <1>7, <2>1, <2>3, <3>3 DEF MissedOf
  <2> QED
    BY <2>2, <2>3
<1> QED
  BY <1>6, <1>9, <1>10, <1>11, <1>12 DEF WInv

\* A status of the worker's row, and nothing else, changes.
LEMMA StatusStep ==
  ASSUME WInv, UNCHANGED <<row, procVars, pipeVars, history>>,
         wstat' \in {"online", "draining", "offline", "dead"},
         upsets' \in 0..MaxUpsets, upsets <= upsets'
  PROVE  WInv'
<1>1. TypeOK' /\ Slots' /\ Draining' /\ \A j \in Jobs : MapOf(j)' /\ HeldOf(j)'
  BY DEF WInv, TypeOK, Slots, MapOf, HeldOf, Draining, Alive, InFlight, Busy, CallsOf,
         procVars, pipeVars, history
<1>2. \A j \in Jobs : MissedOf(j)'
  BY UpsetsAssumption, MissedStays DEF CallsOf, procVars, pipeVars, history
<1> QED
  BY <1>1, <1>2 DEF WInv

\* Every step preserves the inductive invariant.
LEMMA NextWInv == WInv /\ [Next]_vars => WInv'
<1> SUFFICES ASSUME WInv, [Next]_vars PROVE WInv'
  OBVIOUS
<1>1. CASE UNCHANGED vars
  BY <1>1, StatusStep, UpsetsAssumption DEF vars, WInv, TypeOK
<1>2. CASE LoopStep
  BY <1>2, ClaimReturnsStep, LoopStepWInv DEF LoopStep
<1>3. CASE Stop \/ SetDraining \/ BeginDrain \/ EndDrain \/ SetOffline
  BY <1>3, StopStepWInv
<1>4. CASE Exit \/ Crash
  BY <1>4, GoneStep, UpsetsAssumption DEF Exit, Crash, Upset, WInv, TypeOK
<1>5. CASE DeclareDead
  BY <1>5, StatusStep, UpsetsAssumption DEF DeclareDead, Upset, WInv, TypeOK
<1>6. ASSUME NEW S \in SUBSET Jobs, ClaimCommit(S) PROVE WInv'
  BY <1>6, ClaimCommitStep
<1>7. ASSUME NEW j \in Jobs, GiveBack(j) PROVE WInv'
  BY <1>7, GiveBackStep
<1>8. ASSUME NEW j \in Jobs, NEW c \in Calls, PipeStep(j, c) PROVE WInv'
  BY <1>8, StartStep, ReportStep, LostStep DEF PipeStep
<1> QED
  BY <1>1, <1>2, <1>3, <1>4, <1>5, <1>6, <1>7, <1>8 DEF Next, StopStep

-----------------------------------------------------------------------------
\* The theorems.

\* WInv is an invariant of the worker process.
THEOREM WorkerInvariance == Spec => []WInv
  BY InitWInv, NextWInv, PTL DEF Spec

\* The variables of the process and its rows keep their types.
THEOREM WorkerTypeCorrect == Spec => []TypeOK
<1>1. WInv => TypeOK
  BY DEF WInv
<1> QED
  BY <1>1, WorkerInvariance, PTL

\* The map never outgrows WORKER_CONCURRENCY, although the capacity is computed
\* before an await and entries are deleted by job; and the calls it misses are no
\* more than the times the reaper took their job from under this process.
THEOREM SlotsCorrect == Spec => []SlotsKept
<1>1. WInv => SlotsKept
  <2> SUFFICES ASSUME WInv PROVE SlotsKept
    OBVIOUS
  <2>1. Cardinality(InFlight) \in Nat /\ asked \in 0..Concurrency
    BY JobSets DEF InFlight, WInv, TypeOK
  <2>2. Cardinality(InFlight) <= Concurrency
    BY <2>1, ConcurrencyAssumption DEF WInv, Slots
  <2>3. ASSUME NEW j \in Jobs PROVE Missed(j) <= revoked[j]
    <3>1. TypeOK /\ MissedOf(j) /\ revoked[j] \in Nat
      BY DEF WInv, TypeOK
    <3>2. Missed(j) \in Nat /\ Loose(j) \in 0..2
      BY <3>1, MissedCount
    <3> QED
      BY <3>1, <3>2 DEF MissedOf
  <2> QED
    BY <2>2, <2>3 DEF SlotsKept, Missed
<1> QED
  BY <1>1, WorkerInvariance, PTL

\* Every row the process holds is on its way to a pipeline or in one, unless an
\* error lost it: a claim that stop() has overtaken is launched all the same.
THEOREM ClaimsCorrect == Spec => []ClaimsAreLaunched
<1>1. WInv => ClaimsAreLaunched
  BY DEF WInv, HeldOf, ClaimsAreLaunched, Active, Busy, CallsOf
<1> QED
  BY <1>1, WorkerInvariance, PTL

\* After a drain that reports to be complete no pipeline runs, but those of jobs
\* claimed again under a running one.
THEOREM DrainCorrect == Spec => []DrainIsComplete
<1>1. WInv => DrainIsComplete
  <2> SUFFICES ASSUME WInv, stage \in {"offline", "closing"}, drained
               PROVE  got = {} /\ Busy \subseteq rejoined
    BY DEF DrainIsComplete
  <2>1. got \in SUBSET Jobs /\ asked = 0 /\ Busy \subseteq rejoined
    BY DEF WInv, TypeOK, Slots, Draining
  <2>2. IsFiniteSet(got) /\ Cardinality(got) \in Nat /\ Cardinality(got) <= 0
    BY <2>1, JobSets DEF WInv, Slots
  <2>3. got = {}
    BY <2>2, FS_EmptySet
  <2> QED
    BY <2>1, <2>3
<1> QED
  BY <1>1, WorkerInvariance, PTL
=============================================================================
