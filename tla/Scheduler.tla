------------------------------ MODULE Scheduler ------------------------------
(***************************************************************************)
(* The scheduler as a whole: the cron duty of a process that believes it   *)
(* leads (SchedulerLeader) is the materializer (CronSchedules).  The       *)
(* election does not guard the materializer: it only decides who calls it. *)
(***************************************************************************)
EXTENDS SchedulerLeader, CronSchedules

ASSUME TickersAssumption == Tickers = Procs

vars == <<leaderVars, cronVars>>

TypeOK == LeaderTypeOK /\ CronTypeOK

Init == LeaderInit /\ CronInit

\* The pool's connection of a process that is gone is closed, and its transaction
\* rolled back.
Drop(p) == IF p \in inTx THEN Rollback(p) ELSE UNCHANGED cronVars

\* The duties are carried out one after the other.
CronStep(p) ==
    /\ pc[p] = "cron"
    /\ \/ /\ LockDue(p) \/ \E s \in Schedules : Advance(p, s)
          /\ UNCHANGED leaderVars
       \/ CommitRows(p) /\ CronDone(p)

Step(p) == (Runs(p) /\ UNCHANGED cronVars) \/ CronStep(p)

Next ==
    \/ \E p \in Procs : \/ Step(p)
                        \/ CommitRows(p) /\ TickFails(p)   \* its answer is lost
                        \/ TickFails(p) /\ Drop(p)
                        \/ (Exit(p) \/ Crash(p)) /\ Drop(p)
                        \/ Disturbed(p) /\ UNCHANGED cronVars
    \/ GhostEnds /\ UNCHANGED cronVars
    \/ (UserStep \/ ClockTick) /\ UNCHANGED leaderVars

Spec == Init /\ [][Next]_vars

\* What a process does of its own accord: its timers fire, its awaits end one way or
\* the other, and it exits when it has been stopped.
Goes(p) ==
    \/ Step(p)
    \/ (ErrorEvent(p) \/ StopEnds(p)) /\ UNCHANGED cronVars
    \/ Exit(p) /\ Drop(p)

\* Outside of them the server notices a dead session, time passes, and a PATCH that
\* was sent is carried out.
Passes ==
    \/ GhostEnds /\ UNCHANGED cronVars
    \/ ClockTick /\ UNCHANGED leaderVars
    \/ \E u \in Users : (PatchSend(u) \/ PatchUpdate(u)) /\ UNCHANGED leaderVars

\* Weak fairness of each process as a whole and of the surroundings as a whole: which
\* of the steps open to it a process takes is not assumed.
Fairness == (\A p \in Procs : WF_vars(Goes(p))) /\ WF_vars(Passes)

FairSpec == Spec /\ Fairness

-----------------------------------------------------------------------------

\* Liveness: a due schedule fires, through every change of leadership, while one
\* process stays up (architecture.md: another worker acquires leadership).
DueIsEnqueued ==
    \A s \in Schedules :
        s \in DueRows ~> s \notin DueRows
=============================================================================
