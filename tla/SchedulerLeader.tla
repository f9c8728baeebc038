--------------------------- MODULE SchedulerLeader ---------------------------
(***************************************************************************)
(* The leader election of core/scheduler.ts: the processes that run a      *)
(* SchedulerLeader, the database session each keeps open for it, and the   *)
(* session-scoped advisory lock.                                           *)
(*                                                                         *)
(* A tick is a chain of awaits.  stop(), the 'error' listener and the end  *)
(* of the process may come between any two of them, and the three duties   *)
(* run through the pool, not through the session that holds the lock: a    *)
(* process may be in a duty when another one leads already.                *)
(***************************************************************************)
EXTENDS Integers, FiniteSets

CONSTANTS
    Procs,
    Steady,         \* the processes that are never stopped and never crash
    None,           \* the lock is free
    Ghost,          \* the lock is held by a session whose client is gone
    MaxFaults       \* bound: dropped sessions, failed statements, stops and crashes

ASSUME SteadyAssumption == Steady \subseteq Procs
ASSUME HolderAssumption == None \notin Procs /\ Ghost \notin Procs /\ None # Ghost
ASSUME FaultsAssumption == MaxFaults \in Nat

VARIABLES
    pc,             \* where a process is in tick()
    client,         \* processes with this.client set
    lost,           \* of these, the ones whose session the server has dropped
    leader,         \* processes with this.isLeader set
    stopped,        \* processes with this.stopped set
    ending,         \* processes whose stop() awaits client.end()
    holder,         \* who holds the leader lock at the server
    faults          \* faults so far (bounded)

leaderVars == <<pc, client, lost, leader, stopped, ending, holder, faults>>

\* promoteDueJobs comes first and is a statement in the pool: "cron" stands for its
\* await as well.
Duties == {"cron", "reap"}
Places == {"off", "wait", "connect", "lock", "catch"} \cup Duties

LeaderTypeOK ==
    /\ pc \in [Procs -> Places]
    /\ client \in SUBSET Procs
    /\ lost \in SUBSET Procs
    /\ leader \in SUBSET Procs
    /\ stopped \in SUBSET Procs
    /\ ending \in SUBSET Procs
    /\ holder \in Procs \cup {None, Ghost}
    /\ faults \in 0..MaxFaults

LeaderInit ==
    /\ pc = [p \in Procs |-> "off"]
    /\ client = {} /\ lost = {} /\ leader = {} /\ stopped = {} /\ ending = {}
    /\ holder = None
    /\ faults = 0

Fault == faults < MaxFaults /\ faults' = faults + 1

Goto(p, place) == pc' = [pc EXCEPT ![p] = place]

\* The server releases the lock with the session that holds it.
ReleasedBy(p) == holder' = IF holder = p THEN None ELSE holder

\* The place after connect(): the lock is asked for by those that do not lead.
AfterConnect(p) == IF p \in leader THEN "cron" ELSE "lock"

-----------------------------------------------------------------------------
\* tick().

\* start(): the first timer is set.
Start(p) ==
    /\ pc[p] = "off" /\ p \notin stopped
    /\ Goto(p, "wait")
    /\ UNCHANGED <<client, lost, leader, stopped, ending, holder, faults>>

\* The timer fires; stop() clears it.
TickStart(p) ==
    /\ pc[p] = "wait" /\ p \notin stopped
    /\ Goto(p, IF p \notin client THEN "connect" ELSE AfterConnect(p))
    /\ UNCHANGED <<client, lost, leader, stopped, ending, holder, faults>>

\* connect() resolves, whatever has become of the process's stop() meanwhile.
Connect(p) ==
    /\ pc[p] = "connect"
    /\ client' = client \cup {p}
    /\ Goto(p, AfterConnect(p))
    /\ UNCHANGED <<lost, leader, stopped, ending, holder, faults>>

\* pg_try_advisory_lock returns true or false at once.
TryLock(p) ==
    /\ pc[p] = "lock"
    /\ p \in client \ lost
    /\ IF holder \in {None, p}
       THEN holder' = p /\ leader' = leader \cup {p} /\ Goto(p, "cron")
       ELSE Goto(p, "wait") /\ UNCHANGED <<holder, leader>>
    /\ UNCHANGED <<client, lost, stopped, ending, faults>>

\* The reaper, and the occasional pruning: statements in the pool.
Reap(p) ==
    /\ pc[p] = "reap"
    /\ Goto(p, "wait")
    /\ UNCHANGED <<client, lost, leader, stopped, ending, holder, faults>>

\* materializeDueSchedules has returned.
CronDone(p) ==
    /\ pc[p] = "cron"
    /\ Goto(p, "reap")
    /\ UNCHANGED <<client, lost, leader, stopped, ending, holder, faults>>

\* A statement on a session that is gone is rejected.
LockRejected(p) ==
    /\ pc[p] = "lock"
    /\ p \notin client \/ p \in lost
    /\ leader' = leader \ {p}
    /\ Goto(p, "catch")
    /\ UNCHANGED <<client, lost, stopped, ending, holder, faults>>

\* connect() or a statement of a duty is rejected: no longer leader.
TickFails(p) ==
    /\ pc[p] \in {"connect"} \cup Duties /\ Fault
    /\ leader' = leader \ {p}
    /\ Goto(p, "catch")
    /\ UNCHANGED <<client, lost, stopped, ending, holder>>

\* The rest of the catch block: client.end(), and the next timer.
Catch(p) ==
    /\ pc[p] = "catch"
    /\ client' = client \ {p}
    /\ lost' = lost \ {p}
    /\ ReleasedBy(p)
    /\ Goto(p, "wait")
    /\ UNCHANGED <<leader, stopped, ending, faults>>

-----------------------------------------------------------------------------
\* The session.

\* The server loses the session; the process does not know yet.
ServerDrops(p) ==
    /\ p \in client \ lost /\ Fault
    /\ lost' = lost \cup {p}
    /\ ReleasedBy(p)
    /\ UNCHANGED <<pc, client, leader, stopped, ending>>

\* The process loses the session; the server does not know yet.
ClientLoses(p) ==
    /\ p \in client \ lost /\ Fault
    /\ client' = client \ {p}
    /\ leader' = leader \ {p}
    /\ holder' = IF holder = p THEN Ghost ELSE holder
    /\ UNCHANGED <<pc, lost, stopped, ending>>

\* Faulty variant of ErrorEvent: the listener forgets the client alone.
ErrorEventLeads(p) ==
    /\ p \in lost
    /\ client' = client \ {p}
    /\ lost' = lost \ {p}
    /\ UNCHANGED <<pc, leader, stopped, ending, holder, faults>>

\* The 'error' listener of a session the server has dropped.
ErrorEvent(p) ==
    /\ p \in lost
    /\ client' = client \ {p}
    /\ lost' = lost \ {p}
    /\ leader' = leader \ {p}
    /\ UNCHANGED <<pc, stopped, ending, holder, faults>>

\* The server notices that a session has no client any more.
GhostEnds ==
    /\ holder = Ghost
    /\ holder' = None
    /\ UNCHANGED <<pc, client, lost, leader, stopped, ending, faults>>

-----------------------------------------------------------------------------
\* The process.

\* stop(), up to the await of client.end() when there is a client.
Stop(p) ==
    /\ p \notin Steady \cup stopped /\ pc[p] # "off" /\ Fault
    /\ stopped' = stopped \cup {p}
    /\ IF p \in client
       THEN ending' = ending \cup {p} /\ UNCHANGED leader
       ELSE leader' = leader \ {p} /\ UNCHANGED ending
    /\ UNCHANGED <<pc, client, lost, holder>>

\* client.end() is over, and stop() with it.
StopEnds(p) ==
    /\ p \in ending
    /\ ending' = ending \ {p}
    /\ client' = client \ {p}
    /\ lost' = lost \ {p}
    /\ leader' = leader \ {p}
    /\ ReleasedBy(p)
    /\ UNCHANGED <<pc, stopped, faults>>

Gone(p) ==
    /\ Goto(p, "off")
    /\ client' = client \ {p}
    /\ lost' = lost \ {p}
    /\ leader' = leader \ {p}
    /\ ending' = ending \ {p}
    /\ holder' = IF holder = p THEN Ghost ELSE holder

\* main.ts exits when the worker has drained, also in the middle of a tick.
Exit(p) ==
    /\ p \in stopped \ ending /\ pc[p] # "off"
    /\ Gone(p)
    /\ UNCHANGED <<stopped, faults>>

\* The process is killed; it may be started again.
Crash(p) ==
    /\ p \notin Steady /\ pc[p] # "off" /\ Fault
    /\ Gone(p)
    /\ stopped' = stopped \ {p}

-----------------------------------------------------------------------------

\* What the code does without being disturbed, the cron duty apart.
Runs(p) ==
    \/ Start(p)
    \/ TickStart(p)
    \/ Connect(p)
    \/ TryLock(p)
    \/ Reap(p)
    \/ LockRejected(p)
    \/ Catch(p)

Disturbed(p) ==
    \/ ServerDrops(p)
    \/ ClientLoses(p)
    \/ ErrorEvent(p)
    \/ Stop(p)
    \/ StopEnds(p)

-----------------------------------------------------------------------------

\* Of the processes that believe they lead, at most one has a session that the
\* server still knows: whoever leads without the lock has lost its session, and
\* a new session never inherits the belief (scheduler.ts: the error listener, the
\* catch block and stop() each give up leading with the client).
OneConnectedLeader ==
    \A p \in leader : p \in client \ lost => holder = p
=============================================================================
