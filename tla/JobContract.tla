---------------------------- MODULE JobContract ----------------------------
(***************************************************************************)
(* What Codity promises of a job, whatever its processes do: the state     *)
(* machine of docs/architecture.md seen from outside.  A job is taken by   *)
(* one worker, given back, concluded, buried with a letter in the dead     *)
(* letter queue or re-driven; at most one attempt of it is open at a time  *)
(* in the records; burying closes an attempt and nothing opens one on a    *)
(* dead job.  JobLifecycle implements it.                                  *)
(***************************************************************************)
EXTENDS Naturals

CONSTANTS Jobs, Workers, None

VARIABLES
    phase,    \* where the job is
    owner,    \* who holds it while it is active
    open,     \* an execution of it is on record as running
    letter    \* an unresolved dead letter of it exists

contractVars == <<phase, owner, open, letter>>

ContractInit ==
    /\ phase = [j \in Jobs |-> "absent"]
    /\ owner = [j \in Jobs |-> None]
    /\ open = [j \in Jobs |-> FALSE]
    /\ letter = [j \in Jobs |-> FALSE]

Move(j, from, to) == phase[j] \in from /\ phase' = [phase EXCEPT ![j] = to]

Submit(j) ==
    /\ Move(j, {"absent"}, "pending")
    /\ UNCHANGED <<owner, open, letter>>

\* A worker takes a pending job, and only a pending one.
Take(j, w) ==
    /\ Move(j, {"pending"}, "active")
    /\ owner' = [owner EXCEPT ![j] = w]
    /\ UNCHANGED <<open, letter>>

\* The job is pending again, without an owner and with no attempt open.
GiveBack(j) ==
    /\ Move(j, {"active"}, "pending")
    /\ owner' = [owner EXCEPT ![j] = None]
    /\ open' = [open EXCEPT ![j] = FALSE]
    /\ UNCHANGED letter

\* The attempt that completes the job need not be the one that is open.
Succeed(j) ==
    /\ Move(j, {"active"}, "succeeded")
    /\ owner' = [owner EXCEPT ![j] = None]
    /\ open' \in {open, [open EXCEPT ![j] = FALSE]}
    /\ UNCHANGED letter

\* Giving up closes an open attempt and writes one letter.
Bury(j) ==
    /\ Move(j, {"active"}, "dead")
    /\ open[j]
    /\ ~letter[j]
    /\ owner' = [owner EXCEPT ![j] = None]
    /\ open' = [open EXCEPT ![j] = FALSE]
    /\ letter' = [letter EXCEPT ![j] = TRUE]

\* Attempts open one at a time, and none on a dead job.
Open(j) ==
    /\ phase[j] # "dead"
    /\ ~open[j]
    /\ open' = [open EXCEPT ![j] = TRUE]
    /\ UNCHANGED <<phase, owner, letter>>

\* A late conclusion of an attempt whose job has moved on: the job is unmoved.
Close(j) ==
    /\ open[j]
    /\ open' = [open EXCEPT ![j] = FALSE]
    /\ UNCHANGED <<phase, owner, letter>>

CancelJob(j) ==
    /\ Move(j, {"pending"}, "cancelled")
    /\ UNCHANGED <<owner, open, letter>>

\* Re-driving resolves the letter.
Redrive(j) ==
    /\ Move(j, {"succeeded", "dead", "cancelled"}, "pending")
    /\ letter' = [letter EXCEPT ![j] = FALSE]
    /\ UNCHANGED <<owner, open>>

\* Only the letter of a dead job is there to be discarded.
DiscardLetter(j) ==
    /\ phase[j] = "dead"
    /\ letter[j]
    /\ letter' = [letter EXCEPT ![j] = FALSE]
    /\ UNCHANGED <<phase, owner, open>>

ContractNext ==
    \E j \in Jobs :
        \/ Submit(j)
        \/ \E w \in Workers : Take(j, w)
        \/ GiveBack(j)
        \/ Succeed(j)
        \/ Bury(j)
        \/ Open(j)
        \/ Close(j)
        \/ CancelJob(j)
        \/ Redrive(j)
        \/ DiscardLetter(j)

ContractSpec == ContractInit /\ [][ContractNext]_contractVars
=============================================================================
