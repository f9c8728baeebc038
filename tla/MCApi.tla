------------------------------- MODULE MCApi -------------------------------
(***************************************************************************)
(* Small instances of Submission, the requests of the REST API that write. *)
(* ReadChecks adds the operators of those that read, checked as            *)
(* assumptions before the run.                                             *)
(***************************************************************************)
EXTENDS Submission, ReadChecks, TLC

CONSTANTS u1, u2, u3, p1, p2, p3, r1, r2, r3, q1, q2, k1, k2

\* u1 owns the organization of both projects, u2 is its admin, u3 has no account.
Roster == [o \in Users |-> [u \in Users |->
              CASE o = u /\ u # u3 -> "owner" [] o = u1 /\ u = u2 -> "admin" [] OTHER -> None]]
OneOrg == [p \in Projects |-> u1]
Owned  == [x \in Policies \cup Queues |-> IF x = r2 THEN p2 ELSE p1]
Lists  == {<<k1, k2>>, <<k2, k1>>, <<k1, k1>>}
Platform == [base |-> 1, max |-> 3]

Symmetry == Permutations(Requests)
=============================================================================
