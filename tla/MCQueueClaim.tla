---------------------------- MODULE MCQueueClaim ----------------------------
(* Small instances of QueueClaim. *)
EXTENDS QueueClaim, TLC

CONSTANTS q1, q2, j1, j2, j3

OneQueue  == [j \in Jobs |-> q1]
TwoQueues == [j \in Jobs |-> IF j = j3 THEN q2 ELSE q1]

Symmetry == Permutations(Workers) \cup Permutations(Jobs)
=============================================================================
