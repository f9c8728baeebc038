---------------------------- MODULE MCScheduler ----------------------------
(* Small instances of Scheduler.  An expression is a period: its occurrences *)
(* are the multiples. *)
EXTENDS Scheduler

Every(c, t) == ((t \div c) + 1) * c
=============================================================================
