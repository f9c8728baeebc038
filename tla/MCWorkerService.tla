-------------------------- MODULE MCWorkerService --------------------------
(* Small instances of WorkerService. *)
EXTENDS WorkerService, TLC
=============================================================================
