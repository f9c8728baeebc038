-------------------------- MODULE MCJobLifecycle --------------------------
(* Small instances of JobLifecycle. *)
EXTENDS JobLifecycle, TLC

\* Workers and pipelines are interchangeable (safety runs only).
Symmetry == Permutations(Workers) \cup Permutations(Pipes)
=============================================================================
