---------------------------- MODULE MCWorkerLock ----------------------------
(* Model-checking instances of WorkerLock. *)
EXTENDS WorkerLock, TLC

\* The workers are interchangeable.
Symmetry == Permutations(Workers)
=============================================================================
