------------------------ MODULE MCExecutionLifecycle ------------------------
(* Small instances of ExecutionLifecycle for TLC. *)
EXTENDS ExecutionLifecycle, TLC

Symmetry == Permutations(Requests)
=============================================================================
