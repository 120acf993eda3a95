----------------------------- MODULE MCScheduler -----------------------------
(* Small instances of Scheduler for TLC.  No symmetry: it is unsound for the *)
(* liveness property.                                                        *)
EXTENDS Scheduler, TLC

=============================================================================
