---------------------------- MODULE MCMemoryStore ----------------------------
(* A small instance of MemoryStore for TLC. *)
EXTENDS MemoryStore, TLC

=============================================================================
