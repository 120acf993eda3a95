---------------------------- MODULE MCCatalogue ----------------------------
(* A small instance of Catalogue for TLC. *)
EXTENDS Catalogue, TLC

Symmetry == Permutations(Sessions) \cup Permutations(Ids) \cup Permutations(Names)
=============================================================================
