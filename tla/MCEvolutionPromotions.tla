------------------------ MODULE MCEvolutionPromotions ------------------------
(* Small instances of EvolutionPromotions for TLC. *)
EXTENDS EvolutionPromotions, TLC

Symmetry == Permutations(Promotions) \cup Permutations(Sessions) \cup Permutations(Variants)
=============================================================================
