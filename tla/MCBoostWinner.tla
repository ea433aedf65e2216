--------------------------- MODULE MCBoostWinner ---------------------------
(***************************************************************************)
(* Instances of BoostWinner: two rules whose entries evict each other.     *)
(***************************************************************************)
EXTENDS BoostWinner, TLC

Symmetry == Permutations(Request) \cup Permutations(Target)

=============================================================================
