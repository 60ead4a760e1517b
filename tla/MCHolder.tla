------------------------------ MODULE MCHolder ------------------------------
(* Model-checking instance of Holder. *)
EXTENDS Holder, TLC

HolderSymmetry == Permutations(Holders) \cup Permutations(Resources)

=============================================================================
