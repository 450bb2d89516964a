----------------------------- MODULE MCRecScope -----------------------------
(* Instances of RecScope for TLC. *)
EXTENDS RecScope, TLC

Symmetry == Permutations(Member)
=============================================================================
