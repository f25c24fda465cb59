------------------------------ MODULE MCAddress ------------------------------
(* Instances of Address for TLC. *)
EXTENDS Address, TLC

Symmetry == Permutations(Objs) \cup Permutations(Ptrs)
=============================================================================
