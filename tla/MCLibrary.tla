------------------------------ MODULE MCLibrary ------------------------------
(* Instances of Library for TLC. *)
EXTENDS Library, TLC

Symmetry ==
  Permutations(Threads) \cup Permutations(Sockets) \cup Permutations(Pointees)
=============================================================================
