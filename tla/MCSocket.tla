------------------------------ MODULE MCSocket ------------------------------
(* Instances of Socket for TLC. *)
EXTENDS Socket, TLC

Symmetry == Permutations(Objs) \cup Permutations(Fds) \cup Permutations(Paths)
=============================================================================
