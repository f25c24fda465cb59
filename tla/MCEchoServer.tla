------------------------------ MODULE MCEchoServer ------------------------------
EXTENDS EchoServer, TLC
CONSTANTS c1, c2, c3
Symmetry == Permutations(Clients)

(* How many messages each client sends. *)
One == [c \in Clients |-> 1]
TwoOne == [c \in Clients |-> CASE c = c1 -> 2 [] c = c2 -> 1 [] OTHER -> 0]
=============================================================================
