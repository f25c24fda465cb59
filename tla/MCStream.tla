------------------------------ MODULE MCStream ------------------------------
(* Instances of Stream for TLC. *)
EXTENDS Stream, TLC

(* Two threads share the socket at "a", one sends at "b". *)
TwoAndOne == {<<"a", 1>>, <<"a", 2>>, <<"b", 1>>}

(* What the two send together does not fit the kernels' buffers. *)
ThreeAndLess == [t \in TwoAndOne |-> IF End(t) = "a" THEN {3} ELSE {0, 2}]
=============================================================================
