------------------------------ MODULE MCDatagram ------------------------------
EXTENDS Datagram, TLC
CONSTANTS r1, r2

(* Around zero, a millisecond, a second and the width of a DWORD. *)
SomeMicros == {-7, -6, -1, 1, 2, 3, 5, 6, 7, 15, 16, 31, 32, 33}
(* One that an int holds, and one that wraps. *)
SomeMillis == {5, 8}
(* What len may hold: an error, too little, the size of an int, more. *)
SomeLengths == -1..3
SomeLists == {<<r2, r1>>}
SomeSettings == {<<"posix", 0, FALSE>>, <<"posix", 1, TRUE>>, <<"windows", 7, FALSE>>}
=============================================================================
