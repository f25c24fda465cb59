------------------------- MODULE DescriptorOwnership -------------------------
(***************************************************************************)
(* What class sks::socket promises about file descriptors, without saying  *)
(* how: every open descriptor has exactly one owner, which is one socket   *)
(* object or, once it was handed out by socketFD(true), the client; a      *)
(* socket object owns at most one descriptor; a descriptor is closed by    *)
(* its owner and by nobody else.  The promise is made to clients that take *)
(* descriptors only from objects that own one; from a misuse to the end of *)
(* the process nothing is promised.  Module Socket implements this, and    *)
(* assumes there that no object is called "client" or "free".              *)
(***************************************************************************)
CONSTANTS
  Objs,   \* the places a socket object can live in
  Fds     \* descriptor numbers

VARIABLES
  owner,   \* who owns each descriptor: an object, "client" or "free"
  misused  \* a client took the descriptor of an object that owned none

vars == <<owner, misused>>

Owners == Objs \cup {"client", "free"}

Free == [f \in Fds |-> "free"]

Init == owner = Free /\ misused = FALSE

(* New descriptors come from the kernel and each goes to an object of its  *)
(* own that owned nothing: a constructor and accept take one, a socketpair *)
(* takes two.                                                              *)
Acquire ==
  \E F \in SUBSET Fds :
    /\ \A f \in F : owner[f] = "free"
    /\ \E new \in [F -> Objs] :
         /\ \A f, g \in F : new[f] = new[g] => f = g
         /\ \A f \in F, g \in Fds : owner[g] # new[f]
         /\ owner' = [f \in Fds |-> IF f \in F THEN new[f] ELSE owner[f]]

(* Moves exchange what two objects own. *)
Exchange ==
  \E a, b \in Objs :
    owner' = [f \in Fds |-> IF owner[f] = a THEN b
                            ELSE IF owner[f] = b THEN a ELSE owner[f]]

(* An object gives its descriptor to the client. *)
HandOver ==
  \E f \in Fds :
    /\ owner[f] \in Objs
    /\ owner' = [owner EXCEPT ![f] = "client"]

(* The owner closes its descriptor. *)
Close ==
  \E f \in Fds :
    /\ owner[f] # "free"
    /\ owner' = [owner EXCEPT ![f] = "free"]

(* The process ends: the kernel closes everything. *)
ProcessEnd == owner' = Free /\ misused' = FALSE

(* A client takes what nobody gave it, or has done so: the number may be   *)
(* another object's by now.                                                *)
Misuse == owner' \in [Fds -> Owners] /\ misused' = TRUE

Next ==
  \/ /\ ~misused
     /\ Acquire \/ Exchange \/ HandOver \/ Close
     /\ UNCHANGED misused
  \/ ProcessEnd
  \/ Misuse

Spec == Init /\ [][Next]_vars
=============================================================================
