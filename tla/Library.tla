------------------------------- MODULE Library -------------------------------
(***************************************************************************)
(* initialize() and deinitialize(), in the Windows build: libraryUsers     *)
(* counts the valid sockets, the address objects and the client's own      *)
(* calls; the first user starts Winsock and the last one cleans it up.     *)
(*                                                                         *)
(* libraryUsers is a plain size_t: nothing orders the accesses of two      *)
(* threads.  Each read and each write of it is an action of its own, which *)
(* gives the outcomes an unsynchronized increment can have.                *)
(***************************************************************************)
EXTENDS Naturals, FiniteSets

CONSTANTS
  Threads,
  Sockets,     \* places a socket with a valid descriptor can be in
  Pointees,    \* places an addressBase object can be in
  Clients,     \* the client's own pairs of initialize and deinitialize
  Modulus,     \* 2^w for the w bits of a size_t
  MaxLost,     \* bound on `lost`
  Serial       \* TRUE: constructors and destructors of two threads never overlap

Users == Sockets \cup Pointees \cup Clients

ASSUME LibraryAssumption ==
  /\ Modulus \in Nat \ {0}
  /\ MaxLost \in Nat
  /\ Serial \in BOOLEAN
  /\ Sockets \cap Pointees = {} /\ (Sockets \cup Pointees) \cap Clients = {}

(* A process has fewer users, the lost ones included, than a size_t counts. *)
ASSUME CountAssumption ==
  IsFiniteSet(Users) /\ Cardinality(Users) + MaxLost < Modulus

VARIABLES
  autoInitialize,  \* the library's switch, which the client sets
  libraryUsers,    \* the count
  winsock,         \* WSAStartup calls that no WSACleanup has undone
  user,            \* where in its life each user is
  thread,          \* where in initialize or deinitialize each thread is
  lost,            \* counted users that are gone and never called deinitialize
  terminated       \* an exception left a destructor

vars == <<autoInitialize, libraryUsers, winsock, user, thread, lost, terminated>>

PCs == {"idle", "check", "startup", "readUp", "writeUp", "make",
        "readDown", "writeDown", "recheck", "cleanup"}

Idle == [pc |-> "idle"]
At(pc, u, val) == [pc |-> pc, u |-> u, val |-> val]

TypeOK ==
  /\ autoInitialize \in BOOLEAN
  /\ libraryUsers \in 0..(Modulus - 1)
  /\ winsock \in Nat
  /\ user \in [Users -> {"none", "starting", "alive", "ending"}]
  /\ thread \in [Threads -> {Idle} \cup
                 [pc : PCs \ {"idle"}, u : Users, val : 0..(Modulus - 1)]]
  /\ lost \in 0..MaxLost
  /\ terminated \in BOOLEAN

Init ==
  /\ autoInitialize = TRUE
  /\ libraryUsers = 0
  /\ winsock = 0
  /\ user = [u \in Users |-> "none"]
  /\ thread = [t \in Threads |-> Idle]
  /\ lost = 0
  /\ terminated = FALSE

Quiet == \A t \in Threads : thread[t] = Idle

(* A socket or an address is a user only if autoInitialize says so. *)
Counted(u) == u \in Clients \/ autoInitialize

MayEnter(t) ==
  /\ ~terminated
  /\ thread[t] = Idle
  /\ Serial => Quiet

In(t, pc) == ~terminated /\ thread[t].pc = pc

Go(t, pc) == thread' = [thread EXCEPT ![t].pc = pc]

Return(t, state) ==
  /\ thread' = [thread EXCEPT ![t] = Idle]
  /\ user' = [user EXCEPT ![thread[t].u] = state]

-----------------------------------------------------------------------------
(* A constructor: initialize, then what can fail.                          *)

Enter(t, u) ==
  /\ MayEnter(t) /\ user[u] = "none"
  /\ user' = [user EXCEPT ![u] = "starting"]
  /\ thread' = [thread EXCEPT ![t] = At(IF Counted(u) THEN "check" ELSE "make", u, 0)]
  /\ UNCHANGED <<autoInitialize, libraryUsers, winsock, lost, terminated>>

(* if (libraryUsers == 0) *)
CheckSkipped(t) ==
  /\ In(t, "check")
  /\ Go(t, "readUp")
  /\ UNCHANGED <<autoInitialize, libraryUsers, winsock, user, lost, terminated>>

Check(t) ==
  /\ In(t, "check")
  /\ Go(t, IF libraryUsers = 0 THEN "startup" ELSE "readUp")
  /\ UNCHANGED <<autoInitialize, libraryUsers, winsock, user, lost, terminated>>

(* WSAStartup; when it fails, the constructor throws. *)
Startup(t) ==
  /\ In(t, "startup")
  /\ \/ winsock' = winsock + 1 /\ Go(t, "readUp") /\ UNCHANGED user
     \/ Return(t, "none") /\ UNCHANGED winsock
  /\ UNCHANGED <<autoInitialize, libraryUsers, lost, terminated>>

(* libraryUsers++ *)
ReadUp(t) ==
  /\ In(t, "readUp")
  /\ thread' = [thread EXCEPT ![t] = At("writeUp", @.u, libraryUsers)]
  /\ UNCHANGED <<autoInitialize, libraryUsers, winsock, user, lost, terminated>>

WriteUp(t) ==
  /\ In(t, "writeUp")
  /\ libraryUsers' = (thread[t].val + 1) % Modulus
  /\ Go(t, "make")
  /\ UNCHANGED <<autoInitialize, winsock, user, lost, terminated>>

(* The rest of the constructor: ::socket, which needs Winsock, or parsing, *)
(* which calls Winsock for some texts only: getaddrinfo, but nothing for   *)
(* unix addresses, any addresses and copies.                               *)
Make(t) ==
  /\ In(t, "make")
  /\ thread[t].u \in Sockets => winsock > 0
  /\ Return(t, "alive")
  /\ UNCHANGED <<autoInitialize, libraryUsers, winsock, lost, terminated>>

(* When that fails, an address has its base class destroyed, which calls   *)
(* deinitialize; the destructor of a socket does not run, and its          *)
(* constructor does not deinitialize.                                      *)
MakeFailsKeepsBase(t) ==
  /\ In(t, "make") /\ thread[t].u \in Sockets \cup Pointees
  /\ Return(t, "none")
  /\ IF autoInitialize /\ thread[t].u \in Sockets
     THEN lost < MaxLost /\ lost' = lost + 1
     ELSE UNCHANGED lost
  /\ UNCHANGED <<autoInitialize, libraryUsers, winsock, terminated>>

MakeFails(t) ==
  /\ In(t, "make") /\ thread[t].u \in Sockets \cup Pointees
  /\ IF autoInitialize /\ thread[t].u \in Pointees
     THEN Go(t, "readDown") /\ UNCHANGED <<user, lost>>
     ELSE /\ Return(t, "none")
          /\ IF autoInitialize THEN lost < MaxLost /\ lost' = lost + 1
                               ELSE UNCHANGED lost
  /\ UNCHANGED <<autoInitialize, libraryUsers, winsock, terminated>>

-----------------------------------------------------------------------------
(* A destructor: deinitialize.                                             *)

Leave(t, u) ==
  /\ MayEnter(t) /\ user[u] = "alive"
  /\ IF Counted(u)
     THEN /\ user' = [user EXCEPT ![u] = "ending"]
          /\ thread' = [thread EXCEPT ![t] = At("readDown", u, 0)]
     ELSE /\ user' = [user EXCEPT ![u] = "none"]
          /\ UNCHANGED thread
  /\ UNCHANGED <<autoInitialize, libraryUsers, winsock, lost, terminated>>

(* libraryUsers-- *)
ReadDown(t) ==
  /\ In(t, "readDown")
  /\ thread' = [thread EXCEPT ![t] = At("writeDown", @.u, libraryUsers)]
  /\ UNCHANGED <<autoInitialize, libraryUsers, winsock, user, lost, terminated>>

WriteDownTwice(t) ==
  /\ In(t, "writeDown")
  /\ libraryUsers' = thread[t].val - 2
  /\ Go(t, "recheck")
  /\ UNCHANGED <<autoInitialize, winsock, user, lost, terminated>>

WriteDown(t) ==
  /\ In(t, "writeDown")
  /\ libraryUsers' = (thread[t].val + Modulus - 1) % Modulus
  /\ Go(t, "recheck")
  /\ UNCHANGED <<autoInitialize, winsock, user, lost, terminated>>

(* if (libraryUsers == 0): the compiler may use the value just written or  *)
(* read the count again.                                                   *)
RecheckInverted(t) ==
  /\ In(t, "recheck")
  /\ IF thread[t].val # 1
     THEN Go(t, "cleanup") /\ UNCHANGED user
     ELSE Return(t, "none")
  /\ UNCHANGED <<autoInitialize, libraryUsers, winsock, lost, terminated>>

Recheck(t) ==
  /\ In(t, "recheck")
  /\ \E zero \in {thread[t].val = 1, libraryUsers = 0} :
       IF zero THEN Go(t, "cleanup") /\ UNCHANGED user
               ELSE Return(t, "none")
  /\ UNCHANGED <<autoInitialize, libraryUsers, winsock, lost, terminated>>

(* WSACleanup; when Winsock is not running it fails, and deinitialize      *)
(* throws, which a destructor does not survive.                            *)
Cleanup(t) ==
  /\ In(t, "cleanup")
  /\ Return(t, "none")
  /\ IF winsock > 0 THEN winsock' = winsock - 1 /\ UNCHANGED terminated
                    ELSE /\ terminated' = (thread[t].u \notin Clients)
                         /\ UNCHANGED winsock
  /\ UNCHANGED <<autoInitialize, libraryUsers, lost>>

-----------------------------------------------------------------------------
(* socketFD(true): the destructor will find an invalid socket and not call *)
(* deinitialize.                                                           *)
TakeFD(u) ==
  /\ ~terminated /\ u \in Sockets /\ user[u] = "alive"
  /\ user' = [user EXCEPT ![u] = "none"]
  /\ IF autoInitialize THEN lost < MaxLost /\ lost' = lost + 1 ELSE UNCHANGED lost
  /\ UNCHANGED <<autoInitialize, libraryUsers, winsock, thread, terminated>>

(* The client sets autoInitialize, while it has no socket and no address.  *)
SetAuto ==
  /\ ~terminated
  /\ \A u \in Sockets \cup Pointees : user[u] = "none"
  /\ autoInitialize' = ~autoInitialize
  /\ UNCHANGED <<libraryUsers, winsock, user, thread, lost, terminated>>

Initialize(t) == Check(t) \/ Startup(t) \/ ReadUp(t) \/ WriteUp(t)

Deinitialize(t) == ReadDown(t) \/ WriteDown(t) \/ Recheck(t) \/ Cleanup(t)

Next ==
  \/ \E t \in Threads, u \in Users : Enter(t, u) \/ Leave(t, u)
  \/ \E t \in Threads : Initialize(t) \/ Make(t) \/ MakeFails(t) \/ Deinitialize(t)
  \/ \E u \in Users : TakeFD(u)
  \/ SetAuto

Spec == Init /\ [][Next]_vars

-----------------------------------------------------------------------------
(* Properties.                                                             *)

IsUser(u) == user[u] = "alive" /\ Counted(u)

(* "Initialize ... the socket library automatically": while a socket, an   *)
(* address or a client's own initialize() counts as a user, Winsock runs.  *)
RunningWhileUsed == (\E u \in Users : IsUser(u)) => winsock > 0

(* Between calls the count is the number of users, and of those that will  *)
(* never call deinitialize; Winsock was started exactly once if the count  *)
(* is positive and is not running otherwise, so that a failing start, a    *)
(* failing constructor and any order of the ends leave the two in step.    *)
CountExact ==
  Quiet => /\ libraryUsers = Cardinality({u \in Users : IsUser(u)}) + lost
           /\ winsock = IF libraryUsers = 0 THEN 0 ELSE 1

(* WSACleanup is never called more often than WSAStartup succeeded, so no  *)
(* destructor throws.                                                      *)
NeverTerminates == ~terminated
=============================================================================
