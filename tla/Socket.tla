------------------------------- MODULE Socket -------------------------------
(***************************************************************************)
(* Class sks::socket of the POSIX build: which object owns which file      *)
(* descriptor, through constructors, createUnixPair, accept, the move      *)
(* operations, socketFD(true) and the destructor, and the file-system name *)
(* a bound unix socket leaves behind.                                      *)
(*                                                                         *)
(* The objects are used by any number of threads.  Every member function   *)
(* makes at most one system call and is one action here, except the        *)
(* destructor: it makes four (getsockname, shutdown, close, unlink) and    *)
(* everything else can happen between two of them.  A thread does not use  *)
(* an object that another thread is using or destroying.                   *)
(*                                                                         *)
(* A member function that throws leaves this state as it was, so a failing *)
(* call is no step.  The library's user count (initialize/deinitialize) is *)
(* not kept here: the POSIX build only counts and never looks at it;       *)
(* module Library models it.  Data transfer, options and time-outs touch   *)
(* neither ownership nor names.                                            *)
(***************************************************************************)
CONSTANTS
  Objs,           \* places (variables, heap cells) a socket object can live in
  Fds,            \* descriptor numbers
  Paths,          \* file-system names
  NoFd,           \* an integer that is not the number of any descriptor
  NoPath,         \* the name of a socket that is unnamed or not of domain unix
  StaleUse,       \* TRUE: clients also call members of objects without a valid descriptor
  OtherProcesses  \* TRUE: other processes bind and remove the same file names

ASSUME NamesAssumption ==
  /\ NoFd \notin Fds
  /\ NoPath \notin Paths
  /\ Objs \cap {"client", "free"} = {}
  /\ StaleUse \in BOOLEAN
  /\ OtherProcesses \in BOOLEAN

VARIABLES
  obj,     \* the socket objects
  kern,    \* the kernel's sockets, by descriptor
  file,    \* what each file-system name refers to
  client,  \* descriptors the client took with socketFD(true) and has not closed
  misused  \* history: a client of this process took the descriptor of an object
           \* that had none

vars == <<obj, kern, file, client, misused>>

Domains == {"unix", "IPv4"}

(***************************************************************************)
(* An object is raw memory, alive, or in its destructor: after localAddress*)
(* ("named"), after shutdown ("shut") or after close ("closed").           *)
(***************************************************************************)
Phases == {"raw", "live", "named", "shut", "closed"}

Addresses == [dom : Domains, name : Paths \cup {NoPath}]
NoAddress == [dom |-> "unix", name |-> NoPath]

Objects ==
  [phase : Phases,
   valid : BOOLEAN,              \* m_validFD
   fd    : Fds \cup {NoFd},      \* m_sockFD
   dom   : Domains,              \* m_domain
   local : Addresses]            \* the destructor's variable `local`

Raw == [phase |-> "raw", valid |-> FALSE, fd |-> NoFd, dom |-> "unix",
        local |-> NoAddress]

Alive(f, d) == [phase |-> "live", valid |-> TRUE, fd |-> f, dom |-> d,
                local |-> NoAddress]

KernStates == {"closed", "open", "listening", "connected", "shut"}

KernSockets ==
  [state : KernStates, dom : Domains, name : Paths \cup {NoPath}]

Closed == [state |-> "closed", dom |-> "unix", name |-> NoPath]

(***************************************************************************)
(* A name refers to nothing, to the open socket bound to it, to a socket   *)
(* that is gone (closed by a destructor: "stale"; by one whose unlink      *)
(* failed: "refused"; by the client or by the end of the process:          *)
(* "orphan"), or to another process's socket.                              *)
(***************************************************************************)
FileMarks == {"none", "stale", "refused", "orphan", "foreign"}

ASSUME FileAssumption == Fds \cap FileMarks = {}

(* An object that says it has a descriptor has one: no destructor passes   *)
(* an m_sockFD to the kernel that was never initialized.                   *)
TypeOK ==
  /\ obj \in [Objs -> Objects]
  /\ \A o \in Objs : obj[o].valid => obj[o].fd \in Fds
  /\ kern \in [Fds -> KernSockets]
  /\ file \in [Paths -> Fds \cup FileMarks]
  /\ client \in SUBSET Fds
  /\ misused \in BOOLEAN

Init ==
  /\ obj = [o \in Objs |-> Raw]
  /\ kern = [f \in Fds |-> Closed]
  /\ file = [p \in Paths |-> "none"]
  /\ client = {}
  /\ misused = FALSE

IsOpen(f) == kern[f].state # "closed"

IsLive(o) == obj[o].phase = "live"

(* o is responsible for descriptor f: it will close it. *)
Owns(o, f) ==
  /\ obj[o].valid
  /\ obj[o].fd = f
  /\ obj[o].phase \in {"live", "named", "shut"}

-----------------------------------------------------------------------------
(* How objects come to hold a descriptor.                                  *)

(* socket(domain, type, protocol): ::socket gave a descriptor. *)
Construct(o, f, d) ==
  /\ obj[o].phase = "raw"
  /\ ~IsOpen(f)
  /\ kern' = [kern EXCEPT ![f] = [state |-> "open", dom |-> d, name |-> NoPath]]
  /\ obj' = [obj EXCEPT ![o] = Alive(f, d)]
  /\ UNCHANGED <<file, client, misused>>

(* createUnixPair: both ends of a socketpair, each in an object. *)
CreateUnixPair(o1, o2, f1, f2) ==
  /\ o1 # o2 /\ obj[o1].phase = "raw" /\ obj[o2].phase = "raw"
  /\ f1 # f2 /\ ~IsOpen(f1) /\ ~IsOpen(f2)
  /\ LET end == [state |-> "connected", dom |-> "unix", name |-> NoPath]
     IN  kern' = [kern EXCEPT ![f1] = end, ![f2] = end]
  /\ obj' = [obj EXCEPT ![o1] = Alive(f1, "unix"), ![o2] = Alive(f2, "unix")]
  /\ UNCHANGED <<file, client, misused>>

(* The three members that matter here, taken over from m. *)
TakeMembersWithoutFlag(a, m) == [a EXCEPT !.fd = m.fd, !.dom = m.dom]

TakeMembersWithoutDomain(a, m) == [a EXCEPT !.valid = m.valid, !.fd = m.fd]

TakeMembers(a, m) == [a EXCEPT !.valid = m.valid, !.fd = m.fd, !.dom = m.dom]

(* socket(socket&& s): the new object exchanges its members with s.  Its   *)
(* own m_sockFD and m_domain were never initialized, so that s is left     *)
(* invalid with whatever the memory held.                                  *)
MoveConstruct(o, s) ==
  /\ obj[o].phase = "raw" /\ IsLive(s)
  /\ \E fd \in Fds \cup {NoFd}, dom \in Domains :
       LET fresh == [Raw EXCEPT !.phase = "live", !.fd = fd, !.dom = dom]
       IN  obj' = [obj EXCEPT ![o] = TakeMembers(fresh, obj[s]),
                              ![s] = TakeMembers(obj[s], fresh)]
  /\ UNCHANGED <<kern, file, client, misused>>

(* operator=(socket&&): the two objects exchange their members. *)
MoveAssignOverwrites(o, s) ==
  /\ IsLive(o) /\ IsLive(s) /\ o # s
  /\ obj' = [obj EXCEPT ![o] = TakeMembers(obj[o], obj[s]), ![s].valid = FALSE]
  /\ UNCHANGED <<kern, file, client, misused>>

MoveAssign(o, s) ==
  /\ IsLive(o) /\ IsLive(s)
  /\ obj' = [obj EXCEPT ![o] = TakeMembers(obj[o], obj[s]),
                        ![s] = TakeMembers(obj[s], obj[o])]
  /\ UNCHANGED <<kern, file, client, misused>>

(* socketFD(true): the object forgets that it has to close the descriptor. *)
(* It does not look at m_validFD, and returns m_sockFD whatever that is: a *)
(* number the object gave away, or one that was never initialized.         *)
TakeFDKeepsFlag(o) ==
  /\ IsLive(o)
  /\ obj[o].valid \/ StaleUse
  /\ misused' = (misused \/ ~obj[o].valid)
  /\ client' = client \cup ({obj[o].fd} \cap Fds)
  /\ UNCHANGED <<obj, kern, file>>

TakeFD(o) ==
  /\ IsLive(o)
  /\ obj[o].valid \/ StaleUse
  /\ misused' = (misused \/ ~obj[o].valid)
  /\ obj' = [obj EXCEPT ![o].valid = FALSE]
  /\ client' = client \cup ({obj[o].fd} \cap Fds)
  /\ UNCHANGED <<kern, file>>

-----------------------------------------------------------------------------
(* Calls on an object.  No member function looks at m_validFD before it    *)
(* passes m_sockFD to the kernel; a client that keeps to the rules has a   *)
(* valid one.                                                              *)

Call(o) ==
  /\ IsLive(o)
  /\ obj[o].valid \/ StaleUse
  /\ obj[o].fd \in Fds
  /\ IsOpen(obj[o].fd)

(* bind: the object's domain is compared with the address's; the kernel    *)
(* makes the file, unless the socket already has a name or the file exists.*)
Bind(o, p) ==
  /\ Call(o)
  /\ obj[o].dom = "unix"
  /\ LET f == obj[o].fd
     IN  /\ kern[f].dom = "unix" /\ kern[f].name = NoPath
         /\ file[p] = "none"
         /\ kern' = [kern EXCEPT ![f].name = p]
         /\ file' = [file EXCEPT ![p] = f]
  /\ UNCHANGED <<obj, client, misused>>

(* listen: a unix socket must have a name. *)
Listen(o) ==
  /\ Call(o)
  /\ LET f == obj[o].fd
     IN  /\ kern[f].state = "open"
         /\ kern[f].dom = "unix" => kern[f].name # NoPath
         /\ kern' = [kern EXCEPT ![f].state = "listening"]
  /\ UNCHANGED <<obj, file, client, misused>>

(* connect, to whatever listens at the address; at a path, to whatever     *)
(* listening socket the file refers to.                                    *)
Listening(p) ==
  \/ file[p] = "foreign"
  \/ file[p] \in Fds /\ kern[file[p]].state = "listening"

Connect(o) ==
  /\ Call(o)
  /\ LET f == obj[o].fd
     IN  /\ kern[f].state = "open"
         /\ kern[f].dom = "unix" => \E p \in Paths : Listening(p)
         /\ kern' = [kern EXCEPT ![f].state = "connected"]
  /\ UNCHANGED <<obj, file, client, misused>>

(* accept: the kernel gives the connection the listener's name; the new    *)
(* object takes its domain from the listening object, not from the kernel. *)
Accept(o, listener, f) ==
  /\ obj[o].phase = "raw"
  /\ Call(listener)
  /\ ~IsOpen(f)
  /\ LET l == kern[obj[listener].fd]
     IN  /\ l.state = "listening"
         /\ kern' = [kern EXCEPT ![f] = [l EXCEPT !.state = "connected"]]
  /\ obj' = [obj EXCEPT ![o] = Alive(f, obj[listener].dom)]
  /\ UNCHANGED <<file, client, misused>>

-----------------------------------------------------------------------------
(* The end of an object.                                                   *)

(* ~socket of an object without a valid descriptor does nothing. *)
DestroyInvalid(o) ==
  /\ IsLive(o) /\ ~obj[o].valid
  /\ obj' = [obj EXCEPT ![o] = Raw]
  /\ UNCHANGED <<kern, file, client, misused>>

(* localAddress: getsockname. *)
LocalAddressLost(o) == NoAddress

LocalAddress(o) == [dom |-> kern[obj[o].fd].dom, name |-> kern[obj[o].fd].name]

(* ~socket: the local address is read while the descriptor is still open. *)
ReadLocal(o) ==
  /\ IsLive(o) /\ obj[o].valid
  /\ IsOpen(obj[o].fd)
  /\ obj' = [obj EXCEPT ![o].phase = "named", ![o].local = LocalAddress(o)]
  /\ UNCHANGED <<kern, file, client, misused>>

(* The result of shutdown, and of close, is ignored. *)
Shutdown(o) ==
  /\ obj[o].phase = "named"
  /\ kern' = [kern EXCEPT ![obj[o].fd].state = IF @ = "closed" THEN @ ELSE "shut"]
  /\ obj' = [obj EXCEPT ![o].phase = "shut"]
  /\ UNCHANGED <<file, client, misused>>

(* A file whose socket goes away stays. *)
Leave(f, mark) == file' = [p \in Paths |-> IF file[p] = f THEN mark ELSE file[p]]

Close(o) ==
  /\ obj[o].phase = "shut"
  /\ kern' = [kern EXCEPT ![obj[o].fd] = Closed]
  /\ Leave(obj[o].fd, "stale")
  /\ obj' = [obj EXCEPT ![o].phase = "closed"]
  /\ UNCHANGED <<client, misused>>

(* The local address of a unix socket converts to a unixAddress, or the    *)
(* conversion throws.                                                      *)
Converts(o) == obj[o].dom = "unix" => obj[o].local.dom = "unix"

BoundToName(o) == obj[o].dom = "unix" /\ obj[o].local.name # NoPath

UnlinkForgotten(o) ==
  /\ obj[o].phase = "closed"
  /\ Converts(o)
  /\ obj' = [obj EXCEPT ![o] = Raw]
  /\ UNCHANGED <<kern, file, client, misused>>

Unlink(o) ==
  /\ obj[o].phase = "closed"
  /\ Converts(o)
  /\ file' = IF BoundToName(o) THEN [file EXCEPT ![obj[o].local.name] = "none"] ELSE file
  /\ obj' = [obj EXCEPT ![o] = Raw]
  /\ UNCHANGED <<kern, client, misused>>

(* unlink fails (the directory is not writable any more, or the name was   *)
(* relative to another one); nobody looks at its result, the file stays.   *)
UnlinkFails(o) ==
  /\ obj[o].phase = "closed"
  /\ Converts(o) /\ BoundToName(o)
  /\ file' = [file EXCEPT ![obj[o].local.name] = IF @ = "stale" THEN "refused" ELSE @]
  /\ obj' = [obj EXCEPT ![o] = Raw]
  /\ UNCHANGED <<kern, client, misused>>

EndProcess ==
  /\ obj' = [o \in Objs |-> Raw]
  /\ kern' = [f \in Fds |-> Closed]
  /\ file' = [p \in Paths |-> IF file[p] \in Fds \cup {"stale"} THEN "orphan"
                              ELSE file[p]]
  /\ client' = {}
  /\ misused' = FALSE

(* An exception that leaves a destructor ends the process: the conversion's*)
(* or that of localAddress, when somebody else closed the descriptor.      *)
Terminate(o) ==
  /\ obj[o].phase = "closed"
  /\ ~Converts(o)
  /\ EndProcess

LocalAddressThrows(o) ==
  /\ IsLive(o) /\ obj[o].valid
  /\ ~IsOpen(obj[o].fd)
  /\ EndProcess

Destructor(o) ==
  Shutdown(o) \/ Close(o) \/ Unlink(o) \/ UnlinkFails(o) \/ Terminate(o)

-----------------------------------------------------------------------------
(* The rest of the world.                                                  *)

(* The client closes a descriptor it took. *)
ClientClose(f) ==
  /\ f \in client
  /\ client' = client \ {f}
  /\ kern' = [kern EXCEPT ![f] = Closed]
  /\ Leave(f, "orphan")
  /\ UNCHANGED <<obj, misused>>

(* Another process binds a name, or removes a file (as the test driver     *)
(* does after every test).                                                 *)
ForeignBind(p) ==
  /\ OtherProcesses
  /\ file[p] = "none"
  /\ file' = [file EXCEPT ![p] = "foreign"]
  /\ UNCHANGED <<obj, kern, client, misused>>

ForeignUnlink(p) ==
  /\ OtherProcesses
  /\ file[p] # "none"
  /\ file' = [file EXCEPT ![p] = "none"]
  /\ UNCHANGED <<obj, kern, client, misused>>

(* The process is killed: no destructor runs. *)
Crash == EndProcess

Next ==
  \/ \E o \in Objs, f \in Fds, d \in Domains : Construct(o, f, d)
  \/ \E o1, o2 \in Objs, f1, f2 \in Fds : CreateUnixPair(o1, o2, f1, f2)
  \/ \E o, s \in Objs : MoveConstruct(o, s) \/ MoveAssign(o, s)
  \/ \E o \in Objs : TakeFD(o) \/ Listen(o) \/ Connect(o)
  \/ \E o \in Objs, p \in Paths : Bind(o, p)
  \/ \E o, l \in Objs, f \in Fds : Accept(o, l, f)
  \/ \E o \in Objs : \/ DestroyInvalid(o) \/ ReadLocal(o)
                      \/ LocalAddressThrows(o) \/ Destructor(o)
  \/ \E f \in Fds : ClientClose(f)
  \/ \E p \in Paths : ForeignBind(p) \/ ForeignUnlink(p)
  \/ Crash

(* A destructor that was entered runs to its end. *)
Fairness == \A o \in Objs : WF_vars(Destructor(o))

Spec == Init /\ [][Next]_vars

FairSpec == Spec /\ Fairness

-----------------------------------------------------------------------------
(* Properties.                                                             *)

(* No two objects are responsible for the same descriptor, and an object   *)
(* is responsible only for one that is open and that the client did not    *)
(* take: however objects are moved, swapped, released and destroyed, and   *)
(* whichever numbers the kernel reuses meanwhile, no descriptor is closed  *)
(* twice and no destructor closes what belongs to somebody else.  This can *)
(* only end with a client that takes the descriptor of an object that has  *)
(* none (socketFD(true) does not ask); whatever else is called on such an  *)
(* object cannot break it.                                                 *)
SoleOwner ==
  ~misused => \A o \in Objs, f \in Fds : Owns(o, f) =>
    /\ IsOpen(f)
    /\ f \notin client
    /\ \A p \in Objs : Owns(p, f) => p = o

(* Every open descriptor is some object's, whose destructor will close it, *)
(* or was taken by the client: moves, swaps and half-finished destructors  *)
(* lose none, even when clients take and close descriptors of others.      *)
NoLeak == \A f \in Fds : IsOpen(f) => f \in client \/ \E o \in Objs : Owns(o, f)

(* The domain an object carries through moves and accept is the one of its *)
(* descriptor, so bind compares with the right one, and the conversion in  *)
(* the destructor never throws (an exception there ends the process).      *)
DomainAgrees ==
  \A o \in Objs :
    /\ \A f \in Fds : Owns(o, f) => obj[o].dom = kern[f].dom
    /\ obj[o].phase = "closed" => Converts(o)

(* When a destructor has closed a bound unix socket, the file that is left *)
(* has a destructor on its way to remove it, whatever other objects and    *)
(* processes did with the same name between the destructor's steps.        *)
StaleHasUnlinker ==
  \A p \in Paths : file[p] = "stale" =>
    \E o \in Objs : /\ obj[o].phase = "closed"
                    /\ obj[o].dom = "unix" /\ obj[o].local.name = p

(* ... and it is gone in the end, unless the system refused to remove it   *)
(* (or the process ended first): no destructor stops or gives up before.   *)
SocketFilesRemoved == \A p \in Paths : file[p] = "stale" ~> file[p] # "stale"

(* What the class promises about ownership. *)
Owner ==
  [f \in Fds |-> IF ~IsOpen(f) THEN "free"
                 ELSE IF f \in client THEN "client"
                 ELSE CHOOSE o \in Objs : Owns(o, f)]

Ownership == INSTANCE DescriptorOwnership WITH owner <- Owner

(* Every behaviour of the class is one of module DescriptorOwnership: each *)
(* step, the destructor's four included, changes owners the way that       *)
(* module allows or not at all, as long as no client takes a descriptor    *)
(* from an object that has none.                                           *)
ImplementsOwnership == Ownership!Spec

(* "We are currently bound to a named unix address, unlink it": what a     *)
(* destructor unlinks is its own.  A unix socket that is listening keeps   *)
(* the file clients connect through until it is destroyed itself.          *)
ListenerKeepsItsFile ==
  \A f \in Fds : kern[f].state = "listening" /\ kern[f].name # NoPath =>
    file[kern[f].name] = f
=============================================================================
