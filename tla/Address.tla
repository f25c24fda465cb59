------------------------------- MODULE Address -------------------------------
(***************************************************************************)
(* Class sks::address: a domain tag and an owning pointer to an object of  *)
(* that domain's class (IPv4Address, IPv6Address, unixAddress), kept       *)
(* through constructors, assignments, moves, assign() and the destructor.  *)
(*                                                                         *)
(* An address object is used by one thread, so a member function is one    *)
(* action.  A member function that throws before it changed anything is no *)
(* step.  The allocator may hand out a freed address again.  What the code *)
(* does with a pointer to freed memory is undefined and not followed: such *)
(* a step is not enabled, and OwnsPointee says no pointer ever is one.     *)
(***************************************************************************)
EXTENDS FiniteSets

CONSTANTS
  Objs,    \* places an address can live in
  Ptrs,    \* heap addresses
  Null,    \* nullptr
  Domains  \* the domains that have an address class: IPv4, IPv6 and unix

ASSUME AddressAssumption ==
  /\ Null \notin Ptrs
  /\ Domains \cap {"blank", "unknown", "free"} = {}

VARIABLES
  addr,     \* the address objects
  heap,     \* the class of the object at each heap address, or "free"
  happened  \* history: which Hazards befell an address that had a pointee

vars == <<addr, heap, happened>>

(***************************************************************************)
(* "copyBlank":     it was copy-assigned from a blank address              *)
(* "moveOnto":      it was move-assigned to                                *)
(* "assignUnknown": assign() got a structure of an unsupported family      *)
(* "noMemory":      operator new threw inside assign()                     *)
(***************************************************************************)
Hazards == {"copyBlank", "moveOnto", "assignUnknown", "noMemory"}

(* 0xFF of a default-constructed address; a family with no address class. *)
Tags == Domains \cup {"blank", "unknown"}

Addrs == [live : BOOLEAN, dom : Tags, base : Ptrs \cup {Null}]

Raw == [live |-> FALSE, dom |-> "blank", base |-> Null]

TypeOK ==
  /\ addr \in [Objs -> Addrs]
  /\ heap \in [Ptrs -> Domains \cup {"free"}]
  /\ happened \subseteq Hazards

Init ==
  /\ addr = [o \in Objs |-> Raw]
  /\ heap = [q \in Ptrs |-> "free"]
  /\ happened = {}

IsLive(o) == addr[o].live

IsAllocated(q) == q \in Ptrs /\ heap[q] # "free"

(* size() > 0, which looks into the pointee. *)
HasSize(o) == addr[o].base # Null

(* o meets a hazard: it only matters to an address that has a pointee. *)
Meets(o, hazard) ==
  happened' = IF HasSize(o) THEN happened \cup {hazard} ELSE happened

Holds(d, q) == [live |-> TRUE, dom |-> d, base |-> q]

-----------------------------------------------------------------------------
(* Constructors.                                                           *)

(* address() *)
Default(o) ==
  /\ ~IsLive(o)
  /\ addr' = [addr EXCEPT ![o] = [Raw EXCEPT !.live = TRUE]]
  /\ UNCHANGED <<heap, happened>>

(* address(string, domain), address(sockaddr_storage, len) and             *)
(* address(addressBase): the pointee of the given or recognized domain.    *)
Construct(o, d, q) ==
  /\ ~IsLive(o) /\ ~IsAllocated(q)
  /\ heap' = [heap EXCEPT ![q] = d]
  /\ addr' = [addr EXCEPT ![o] = Holds(d, q)]
  /\ UNCHANGED happened

(* address(const address&): a pointee of its own, or blank like a. *)
CopyConstruct(o, a, q) ==
  /\ ~IsLive(o) /\ IsLive(a)
  /\ \/ /\ HasSize(a) /\ IsAllocated(addr[a].base) /\ ~IsAllocated(q)
        /\ heap' = [heap EXCEPT ![q] = heap[addr[a].base]]
        /\ addr' = [addr EXCEPT ![o] = Holds(heap[addr[a].base], q)]
     \/ /\ ~HasSize(a)
        /\ addr' = [addr EXCEPT ![o] = Holds(addr[a].dom, Null)]
        /\ UNCHANGED heap
  /\ UNCHANGED happened

(* address(address&&): takes the pointee; a keeps its tag. *)
MoveConstructShares(o, a) ==
  /\ ~IsLive(o) /\ IsLive(a)
  /\ addr' = [addr EXCEPT ![o] = addr[a]]
  /\ UNCHANGED <<heap, happened>>

MoveConstruct(o, a) ==
  /\ ~IsLive(o) /\ IsLive(a)
  /\ addr' = [addr EXCEPT ![o] = addr[a], ![a].base = Null]
  /\ UNCHANGED <<heap, happened>>

-----------------------------------------------------------------------------
(* Assignments.                                                            *)

(* delete of what the pointer points at; of nullptr it does nothing. *)
CanDelete(q) == q = Null \/ IsAllocated(q)
AfterDelete(q) == [p \in Ptrs |-> IF p = q THEN "free" ELSE heap[p]]

(* assign(from, len): the old pointee is deleted first.  Then either the   *)
(* new one is allocated (possibly where the old one was), or an exception  *)
(* leaves the tag changed and the pointer as it was.                       *)
AssignKeepsOld(o, d, q) ==
  /\ ~IsAllocated(q)
  /\ heap' = [heap EXCEPT ![q] = d]
  /\ addr' = [addr EXCEPT ![o] = Holds(d, q)]
  /\ UNCHANGED happened

AssignTo(o, d, q) ==
  /\ CanDelete(addr[o].base)
  /\ q = addr[o].base \/ ~IsAllocated(q)
  /\ heap' = [AfterDelete(addr[o].base) EXCEPT ![q] = d]
  /\ addr' = [addr EXCEPT ![o] = Holds(d, q)]
  /\ UNCHANGED happened

AssignThrows(o, d, why) ==
  /\ CanDelete(addr[o].base)
  /\ heap' = AfterDelete(addr[o].base)
  /\ addr' = [addr EXCEPT ![o].dom = d]
  /\ Meets(o, why)

AssignWithoutDefault(o, d, q) ==
  /\ IsLive(o)
  /\ AssignTo(o, d, q) \/ AssignTo(o, "unknown", q)

Assign(o, d, q) ==
  /\ IsLive(o)
  /\ \/ AssignTo(o, d, q)
     \/ AssignThrows(o, d, "noMemory")
     \/ AssignThrows(o, "unknown", "assignUnknown")

(* operator=(const address& a): the structure made from a is a copy, so    *)
(* that a may be o itself.  From a blank a, the pointee is deleted and the *)
(* pointer stays.                                                          *)
CopyAssign(o, a, q) ==
  /\ IsLive(o) /\ IsLive(a)
  /\ \/ /\ HasSize(a) /\ IsAllocated(addr[a].base)
        /\ LET d == heap[addr[a].base]
           IN  \/ AssignTo(o, d, q)
               \/ AssignThrows(o, d, "noMemory")
     \/ /\ ~HasSize(a)
        /\ Meets(o, "copyBlank")
        /\ CanDelete(addr[o].base)
        /\ heap' = AfterDelete(addr[o].base)
        /\ addr' = [addr EXCEPT ![o].dom = addr[a].dom]

(* operator=(address&& a): the old pointee is not deleted; a keeps its     *)
(* tag; with a = o the pointee is dropped as well.                         *)
MoveAssign(o, a) ==
  /\ IsLive(o) /\ IsLive(a)
  /\ Meets(o, "moveOnto")
  /\ addr' = [[addr EXCEPT ![o] = addr[a]] EXCEPT ![a].base = Null]
  /\ UNCHANGED heap

(* socket::receive(address& from, ...): from is move-assigned a temporary  *)
(* made of the sender's address.                                           *)
ReceiveFrom(from, d, q) ==
  /\ IsLive(from)
  /\ Meets(from, "moveOnto")
  /\ ~IsAllocated(q)
  /\ heap' = [heap EXCEPT ![q] = d]
  /\ addr' = [addr EXCEPT ![from] = Holds(d, q)]

(* ~address *)
Destroy(o) ==
  /\ IsLive(o)
  /\ CanDelete(addr[o].base)
  /\ heap' = AfterDelete(addr[o].base)
  /\ addr' = [addr EXCEPT ![o] = Raw]
  /\ UNCHANGED happened

Next ==
  \/ \E o \in Objs : Default(o) \/ Destroy(o)
  \/ \E o \in Objs, d \in Domains, q \in Ptrs :
       Construct(o, d, q) \/ Assign(o, d, q) \/ ReceiveFrom(o, d, q)
  \/ \E o, a \in Objs : MoveConstruct(o, a) \/ MoveAssign(o, a)
  \/ \E o, a \in Objs, q \in Ptrs : CopyConstruct(o, a, q) \/ CopyAssign(o, a, q)

Spec == Init /\ [][Next]_vars

-----------------------------------------------------------------------------
(* Properties.                                                             *)

(* An address that points anywhere points at an allocated object of the    *)
(* class its tag says, which no other address points at: no sequence of    *)
(* copies, moves and assignments leads to a second delete, a use after     *)
(* free, or an IPv4Address read as an IPv6Address.  The moves that lose a  *)
(* pointee do not change that; what does is a copy of a blank address onto *)
(* one with a pointee, and an exception between assign's delete and new.   *)
OwnsPointee ==
  happened \subseteq {"moveOnto"} =>
    \A o \in Objs : IsLive(o) /\ HasSize(o) =>
      /\ heap[addr[o].base] = addr[o].dom
      /\ \A a \in Objs : IsLive(a) /\ addr[a].base = addr[o].base => a = o

(* Every allocated object has an address that will delete it, whatever was *)
(* assigned and whatever assignments threw, until an address that has a    *)
(* pointee is moved onto.                                                  *)
NoLeak ==
  "moveOnto" \notin happened =>
    \A q \in Ptrs : IsAllocated(q) =>
      \E o \in Objs : IsLive(o) /\ addr[o].base = q

(* libraryUsers counts the allocated objects (their base class increments  *)
(* it in every constructor and decrements it in the destructor).           *)
LibraryUsers == Cardinality({q \in Ptrs : IsAllocated(q)})

(* "finalize the socket library (when applicable) automatically": when no  *)
(* address is left, none of them is counted as a user any more.            *)
FinalizedWhenUnused == (\A o \in Objs : ~IsLive(o)) => LibraryUsers = 0
=============================================================================
