---------------------------- MODULE AddressProofs ----------------------------
(***************************************************************************)
(* Proofs about module Address, for any number of address objects, heap    *)
(* addresses and domains.                                                  *)
(***************************************************************************)
EXTENDS Address, TLAPS

-----------------------------------------------------------------------------
(* What the operations are made of.                                        *)

LEMMA RawType == Raw \in Addrs /\ Raw.base = Null /\ ~Raw.live
BY DEF Raw, Addrs, Tags

LEMMA HoldsType ==
  ASSUME NEW d \in Tags, NEW q \in Ptrs \cup {Null}
  PROVE  /\ Holds(d, q) \in Addrs
         /\ Holds(d, q).live /\ Holds(d, q).dom = d /\ Holds(d, q).base = q
BY DEF Holds, Addrs

(* A tag is never the mark of a free cell: a pointee whose class is its    *)
(* address's tag is allocated.                                             *)
LEMMA TagsNotFree == "free" \notin Tags /\ Domains \subseteq Tags
BY AddressAssumption DEF Tags

LEMMA AfterDeleteIs ==
  ASSUME TypeOK, NEW q \in Ptrs \cup {Null}
  PROVE  /\ AfterDelete(q) \in [Ptrs -> Domains \cup {"free"}]
         /\ \A p \in Ptrs : AfterDelete(q)[p] = IF p = q THEN "free" ELSE heap[p]
         /\ q = Null => AfterDelete(q) = heap
BY AddressAssumption DEF AfterDelete, TypeOK

LEMMA MeetsIs ==
  ASSUME TypeOK, NEW o \in Objs, NEW h \in Hazards, Meets(o, h)
  PROVE  /\ happened' \subseteq Hazards
         /\ happened \subseteq happened'
         /\ HasSize(o) => h \in happened'
BY DEF Meets, TypeOK

LEMMA HazardsDiffer ==
  /\ {"copyBlank", "moveOnto", "assignUnknown", "noMemory"} = Hazards
  /\ "moveOnto" \notin {"copyBlank", "assignUnknown", "noMemory"}
BY DEF Hazards

-----------------------------------------------------------------------------
(* The inductive invariant: nothing has to be added, but ownership and the *)
(* absence of leaks are proved together with the types.                    *)
AddressInv == TypeOK /\ OwnsPointee /\ NoLeak

LEMMA AddressInit == Init => AddressInv
BY RawType DEF Init, AddressInv, TypeOK, OwnsPointee, NoLeak, IsLive, IsAllocated

(* A new address with a pointee of its own, in a free cell. *)
LEMMA GainsPointee ==
  ASSUME AddressInv, NEW o \in Objs, NEW d \in Domains, NEW q \in Ptrs,
         ~IsLive(o), ~IsAllocated(q),
         heap' = [heap EXCEPT ![q] = d],
         addr' = [addr EXCEPT ![o] = Holds(d, q)],
         UNCHANGED happened
  PROVE  AddressInv'
BY HoldsType, TagsNotFree, AddressAssumption
   DEF AddressInv, TypeOK, OwnsPointee, NoLeak, IsLive, IsAllocated, HasSize, Addrs

(* assign() that succeeds: the old pointee is freed, a new one allocated,  *)
(* possibly in its place.                                                  *)
LEMMA AssignToKeeps ==
  ASSUME AddressInv, NEW o \in Objs, NEW d \in Domains, NEW q \in Ptrs,
         IsLive(o), AssignTo(o, d, q)
  PROVE  AddressInv'
<1> DEFINE old == addr[o].base
<1>1. old \in Ptrs \cup {Null}
  BY DEF AddressInv, TypeOK, Addrs
<1>2. /\ heap' \in [Ptrs -> Domains \cup {"free"}]
      /\ \A p \in Ptrs : heap'[p] = IF p = q THEN d ELSE IF p = old THEN "free" ELSE heap[p]
  BY <1>1, AfterDeleteIs DEF AssignTo, AddressInv
<1>3. /\ addr' \in [Objs -> Addrs] /\ addr'[o] = Holds(d, q)
      /\ \A a \in Objs \ {o} : addr'[a] = addr[a]
  BY HoldsType, TagsNotFree DEF AssignTo, AddressInv, TypeOK
<1>4. UNCHANGED happened /\ (q = old \/ ~IsAllocated(q))
  BY DEF AssignTo
<1>5. TypeOK'
  BY <1>2, <1>3, <1>4 DEF AddressInv, TypeOK
<1>6. OwnsPointee'
  BY <1>1, <1>2, <1>3, <1>4, HoldsType, TagsNotFree, AddressAssumption
     DEF AddressInv, TypeOK, OwnsPointee, IsLive, IsAllocated, HasSize, Addrs
<1>7. NoLeak'
  BY <1>1, <1>2, <1>3, <1>4, HoldsType, TagsNotFree, AddressAssumption
     DEF AddressInv, TypeOK, NoLeak, IsLive, IsAllocated, Addrs
<1> QED
  BY <1>5, <1>6, <1>7 DEF AddressInv

(* The old pointee is freed and the pointer stays; an address that had one *)
(* has then met a hazard that OwnsPointee excludes.                        *)
LEMMA DanglesKeeps ==
  ASSUME AddressInv, NEW o \in Objs, NEW d \in Tags, NEW why \in Hazards,
         IsLive(o), why # "moveOnto", Meets(o, why),
         heap' = AfterDelete(addr[o].base),
         addr' = [addr EXCEPT ![o].dom = d]
  PROVE  AddressInv'
<1> DEFINE old == addr[o].base
<1>1. old \in Ptrs \cup {Null}
  BY DEF AddressInv, TypeOK, Addrs
<1>2. /\ heap' \in [Ptrs -> Domains \cup {"free"}]
      /\ \A p \in Ptrs : heap'[p] = IF p = old THEN "free" ELSE heap[p]
      /\ old = Null => heap' = heap
  BY <1>1, AfterDeleteIs DEF AddressInv
<1>3. /\ addr' \in [Objs -> Addrs]
      /\ \A a \in Objs : addr'[a].live = addr[a].live /\ addr'[a].base = addr[a].base
      /\ \A a \in Objs \ {o} : addr'[a] = addr[a]
  BY DEF AddressInv, TypeOK, Addrs
<1>4. /\ happened' \subseteq Hazards /\ happened \subseteq happened'
      /\ HasSize(o) => why \in happened'
  BY MeetsIs DEF AddressInv
<1>5. TypeOK'
  BY <1>2, <1>3, <1>4 DEF TypeOK
<1>6. OwnsPointee'
  BY <1>2, <1>3, <1>4 DEF AddressInv, OwnsPointee, IsLive, HasSize
<1>7. NoLeak'
  BY <1>2, <1>3, <1>4 DEF AddressInv, NoLeak, IsLive, IsAllocated
<1> QED
  BY <1>5, <1>6, <1>7 DEF AddressInv

LEMMA AssignThrowsKeeps ==
  ASSUME AddressInv, NEW o \in Objs, NEW d \in Tags, NEW why \in Hazards,
         IsLive(o), why # "moveOnto", AssignThrows(o, d, why)
  PROVE  AddressInv'
BY DanglesKeeps DEF AssignThrows

(* A pointee moves from a to o; what o had is not freed.                   *)
LEMMA MoveKeeps ==
  ASSUME AddressInv, NEW o \in Objs, NEW a \in Objs, IsLive(a),
         addr' = [[addr EXCEPT ![o] = addr[a]] EXCEPT ![a].base = Null],
         UNCHANGED heap,
         happened \subseteq happened', happened' \subseteq Hazards,
         IsLive(o) /\ HasSize(o) => "moveOnto" \in happened'
  PROVE  AddressInv'
<1>1. /\ addr' \in [Objs -> Addrs]
      /\ o # a => addr'[o] = addr[a]
      /\ addr'[a] = [addr[a] EXCEPT !.base = Null]
      /\ \A b \in Objs \ {o, a} : addr'[b] = addr[b]
  BY DEF AddressInv, TypeOK, Addrs
<1>2. /\ addr'[a].base = Null /\ addr'[a].live /\ addr'[a].dom = addr[a].dom
  BY <1>1 DEF IsLive, AddressInv, TypeOK, Addrs
<1>3. TypeOK'
  BY <1>1 DEF AddressInv, TypeOK
<1>4. OwnsPointee'
  BY <1>1, <1>2 DEF AddressInv, OwnsPointee, IsLive, HasSize
<1>5. ASSUME "moveOnto" \notin happened', NEW q \in Ptrs, IsAllocated(q)'
      PROVE  (\E b \in Objs : IsLive(b) /\ addr[b].base = q)'
  <2>1. PICK b \in Objs : IsLive(b) /\ addr[b].base = q
    BY <1>5 DEF AddressInv, NoLeak, IsAllocated
  <2>2. b # o
    BY <1>5, <2>1, AddressAssumption DEF HasSize
  <2>3. CASE b = a
    BY <1>1, <2>1, <2>2, <2>3 DEF IsLive
  <2>4. CASE b # a
    BY <1>1, <2>1, <2>2, <2>4 DEF IsLive
  <2> QED
    BY <2>3, <2>4
<1> QED
  BY <1>3, <1>4, <1>5 DEF AddressInv, NoLeak

-----------------------------------------------------------------------------
(* One case for each member function.                                      *)
LEMMA AddressStep ==
  ASSUME AddressInv, [Next]_vars
  PROVE  AddressInv'
<1>1. CASE UNCHANGED vars
  BY <1>1 DEF vars, AddressInv, TypeOK, OwnsPointee, NoLeak, IsLive, IsAllocated, HasSize
<1>2. ASSUME NEW o \in Objs, Default(o)
      PROVE  AddressInv'
  <2>1. [Raw EXCEPT !.live = TRUE] \in Addrs /\ [Raw EXCEPT !.live = TRUE].base = Null
    BY DEF Raw, Addrs, Tags
  <2> QED
    BY <1>2, <2>1, RawType
       DEF Default, AddressInv, TypeOK, OwnsPointee, NoLeak, IsLive, IsAllocated, HasSize
<1>3. ASSUME NEW o \in Objs, Destroy(o)
      PROVE  AddressInv'
  <2> DEFINE old == addr[o].base
  <2>1. old \in Ptrs \cup {Null}
    BY DEF AddressInv, TypeOK, Addrs
  <2>2. /\ heap' \in [Ptrs -> Domains \cup {"free"}]
        /\ \A p \in Ptrs : heap'[p] = IF p = old THEN "free" ELSE heap[p]
    BY <1>3, <2>1, AfterDeleteIs DEF Destroy, AddressInv
  <2>3. /\ addr' \in [Objs -> Addrs] /\ addr'[o] = Raw
        /\ \A a \in Objs \ {o} : addr'[a] = addr[a]
        /\ UNCHANGED happened
    BY <1>3, RawType DEF Destroy, AddressInv, TypeOK
  <2>4. TypeOK'
    BY <2>2, <2>3 DEF AddressInv, TypeOK
  <2>5. OwnsPointee'
    BY <1>3, <2>2, <2>3, RawType DEF Destroy, AddressInv, TypeOK, Addrs, OwnsPointee, IsLive, HasSize
  <2>6. NoLeak'
    BY <2>2, <2>3 DEF AddressInv, NoLeak, IsLive, IsAllocated
  <2> QED
    BY <2>4, <2>5, <2>6 DEF AddressInv
<1>4. ASSUME NEW o \in Objs, NEW d \in Domains, NEW q \in Ptrs, Construct(o, d, q)
      PROVE  AddressInv'
  BY <1>4, GainsPointee DEF Construct
<1>5. ASSUME NEW o \in Objs, NEW d \in Domains, NEW q \in Ptrs, Assign(o, d, q)
      PROVE  AddressInv'
  <2>1. d \in Tags /\ "unknown" \in Tags
    BY DEF Tags
  <2>2. CASE AssignTo(o, d, q)
    BY <1>5, <2>2, AssignToKeeps DEF Assign
  <2>3. CASE AssignThrows(o, d, "noMemory")
    BY <1>5, <2>1, <2>3, HazardsDiffer, AssignThrowsKeeps DEF Assign
  <2>4. CASE AssignThrows(o, "unknown", "assignUnknown")
    BY <1>5, <2>1, <2>4, HazardsDiffer, AssignThrowsKeeps DEF Assign
  <2> QED
    BY <1>5, <2>2, <2>3, <2>4 DEF Assign
<1>6. ASSUME NEW o \in Objs, NEW d \in Domains, NEW q \in Ptrs, ReceiveFrom(o, d, q)
      PROVE  AddressInv'
  <2>1. /\ happened' \subseteq Hazards /\ happened \subseteq happened'
        /\ HasSize(o) => "moveOnto" \in happened'
    BY <1>6, MeetsIs, HazardsDiffer DEF ReceiveFrom, AddressInv
  <2>2. /\ addr' \in [Objs -> Addrs] /\ addr'[o] = Holds(d, q)
        /\ \A a \in Objs \ {o} : addr'[a] = addr[a]
    BY <1>6, HoldsType, TagsNotFree DEF ReceiveFrom, AddressInv, TypeOK
  <2>3. /\ heap' \in [Ptrs -> Domains \cup {"free"}]
        /\ \A p \in Ptrs : heap'[p] = IF p = q THEN d ELSE heap[p]
        /\ ~IsAllocated(q) /\ IsLive(o)
    BY <1>6 DEF ReceiveFrom, AddressInv, TypeOK
  <2>4. TypeOK'
    BY <2>1, <2>2, <2>3 DEF TypeOK
  <2>5. OwnsPointee'
    BY <2>1, <2>2, <2>3, HoldsType, TagsNotFree
       DEF AddressInv, TypeOK, Addrs, OwnsPointee, IsLive, HasSize, IsAllocated
  <2>6. NoLeak'
    BY <2>1, <2>2, <2>3, HoldsType, TagsNotFree, AddressAssumption
       DEF AddressInv, NoLeak, IsLive, IsAllocated, HasSize
  <2> QED
    BY <2>4, <2>5, <2>6 DEF AddressInv
<1>7. ASSUME NEW o \in Objs, NEW a \in Objs, MoveConstruct(o, a)
      PROVE  AddressInv'
  <2>1. addr' = [[addr EXCEPT ![o] = addr[a]] EXCEPT ![a].base = Null]
    BY <1>7 DEF MoveConstruct
  <2> QED
    BY <1>7, <2>1, MoveKeeps DEF MoveConstruct, AddressInv, TypeOK
<1>8. ASSUME NEW o \in Objs, NEW a \in Objs, MoveAssign(o, a)
      PROVE  AddressInv'
  <2>1. /\ happened' \subseteq Hazards /\ happened \subseteq happened'
        /\ HasSize(o) => "moveOnto" \in happened'
    BY <1>8, MeetsIs, HazardsDiffer DEF MoveAssign, AddressInv
  <2> QED
    BY <1>8, <2>1, MoveKeeps DEF MoveAssign
<1>9. ASSUME NEW o \in Objs, NEW a \in Objs, NEW q \in Ptrs, CopyConstruct(o, a, q)
      PROVE  AddressInv'
  <2>1. CASE HasSize(a)
    <3>1. addr[a].base \in Ptrs /\ heap[addr[a].base] \in Domains
      BY <1>9, <2>1 DEF CopyConstruct, IsAllocated, AddressInv, TypeOK
    <3> QED
      BY <1>9, <2>1, <3>1, GainsPointee DEF CopyConstruct
  <2>2. CASE ~HasSize(a)
    <3>1. Holds(addr[a].dom, Null) \in Addrs /\ Holds(addr[a].dom, Null).base = Null
      BY HoldsType DEF AddressInv, TypeOK, Addrs
    <3> QED
      BY <1>9, <2>2, <3>1 DEF CopyConstruct, AddressInv, TypeOK, OwnsPointee, NoLeak,
                              IsLive, IsAllocated, HasSize
  <2> QED
    BY <2>1, <2>2
<1>10. ASSUME NEW o \in Objs, NEW a \in Objs, NEW q \in Ptrs, CopyAssign(o, a, q)
       PROVE  AddressInv'
  <2>1. CASE HasSize(a)
    <3>1. heap[addr[a].base] \in Domains /\ heap[addr[a].base] \in Tags
      BY <1>10, <2>1, TagsNotFree DEF CopyAssign, IsAllocated, AddressInv, TypeOK
    <3> QED
      BY <1>10, <2>1, <3>1, HazardsDiffer, AssignToKeeps, AssignThrowsKeeps DEF CopyAssign
  <2>2. CASE ~HasSize(a)
    <3>1. addr[a].dom \in Tags
      BY DEF AddressInv, TypeOK, Addrs
    <3> QED
      BY <1>10, <2>2, <3>1, HazardsDiffer, DanglesKeeps DEF CopyAssign
  <2> QED
    BY <2>1, <2>2
<1> QED
  BY <1>1, <1>2, <1>3, <1>4, <1>5, <1>6, <1>7, <1>8, <1>9, <1>10 DEF Next

-----------------------------------------------------------------------------
LEMMA AddressInvariant == Spec => []AddressInv
<1>1. Init => AddressInv
  BY AddressInit
<1>2. AddressInv /\ [Next]_vars => AddressInv'
  BY AddressStep
<1> QED
  BY <1>1, <1>2, PTL DEF Spec

(* Every variable keeps its type. *)
THEOREM AddressTypes == Spec => []TypeOK
<1>1. AddressInv => TypeOK
  BY DEF AddressInv
<1> QED
  BY <1>1, AddressInvariant, PTL

(* An address that points anywhere is the only owner of an allocated       *)
(* object of the class its tag says, whatever was copied, moved, received  *)
(* into and destroyed, as long as no address with a pointee was assigned a *)
(* blank one or saw an exception inside assign().                          *)
THEOREM PointeesAreOwned == Spec => []OwnsPointee
<1>1. AddressInv => OwnsPointee
  BY DEF AddressInv
<1> QED
  BY <1>1, AddressInvariant, PTL

(* Every allocated object has an address that will delete it, until an     *)
(* address that has a pointee is moved onto.                               *)
THEOREM PointeesAreKept == Spec => []NoLeak
<1>1. AddressInv => NoLeak
  BY DEF AddressInv
<1> QED
  BY <1>1, AddressInvariant, PTL
=============================================================================
