---------------------------- MODULE SocketProofs ----------------------------
(***************************************************************************)
(* Proofs about module Socket, for any number of objects, descriptors and  *)
(* names, and whatever clients and other processes do.                     *)
(***************************************************************************)
EXTENDS Socket, TLAPS

-----------------------------------------------------------------------------
(* What is inductive.  For leaks: types, and that a destructor that is     *)
(* under way has a descriptor.  For sole ownership: also that a descriptor *)
(* the client took is open, as long as it misused no object.               *)

Ready == \A o \in Objs : obj[o].phase \in {"named", "shut"} => obj[o].valid

LeakInv == TypeOK /\ Ready /\ NoLeak

ClientOpen == ~misused => \A f \in client : IsOpen(f)

OwnershipInv == LeakInv /\ ClientOpen /\ SoleOwner

-----------------------------------------------------------------------------
(* Types.                                                                  *)

LEMMA RawType == Raw \in Objects /\ ~Raw.valid /\ Raw.phase = "raw"
BY DEF Raw, Objects, Phases, Addresses, NoAddress, Domains

LEMMA ClosedType == Closed \in KernSockets
BY DEF Closed, KernSockets, KernStates, Domains

LEMMA TypeInit == Init => TypeOK /\ Ready
BY RawType, ClosedType DEF Init, TypeOK, Ready, FileMarks

(* TakeMembers keeps an object an object. *)
LEMMA TakeMembersType ==
  ASSUME NEW a \in Objects, NEW m \in Objects
  PROVE  /\ TakeMembers(a, m) \in Objects
         /\ TakeMembers(a, m).valid = m.valid
         /\ TakeMembers(a, m).fd = m.fd
         /\ TakeMembers(a, m).dom = m.dom
         /\ TakeMembers(a, m).phase = a.phase
         /\ TakeMembers(a, m).local = a.local
BY DEF TakeMembers, Objects

LEMMA TypeStep ==
  ASSUME TypeOK, Ready, [Next]_vars
  PROVE  TypeOK' /\ Ready'
<1> USE DEF TypeOK, Ready
<1>1. CASE UNCHANGED vars
  BY <1>1 DEF vars
<1>2. ASSUME NEW o \in Objs, NEW f \in Fds, NEW d \in Domains, Construct(o, f, d)
      PROVE  TypeOK' /\ Ready'
  <2>1. Alive(f, d) \in Objects /\ Alive(f, d).valid /\ Alive(f, d).fd \in Fds
    BY <1>2 DEF Alive, Objects, Phases, Addresses, NoAddress, Domains
  <2> QED
    BY <1>2, <2>1 DEF Construct, KernSockets, KernStates
<1>3. ASSUME NEW o1 \in Objs, NEW o2 \in Objs, NEW f1 \in Fds, NEW f2 \in Fds,
             CreateUnixPair(o1, o2, f1, f2)
      PROVE  TypeOK' /\ Ready'
  <2>1. \A f \in Fds : /\ Alive(f, "unix") \in Objects
                       /\ Alive(f, "unix").valid /\ Alive(f, "unix").fd \in Fds
    BY DEF Alive, Objects, Phases, Addresses, NoAddress, Domains
  <2> QED
    BY <1>3, <2>1 DEF CreateUnixPair, KernSockets, KernStates, Domains
<1>4. ASSUME NEW o \in Objs, NEW s \in Objs, MoveConstruct(o, s)
      PROVE  TypeOK' /\ Ready'
  <2>1. PICK fd \in Fds \cup {NoFd}, dom \in Domains :
          obj' = [obj EXCEPT
            ![o] = TakeMembers([Raw EXCEPT !.phase = "live", !.fd = fd, !.dom = dom], obj[s]),
            ![s] = TakeMembers(obj[s], [Raw EXCEPT !.phase = "live", !.fd = fd, !.dom = dom])]
    BY <1>4 DEF MoveConstruct
  <2> DEFINE fresh == [Raw EXCEPT !.phase = "live", !.fd = fd, !.dom = dom]
  <2>2. fresh \in Objects /\ ~fresh.valid /\ fresh.phase = "live"
    BY DEF Raw, Objects, Phases, Addresses, NoAddress, Domains
  <2> HIDE DEF fresh
  <2>3. obj' = [obj EXCEPT ![o] = TakeMembers(fresh, obj[s]),
                           ![s] = TakeMembers(obj[s], fresh)]
    BY <2>1 DEF fresh
  <2>4. obj[s].phase = "live" /\ o # s
    BY <1>4 DEF MoveConstruct, IsLive
  <2>5. TakeMembers(fresh, obj[s]) \in Objects /\ TakeMembers(obj[s], fresh) \in Objects
    BY <2>2, TakeMembersType
  <2>6. /\ obj'[o] = TakeMembers(fresh, obj[s])
        /\ obj'[s] = TakeMembers(obj[s], fresh)
        /\ \A p \in Objs \ {o, s} : obj'[p] = obj[p]
        /\ obj' \in [Objs -> Objects]
    BY <2>3, <2>4, <2>5
  <2>7. Ready' /\ (\A p \in Objs : obj'[p].valid => obj'[p].fd \in Fds)
    BY <2>2, <2>4, <2>6, TakeMembersType
  <2> QED
    BY <1>4, <2>6, <2>7 DEF MoveConstruct
<1>5. ASSUME NEW o \in Objs, NEW s \in Objs, MoveAssign(o, s)
      PROVE  TypeOK' /\ Ready'
  <2>1. obj[o].phase = "live" /\ obj[s].phase = "live"
    BY <1>5 DEF MoveAssign, IsLive
  <2>2. TakeMembers(obj[o], obj[s]) \in Objects /\ TakeMembers(obj[s], obj[o]) \in Objects
    BY TakeMembersType
  <2>3. /\ obj' \in [Objs -> Objects]
        /\ o # s => obj'[o] = TakeMembers(obj[o], obj[s])
        /\ obj'[s] = TakeMembers(obj[s], obj[o])
        /\ \A p \in Objs \ {o, s} : obj'[p] = obj[p]
    BY <1>5, <2>2 DEF MoveAssign
  <2>4. Ready' /\ (\A p \in Objs : obj'[p].valid => obj'[p].fd \in Fds)
    BY <2>1, <2>3, TakeMembersType
  <2> QED
    BY <1>5, <2>3, <2>4 DEF MoveAssign
<1>6. ASSUME NEW o \in Objs, TakeFD(o) \/ DestroyInvalid(o)
      PROVE  TypeOK' /\ Ready'
  <2>1. CASE TakeFD(o)
    BY <2>1 DEF TakeFD, IsLive, Objects
  <2>2. CASE DestroyInvalid(o)
    BY <2>2, RawType DEF DestroyInvalid
  <2> QED
    BY <1>6, <2>1, <2>2
<1>7. ASSUME NEW o \in Objs, NEW p \in Paths, Bind(o, p)
      PROVE  TypeOK' /\ Ready'
  BY <1>7 DEF Bind, Call, KernSockets
<1>8. ASSUME NEW o \in Objs, Listen(o) \/ Connect(o)
      PROVE  TypeOK' /\ Ready'
  <2>1. CASE Listen(o)
    BY <2>1 DEF Listen, Call, KernSockets, KernStates
  <2>2. CASE Connect(o)
    BY <2>2 DEF Connect, Call, KernSockets, KernStates
  <2> QED
    BY <1>8, <2>1, <2>2
<1>9. ASSUME NEW o \in Objs, NEW l \in Objs, NEW f \in Fds, Accept(o, l, f)
      PROVE  TypeOK' /\ Ready'
  <2>1. obj[l].dom \in Domains
    BY DEF Objects
  <2>2. /\ Alive(f, obj[l].dom) \in Objects
        /\ Alive(f, obj[l].dom).valid /\ Alive(f, obj[l].dom).fd \in Fds
    BY <2>1 DEF Alive, Objects, Phases, Addresses, NoAddress, Domains
  <2>3. [kern[obj[l].fd] EXCEPT !.state = "connected"] \in KernSockets
    BY <1>9 DEF Accept, Call, KernSockets, KernStates
  <2>4. obj' \in [Objs -> Objects] /\ kern' \in [Fds -> KernSockets]
    BY <1>9, <2>2, <2>3 DEF Accept
  <2>5. UNCHANGED <<file, client, misused>>
    BY <1>9 DEF Accept
  <2>6. Ready' /\ (\A p \in Objs : obj'[p].valid => obj'[p].fd \in Fds)
    BY <1>9, <2>2 DEF Accept, Alive
  <2> QED
    BY <2>4, <2>5, <2>6
<1>10. ASSUME NEW o \in Objs, ReadLocal(o)
       PROVE  TypeOK' /\ Ready'
  <2>1. obj[o].valid /\ obj[o].fd \in Fds
    BY <1>10 DEF ReadLocal
  <2>2. LocalAddress(o) \in Addresses
    BY <2>1 DEF LocalAddress, KernSockets, Addresses
  <2> DEFINE named == [obj[o] EXCEPT !.phase = "named", !.local = LocalAddress(o)]
  <2>3. named \in Objects /\ named.valid = obj[o].valid /\ named.fd = obj[o].fd
    BY <2>2 DEF Objects, Phases
  <2>4. obj' = [obj EXCEPT ![o] = named] /\ UNCHANGED <<kern, file, client, misused>>
    BY <1>10 DEF ReadLocal
  <2> HIDE DEF named
  <2> QED
    BY <2>1, <2>3, <2>4
<1>11. ASSUME NEW o \in Objs, Shutdown(o)
       PROVE  TypeOK' /\ Ready'
  <2>1. obj[o].valid /\ obj[o].fd \in Fds
    BY <1>11 DEF Shutdown
  <2>2. kern' \in [Fds -> KernSockets]
    BY <1>11, <2>1 DEF Shutdown, KernSockets, KernStates
  <2>3. obj' \in [Objs -> Objects] /\ Ready'
    BY <1>11, <2>1 DEF Shutdown, Objects, Phases
  <2> QED
    BY <1>11, <2>2, <2>3 DEF Shutdown
<1>12. ASSUME NEW o \in Objs, Close(o)
       PROVE  TypeOK' /\ Ready'
  BY <1>12, ClosedType DEF Close, Leave, FileMarks, Objects, Phases
<1>13. ASSUME NEW o \in Objs, Unlink(o) \/ UnlinkFails(o)
       PROVE  TypeOK' /\ Ready'
  BY <1>13, RawType DEF Unlink, UnlinkFails, FileMarks
<1>14. ASSUME EndProcess
       PROVE  TypeOK' /\ Ready'
  BY <1>14, RawType, ClosedType DEF EndProcess, FileMarks
<1>15. ASSUME NEW f \in Fds, ClientClose(f)
       PROVE  TypeOK' /\ Ready'
  BY <1>15, ClosedType DEF ClientClose, Leave, FileMarks
<1>16. ASSUME NEW p \in Paths, ForeignBind(p) \/ ForeignUnlink(p)
       PROVE  TypeOK' /\ Ready'
  BY <1>16 DEF ForeignBind, ForeignUnlink, FileMarks
<1> QED
  BY <1>1, <1>2, <1>3, <1>4, <1>5, <1>6, <1>7, <1>8, <1>9, <1>10, <1>11, <1>12, <1>13,
     <1>14, <1>15, <1>16
  DEF Next, Destructor, Terminate, LocalAddressThrows, Crash

(* Every variable keeps its type; in particular an object whose flag is    *)
(* set, that of a destructor under way too, has a number in m_sockFD.      *)
THEOREM TypeCorrect == Spec => []TypeOK
<1>1. Init => TypeOK /\ Ready
  BY TypeInit
<1>2. TypeOK /\ Ready /\ [Next]_vars => TypeOK' /\ Ready'
  BY TypeStep
<1> QED
  BY <1>1, <1>2, PTL DEF Spec

-----------------------------------------------------------------------------
(* What each action does to ownership, in terms of Owns, IsOpen, client    *)
(* and misused.                                                            *)

OwnsAsBefore ==
  /\ \A p \in Objs, g \in Fds : Owns(p, g)' <=> Owns(p, g)
  /\ \A g \in Fds : IsOpen(g)' <=> IsOpen(g)
  /\ client' = client /\ misused' = misused

(* Descriptor f, which was free, is o's and nothing else changes. *)
Gains(o, f) ==
  /\ ~IsOpen(f)
  /\ \A p \in Objs, g \in Fds :
       Owns(p, g)' <=> IF p = o THEN g = f ELSE Owns(p, g)
  /\ \A g \in Fds : ~Owns(o, g)
  /\ \A g \in Fds : IsOpen(g)' <=> IsOpen(g) \/ g = f
  /\ client' = client /\ misused' = misused

(* What o and s own is exchanged. *)
Swaps(o, s) ==
  /\ \A p \in Objs, g \in Fds :
       Owns(p, g)' <=> Owns(IF p = o THEN s ELSE IF p = s THEN o ELSE p, g)
  /\ \A g \in Fds : IsOpen(g)' <=> IsOpen(g)
  /\ client' = client /\ misused' = misused

LEMMA SameOwners ==
  ASSUME TypeOK, Ready,
         \/ UNCHANGED vars
         \/ \E o \in Objs, p \in Paths : Bind(o, p)
         \/ \E o \in Objs : \/ Listen(o) \/ Connect(o) \/ DestroyInvalid(o)
                           \/ ReadLocal(o) \/ Shutdown(o)
                           \/ Unlink(o) \/ UnlinkFails(o)
         \/ \E p \in Paths : ForeignBind(p) \/ ForeignUnlink(p)
  PROVE  OwnsAsBefore
<1> USE DEF TypeOK, Owns, IsOpen, OwnsAsBefore
<1>1. CASE UNCHANGED vars
  BY <1>1 DEF vars
<1>2. ASSUME NEW o \in Objs, NEW p \in Paths, Bind(o, p)
      PROVE  OwnsAsBefore
  BY <1>2 DEF Bind, Call, KernSockets
<1>3. ASSUME NEW o \in Objs, Listen(o)
      PROVE  OwnsAsBefore
  BY <1>3 DEF Listen, Call, KernSockets
<1>4. ASSUME NEW o \in Objs, Connect(o)
      PROVE  OwnsAsBefore
  BY <1>4 DEF Connect, Call, KernSockets
<1>5. ASSUME NEW o \in Objs, DestroyInvalid(o)
      PROVE  OwnsAsBefore
  BY <1>5, RawType DEF DestroyInvalid
<1>6. ASSUME NEW o \in Objs, ReadLocal(o)
      PROVE  OwnsAsBefore
  BY <1>6 DEF ReadLocal, IsLive, Objects
<1>7. ASSUME NEW o \in Objs, Shutdown(o)
      PROVE  OwnsAsBefore
  <2>1. obj[o].fd \in Fds
    BY <1>7 DEF Shutdown, Ready
  <2> QED
    BY <1>7, <2>1 DEF Shutdown, Objects, KernSockets
<1>8. ASSUME NEW o \in Objs, Unlink(o) \/ UnlinkFails(o)
      PROVE  OwnsAsBefore
  BY <1>8, RawType DEF Unlink, UnlinkFails
<1>9. ASSUME NEW p \in Paths, ForeignBind(p) \/ ForeignUnlink(p)
      PROVE  OwnsAsBefore
  BY <1>9 DEF ForeignBind, ForeignUnlink
<1> QED
  BY <1>1, <1>2, <1>3, <1>4, <1>5, <1>6, <1>7, <1>8, <1>9

LEMMA ConstructGains ==
  ASSUME TypeOK, NEW o \in Objs, NEW f \in Fds, NEW d \in Domains, Construct(o, f, d)
  PROVE  Gains(o, f)
BY DEF Construct, Alive, Gains, TypeOK, Owns, IsOpen

LEMMA AcceptGains ==
  ASSUME TypeOK, NEW o \in Objs, NEW l \in Objs, NEW f \in Fds, Accept(o, l, f)
  PROVE  Gains(o, f)
<1>1. kern' = [kern EXCEPT ![f] = [kern[obj[l].fd] EXCEPT !.state = "connected"]]
  BY DEF Accept
<1>2. kern'[f].state = "connected"
  BY <1>1 DEF Accept, Call, TypeOK, KernSockets
<1> QED
  BY <1>1, <1>2 DEF Accept, Alive, Gains, TypeOK, Owns, IsOpen

LEMMA PairGains ==
  ASSUME TypeOK, NEW o1 \in Objs, NEW o2 \in Objs, NEW f1 \in Fds, NEW f2 \in Fds,
         CreateUnixPair(o1, o2, f1, f2)
  PROVE  /\ o1 # o2 /\ f1 # f2 /\ ~IsOpen(f1) /\ ~IsOpen(f2)
         /\ \A p \in Objs, g \in Fds :
              Owns(p, g)' <=> IF p = o1 THEN g = f1
                              ELSE IF p = o2 THEN g = f2 ELSE Owns(p, g)
         /\ \A g \in Fds : ~Owns(o1, g) /\ ~Owns(o2, g)
         /\ \A g \in Fds : IsOpen(g)' <=> IsOpen(g) \/ g \in {f1, f2}
         /\ client' = client /\ misused' = misused
BY DEF CreateUnixPair, Alive, TypeOK, Owns, IsOpen

LEMMA MoveConstructSwaps ==
  ASSUME TypeOK, NEW o \in Objs, NEW s \in Objs, MoveConstruct(o, s)
  PROVE  Swaps(o, s)
<1>1. PICK fd \in Fds \cup {NoFd}, dom \in Domains :
        obj' = [obj EXCEPT
          ![o] = TakeMembers([Raw EXCEPT !.phase = "live", !.fd = fd, !.dom = dom], obj[s]),
          ![s] = TakeMembers(obj[s], [Raw EXCEPT !.phase = "live", !.fd = fd, !.dom = dom])]
  BY DEF MoveConstruct
<1> DEFINE fresh == [Raw EXCEPT !.phase = "live", !.fd = fd, !.dom = dom]
<1>2. fresh \in Objects /\ ~fresh.valid /\ fresh.phase = "live"
  BY DEF Raw, Objects, Phases, Addresses, NoAddress, Domains
<1>3. obj' = [obj EXCEPT ![o] = TakeMembers(fresh, obj[s]), ![s] = TakeMembers(obj[s], fresh)]
  BY <1>1
<1> HIDE DEF fresh
<1>4. obj[o].phase = "raw" /\ obj[s].phase = "live" /\ o # s
  BY DEF MoveConstruct, IsLive
<1>5. /\ obj'[o] = TakeMembers(fresh, obj[s])
      /\ obj'[s] = TakeMembers(obj[s], fresh)
      /\ \A p \in Objs \ {o, s} : obj'[p] = obj[p]
  BY <1>3, <1>4 DEF TypeOK
<1>6. /\ obj'[o].valid = obj[s].valid /\ obj'[o].fd = obj[s].fd
      /\ obj'[o].phase = "live" /\ obj'[s].phase = "live" /\ ~obj'[s].valid
  BY <1>2, <1>4, <1>5, TakeMembersType DEF TypeOK
<1> QED
  BY <1>4, <1>5, <1>6 DEF MoveConstruct, Swaps, Owns, IsOpen

LEMMA MoveAssignSwaps ==
  ASSUME TypeOK, NEW o \in Objs, NEW s \in Objs, MoveAssign(o, s)
  PROVE  Swaps(o, s)
<1>1. /\ obj'[s] = TakeMembers(obj[s], obj[o])
      /\ o # s => obj'[o] = TakeMembers(obj[o], obj[s])
      /\ \A p \in Objs \ {o, s} : obj'[p] = obj[p]
  BY DEF MoveAssign, TypeOK
<1>2. /\ obj'[o].valid = obj[s].valid /\ obj'[o].fd = obj[s].fd
      /\ obj'[s].valid = obj[o].valid /\ obj'[s].fd = obj[o].fd
      /\ obj'[o].phase = "live" /\ obj'[s].phase = "live"
      /\ obj[o].phase = "live" /\ obj[s].phase = "live"
  BY <1>1, TakeMembersType DEF TypeOK, MoveAssign, IsLive
<1> QED
  BY <1>1, <1>2 DEF MoveAssign, Swaps, Owns, IsOpen

LEMMA TakeFDEffect ==
  ASSUME TypeOK, NEW o \in Objs, TakeFD(o)
  PROVE  /\ \A p \in Objs, g \in Fds : Owns(p, g)' <=> p # o /\ Owns(p, g)
         /\ \A g \in Fds : IsOpen(g)' <=> IsOpen(g)
         /\ client' = client \cup ({obj[o].fd} \cap Fds)
         /\ ~misused' => ~misused /\ obj[o].fd \in Fds /\ Owns(o, obj[o].fd)
BY DEF TakeFD, IsLive, TypeOK, Objects, Owns, IsOpen

LEMMA CloseEffect ==
  ASSUME TypeOK, Ready, NEW o \in Objs, Close(o)
  PROVE  /\ obj[o].fd \in Fds /\ Owns(o, obj[o].fd)
         /\ \A p \in Objs, g \in Fds : Owns(p, g)' <=> p # o /\ Owns(p, g)
         /\ \A g \in Fds : IsOpen(g)' <=> IsOpen(g) /\ g # obj[o].fd
         /\ client' = client /\ misused' = misused
BY DEF Close, Closed, TypeOK, Ready, Objects, Owns, IsOpen

LEMMA ClientCloseEffect ==
  ASSUME TypeOK, NEW f \in Fds, ClientClose(f)
  PROVE  /\ f \in client
         /\ \A p \in Objs, g \in Fds : Owns(p, g)' <=> Owns(p, g)
         /\ \A g \in Fds : IsOpen(g)' <=> IsOpen(g) /\ g # f
         /\ client' = client \ {f} /\ misused' = misused
BY DEF ClientClose, Closed, TypeOK, Owns, IsOpen

LEMMA EndProcessEffect ==
  ASSUME EndProcess
  PROVE  /\ \A p \in Objs, g \in Fds : ~Owns(p, g)'
         /\ \A g \in Fds : ~IsOpen(g)'
         /\ client' = {} /\ ~misused'
BY RawType DEF EndProcess, Closed, Owns, IsOpen

-----------------------------------------------------------------------------
(* Ownership.                                                              *)

LEMMA OwnershipInit == Init => OwnershipInv
<1> SUFFICES ASSUME Init PROVE LeakInv /\ ClientOpen /\ SoleOwner
  BY DEF OwnershipInv
<1>1. TypeOK /\ Ready
  BY TypeInit
<1>2. ClientOpen /\ SoleOwner /\ NoLeak
  BY RawType DEF Init, ClientOpen, SoleOwner, NoLeak, Owns, IsOpen, Closed
<1> QED
  BY <1>1, <1>2 DEF LeakInv

(* An open descriptor that changes hands gets a new owner, and one that    *)
(* loses its owner goes to the client or is closed.                        *)
LEMMA LeakStep == LeakInv /\ [Next]_vars => LeakInv'
<1> SUFFICES ASSUME LeakInv, [Next]_vars PROVE LeakInv'
  OBVIOUS
<1>1. TypeOK /\ Ready /\ TypeOK' /\ Ready'
  BY TypeStep DEF LeakInv
<1>2. NoLeak
  BY DEF LeakInv
<1> USE DEF NoLeak
<1>3. ASSUME OwnsAsBefore PROVE NoLeak'
  BY <1>2, <1>3 DEF OwnsAsBefore
<1>4. ASSUME NEW o \in Objs, NEW f \in Fds, Gains(o, f) PROVE NoLeak'
  BY <1>2, <1>4 DEF Gains
<1>5. ASSUME NEW o1 \in Objs, NEW o2 \in Objs, NEW f1 \in Fds, NEW f2 \in Fds,
             CreateUnixPair(o1, o2, f1, f2)
      PROVE  NoLeak'
  BY <1>1, <1>2, <1>5, PairGains
<1>6. ASSUME NEW o \in Objs, NEW s \in Objs, Swaps(o, s) PROVE NoLeak'
  BY <1>2, <1>6 DEF Swaps
<1>7. ASSUME NEW o \in Objs, TakeFD(o) PROVE NoLeak'
  BY <1>1, <1>2, <1>7, TakeFDEffect DEF Owns
<1>8. ASSUME NEW o \in Objs, Close(o) PROVE NoLeak'
  BY <1>1, <1>2, <1>8, CloseEffect DEF Owns
<1>9. ASSUME NEW f \in Fds, ClientClose(f) PROVE NoLeak'
  BY <1>1, <1>2, <1>9, ClientCloseEffect
<1>10. ASSUME EndProcess PROVE NoLeak'
  BY <1>10, EndProcessEffect
<1>11. NoLeak'
  BY <1>1, <1>2, <1>3, <1>4, <1>5, <1>6, <1>7, <1>8, <1>9, <1>10, SameOwners,
     ConstructGains, AcceptGains, MoveConstructSwaps, MoveAssignSwaps
  DEF Next, Destructor, Terminate, LocalAddressThrows, Crash
<1> QED
  BY <1>1, <1>11 DEF LeakInv

LEMMA OwnershipStep == OwnershipInv /\ [Next]_vars => OwnershipInv'
<1> SUFFICES ASSUME OwnershipInv, [Next]_vars PROVE OwnershipInv'
  OBVIOUS
<1>1. TypeOK /\ Ready /\ LeakInv'
  BY LeakStep DEF OwnershipInv, LeakInv
<1> DEFINE Owning == ClientOpen /\ SoleOwner
<1>2. Owning /\ client \in SUBSET Fds
  BY DEF OwnershipInv, LeakInv, TypeOK
<1> USE DEF ClientOpen, SoleOwner
<1>3. ASSUME OwnsAsBefore PROVE Owning'
  BY <1>2, <1>3 DEF OwnsAsBefore
<1>4. ASSUME NEW o \in Objs, NEW f \in Fds, Gains(o, f) PROVE Owning'
  BY <1>2, <1>4 DEF Gains
<1>5. ASSUME NEW o1 \in Objs, NEW o2 \in Objs, NEW f1 \in Fds, NEW f2 \in Fds,
             CreateUnixPair(o1, o2, f1, f2)
      PROVE  Owning'
  BY <1>1, <1>2, <1>5, PairGains
<1>6. ASSUME NEW o \in Objs, NEW s \in Objs, Swaps(o, s) PROVE Owning'
  BY <1>2, <1>6 DEF Swaps
<1>7. ASSUME NEW o \in Objs, TakeFD(o) PROVE Owning'
  BY <1>1, <1>2, <1>7, TakeFDEffect DEF Owns
<1>8. ASSUME NEW o \in Objs, Close(o) PROVE Owning'
  BY <1>1, <1>2, <1>8, CloseEffect DEF Owns
<1>9. ASSUME NEW f \in Fds, ClientClose(f) PROVE Owning'
  BY <1>1, <1>2, <1>9, ClientCloseEffect
<1>10. ASSUME EndProcess PROVE Owning'
  BY <1>10, EndProcessEffect
<1>11. Owning'
  BY <1>1, <1>2, <1>3, <1>4, <1>5, <1>6, <1>7, <1>8, <1>9, <1>10, SameOwners,
     ConstructGains, AcceptGains, MoveConstructSwaps, MoveAssignSwaps
  DEF Next, Destructor, Terminate, LocalAddressThrows, Crash
<1> QED
  BY <1>1, <1>11 DEF OwnershipInv

LEMMA OwnershipAlways == Spec => []OwnershipInv
BY OwnershipInit, OwnershipStep, PTL DEF Spec

(* No descriptor is closed by two destructors, or by a destructor when it  *)
(* is the client's, whatever is moved, taken and destroyed in which order, *)
(* and whatever is called on objects without a descriptor, until a client  *)
(* takes the descriptor of such an object.                                 *)
THEOREM OneOwner == Spec => []SoleOwner
BY OwnershipAlways, PTL DEF OwnershipInv

(* No open descriptor is without somebody who will close it, whatever      *)
(* clients do, taking descriptors from objects that have none included.    *)
THEOREM NothingLeaks == Spec => []NoLeak
<1>1. OwnershipInv => NoLeak
  BY DEF OwnershipInv, LeakInv
<1> QED
  BY <1>1, OwnershipAlways, PTL

-----------------------------------------------------------------------------
(* Refinement: module DescriptorOwnership.                                 *)

(* What the refinement mapping says of each descriptor. *)
OwnerExact ==
  \A f \in Fds :
    /\ Owner[f] = "free" <=> ~IsOpen(f)
    /\ Owner[f] = "client" <=> f \in client
    /\ \A o \in Objs : Owner[f] = o <=> Owns(o, f)
    /\ Owner[f] \in Objs \cup {"client", "free"}

LEMMA MappingExact == OwnershipInv /\ ~misused => OwnerExact
<1> SUFFICES ASSUME OwnershipInv, ~misused, NEW f \in Fds
             PROVE  /\ Owner[f] = "free" <=> ~IsOpen(f)
                    /\ Owner[f] = "client" <=> f \in client
                    /\ \A o \in Objs : Owner[f] = o <=> Owns(o, f)
                    /\ Owner[f] \in Objs \cup {"client", "free"}
  BY DEF OwnerExact
<1> DEFINE chosen == CHOOSE o \in Objs : Owns(o, f)
<1>1. Owner[f] = IF ~IsOpen(f) THEN "free" ELSE IF f \in client THEN "client" ELSE chosen
  BY DEF Owner
<1>2. IsOpen(f) /\ f \notin client => \E o \in Objs : Owns(o, f)
  BY DEF OwnershipInv, LeakInv, NoLeak
<1>3. IsOpen(f) /\ f \notin client => chosen \in Objs /\ Owns(chosen, f)
  BY <1>2
<1> HIDE DEF chosen
<1> QED
  BY <1>1, <1>3, NamesAssumption DEF OwnershipInv, SoleOwner, ClientOpen

LEMMA MappingInit == Init => Ownership!Init
BY DEF Init, Ownership!Init, Ownership!Free, Owner, IsOpen, Closed

LEMMA MappingExactNext == OwnershipInv' /\ ~misused' => OwnerExact'
BY MappingExact, PTL

LEMMA OwnerIsFunction ==
  /\ Owner = [f \in Fds |-> Owner[f]]
  /\ Owner' = [f \in Fds |-> Owner'[f]]
BY DEF Owner

LEMMA SameOwner ==
  ASSUME OwnerExact, OwnerExact', OwnsAsBefore
  PROVE  Owner' = Owner
<1>1. \A f \in Fds : Owner'[f] = Owner[f]
  BY NamesAssumption DEF OwnerExact, OwnsAsBefore
<1> QED
  BY <1>1, OwnerIsFunction

(* Descriptors F, all free, go to objects that owned nothing. *)
LEMMA AcquireStep ==
  ASSUME NEW F \in SUBSET Fds, NEW new \in [F -> Objs], OwnerExact, OwnerExact',
         \A f \in F : ~IsOpen(f),
         \A f, g \in F : new[f] = new[g] => f = g,
         \A f \in F, g \in Fds : ~Owns(new[f], g),
         \A f \in F : Owns(new[f], f)',
         \A f \in Fds \ F : /\ IsOpen(f)' <=> IsOpen(f)
                            /\ \A o \in Objs : Owns(o, f)' <=> Owns(o, f),
         client' = client
  PROVE  Ownership!Acquire
<1>1. \A f \in F : Owner[f] = "free"
  BY DEF OwnerExact
<1>2. \A f \in F, g \in Fds : Owner[g] # new[f]
  BY DEF OwnerExact
<1>3. \A f \in Fds : Owner'[f] = IF f \in F THEN new[f] ELSE Owner[f]
  BY NamesAssumption DEF OwnerExact
<1>4. Owner' = [f \in Fds |-> IF f \in F THEN new[f] ELSE Owner[f]]
  BY <1>3, OwnerIsFunction
<1> QED
  BY <1>1, <1>2, <1>4 DEF Ownership!Acquire

LEMMA GainsRefines ==
  ASSUME OwnerExact, OwnerExact', NEW o \in Objs, NEW f \in Fds, Gains(o, f), NoLeak
  PROVE  Ownership!Acquire
<1> DEFINE F == {f}
           new == [g \in F |-> o]
<1>1. F \in SUBSET Fds /\ new \in [F -> Objs]
  OBVIOUS
<1>2. \A p \in Objs : ~Owns(p, f)
  BY DEF OwnerExact, Gains
<1>3. /\ \A g \in F : ~IsOpen(g)
      /\ \A g, h \in F : new[g] = new[h] => g = h
      /\ \A g \in F, h \in Fds : ~Owns(new[g], h)
      /\ \A g \in F : Owns(new[g], g)'
      /\ \A g \in Fds \ F : /\ IsOpen(g)' <=> IsOpen(g)
                            /\ \A p \in Objs : Owns(p, g)' <=> Owns(p, g)
      /\ client' = client
  BY <1>2 DEF Gains
<1> HIDE DEF F, new
<1> QED
  BY <1>1, <1>3, AcquireStep

LEMMA PairRefines ==
  ASSUME TypeOK, OwnerExact, OwnerExact', NEW o1 \in Objs, NEW o2 \in Objs,
         NEW f1 \in Fds, NEW f2 \in Fds, CreateUnixPair(o1, o2, f1, f2)
  PROVE  Ownership!Acquire
<1> DEFINE F == {f1, f2}
           new == [g \in F |-> IF g = f1 THEN o1 ELSE o2]
<1>1. F \in SUBSET Fds /\ new \in [F -> Objs]
  OBVIOUS
<1>2. /\ \A g \in F : ~IsOpen(g)
      /\ \A g, h \in F : new[g] = new[h] => g = h
      /\ \A g \in F, h \in Fds : ~Owns(new[g], h)
      /\ \A g \in F : Owns(new[g], g)'
      /\ \A g \in Fds \ F : /\ IsOpen(g)' <=> IsOpen(g)
                            /\ \A p \in Objs : Owns(p, g)' <=> Owns(p, g)
      /\ client' = client
  BY PairGains
<1> HIDE DEF F, new
<1> QED
  BY <1>1, <1>2, AcquireStep

LEMMA SwapsRefines ==
  ASSUME OwnerExact, OwnerExact', NEW o \in Objs, NEW s \in Objs, Swaps(o, s)
  PROVE  Ownership!Exchange
<1>1. \A f \in Fds : Owner'[f] = IF Owner[f] = o THEN s
                                 ELSE IF Owner[f] = s THEN o ELSE Owner[f]
  <2> SUFFICES ASSUME NEW f \in Fds
               PROVE  Owner'[f] = IF Owner[f] = o THEN s
                                  ELSE IF Owner[f] = s THEN o ELSE Owner[f]
    OBVIOUS
  <2>1. CASE Owner[f] \notin Objs
    BY <2>1 DEF OwnerExact, Swaps
  <2>2. CASE Owner[f] \in Objs
    <3>1. PICK p \in Objs : p = Owner[f]
      BY <2>2
    <3>2. PICK q \in Objs : q = IF p = o THEN s ELSE IF p = s THEN o ELSE p
      OBVIOUS
    <3>3. Owns(p, f)
      BY <3>1 DEF OwnerExact
    <3>4. p = IF q = o THEN s ELSE IF q = s THEN o ELSE q
      BY <3>2
    <3>5. Owns(q, f)'
      BY <3>3, <3>4 DEF Swaps
    <3>6. Owner'[f] = q
      BY <3>5 DEF OwnerExact
    <3> QED
      BY <3>1, <3>2, <3>6
  <2> QED
    BY <2>1, <2>2
<1>2. Owner' = [f \in Fds |-> IF Owner[f] = o THEN s
                              ELSE IF Owner[f] = s THEN o ELSE Owner[f]]
  BY <1>1, OwnerIsFunction
<1> QED
  BY <1>2 DEF Ownership!Exchange

LEMMA TakeFDRefines ==
  ASSUME OwnershipInv, OwnerExact, OwnerExact', ~misused', NEW o \in Objs, TakeFD(o)
  PROVE  Ownership!HandOver
<1> DEFINE f == obj[o].fd
<1>1. f \in Fds /\ Owner[f] \in Objs
  BY TakeFDEffect DEF OwnershipInv, LeakInv, OwnerExact
<1>2. \A g \in Fds : Owner'[g] = IF g = f THEN "client" ELSE Owner[g]
  BY TakeFDEffect, NamesAssumption DEF OwnershipInv, LeakInv, SoleOwner, OwnerExact
<1>3. Owner' = [Owner EXCEPT ![f] = "client"]
  BY <1>2, OwnerIsFunction
<1> QED
  BY <1>1, <1>3 DEF Ownership!HandOver

(* Descriptor f is closed by whoever owned it. *)
LEMMA CloseStep ==
  ASSUME OwnerExact, OwnerExact', NEW f \in Fds, IsOpen(f),
         \A g \in Fds : IsOpen(g)' <=> IsOpen(g) /\ g # f,
         \A g \in Fds \ {f} : /\ g \in client' <=> g \in client
                              /\ \A o \in Objs : Owns(o, g)' <=> Owns(o, g)
  PROVE  Ownership!Close
<1>1. Owner[f] # "free"
  BY DEF OwnerExact
<1>2. \A g \in Fds : Owner'[g] = IF g = f THEN "free" ELSE Owner[g]
  BY NamesAssumption DEF OwnerExact
<1>3. Owner' = [Owner EXCEPT ![f] = "free"]
  BY <1>2, OwnerIsFunction
<1> QED
  BY <1>1, <1>3 DEF Ownership!Close

LEMMA DestructorCloseRefines ==
  ASSUME OwnershipInv, OwnerExact, OwnerExact', ~misused, NEW o \in Objs, Close(o)
  PROVE  Ownership!Close
<1> DEFINE f == obj[o].fd
<1>1. f \in Fds /\ Owns(o, f) /\ IsOpen(f)
  BY CloseEffect DEF OwnershipInv, LeakInv, SoleOwner
<1>2. \A g \in Fds \ {f} : \A p \in Objs : Owns(p, g)' <=> Owns(p, g)
  BY CloseEffect DEF OwnershipInv, LeakInv, Owns
<1>3. client' = client /\ \A g \in Fds : IsOpen(g)' <=> IsOpen(g) /\ g # f
  BY CloseEffect DEF OwnershipInv, LeakInv
<1> HIDE DEF f
<1> QED
  BY <1>1, <1>2, <1>3, CloseStep

LEMMA ClientCloseRefines ==
  ASSUME OwnershipInv, OwnerExact, OwnerExact', ~misused, NEW f \in Fds, ClientClose(f)
  PROVE  Ownership!Close
BY ClientCloseEffect, CloseStep DEF OwnershipInv, LeakInv, ClientOpen

LEMMA EndProcessRefines ==
  ASSUME OwnerExact', EndProcess
  PROVE  Ownership!ProcessEnd
<1>1. \A f \in Fds : Owner'[f] = "free"
  BY EndProcessEffect DEF OwnerExact
<1>2. misused' = FALSE
  BY DEF EndProcess
<1> QED
  BY <1>1, <1>2, OwnerIsFunction DEF Ownership!ProcessEnd, Ownership!Free

(* After a misuse the mapping still names an owner for each descriptor.    *)
OwnerTyped == Owner \in [Fds -> Ownership!Owners]

LEMMA OwnerType == NoLeak => OwnerTyped
<1> SUFFICES ASSUME NoLeak, NEW f \in Fds PROVE Owner[f] \in Ownership!Owners
  BY DEF Owner, OwnerTyped
<1> DEFINE chosen == CHOOSE o \in Objs : Owns(o, f)
<1>1. Owner[f] = IF ~IsOpen(f) THEN "free" ELSE IF f \in client THEN "client" ELSE chosen
  BY DEF Owner
<1>2. IsOpen(f) /\ f \notin client => chosen \in Objs
  BY DEF NoLeak
<1> HIDE DEF chosen
<1> QED
  BY <1>1, <1>2 DEF Ownership!Owners

LEMMA OwnerTypeNext == NoLeak' => OwnerTyped'
BY OwnerType, PTL

LEMMA MisusedRefines ==
  ASSUME OwnershipInv', misused'
  PROVE  Ownership!Misuse
<1>1. TypeOK' /\ NoLeak'
  BY DEF OwnershipInv, LeakInv
<1>2. misused' = TRUE
  BY <1>1 DEF TypeOK
<1> QED
  BY <1>1, <1>2, OwnerTypeNext DEF Ownership!Misuse, OwnerTyped

LEMMA PromisedStep ==
  ASSUME OwnershipInv, OwnershipInv', [Next]_vars, ~misused, ~misused'
  PROVE  [Ownership!Next]_(Ownership!vars)
<1>1. /\ TypeOK /\ Ready /\ SoleOwner /\ NoLeak
      /\ OwnerExact /\ OwnerExact'
      /\ misused' = misused
  BY MappingExact, MappingExactNext DEF OwnershipInv, LeakInv, TypeOK
<1>2. ASSUME OwnsAsBefore PROVE UNCHANGED Ownership!vars
  BY <1>1, <1>2, SameOwner DEF Ownership!vars
<1>3. ASSUME NEW o \in Objs, NEW f \in Fds, Gains(o, f) PROVE Ownership!Next
  BY <1>1, <1>3, GainsRefines DEF Ownership!Next
<1>4. ASSUME NEW o1 \in Objs, NEW o2 \in Objs, NEW f1 \in Fds, NEW f2 \in Fds,
             CreateUnixPair(o1, o2, f1, f2)
      PROVE  Ownership!Next
  BY <1>1, <1>4, PairRefines DEF Ownership!Next
<1>5. ASSUME NEW o \in Objs, NEW s \in Objs, Swaps(o, s) PROVE Ownership!Next
  BY <1>1, <1>5, SwapsRefines DEF Ownership!Next
<1>6. ASSUME NEW o \in Objs, TakeFD(o) PROVE Ownership!Next
  BY <1>1, <1>6, TakeFDRefines DEF Ownership!Next
<1>7. ASSUME NEW o \in Objs, Close(o) PROVE Ownership!Next
  BY <1>1, <1>7, DestructorCloseRefines DEF Ownership!Next
<1>8. ASSUME NEW f \in Fds, ClientClose(f) PROVE Ownership!Next
  BY <1>1, <1>8, ClientCloseRefines DEF Ownership!Next
<1>9. ASSUME EndProcess PROVE Ownership!Next
  BY <1>1, <1>9, EndProcessRefines DEF Ownership!Next
<1> QED
  BY <1>1, <1>2, <1>3, <1>4, <1>5, <1>6, <1>7, <1>8, <1>9, SameOwners,
     ConstructGains, AcceptGains, MoveConstructSwaps, MoveAssignSwaps
  DEF Next, Destructor, Terminate, LocalAddressThrows, Crash

(* A misuse is over when the process ends, and not before. *)
LEMMA MisuseLasts ==
  ASSUME TypeOK, Ready, [Next]_vars, misused
  PROVE  misused' \/ EndProcess
<1>1. ASSUME OwnsAsBefore PROVE misused'
  BY <1>1 DEF OwnsAsBefore
<1>2. ASSUME NEW o \in Objs, NEW f \in Fds, Gains(o, f) PROVE misused'
  BY <1>2 DEF Gains
<1>3. ASSUME NEW o \in Objs, NEW s \in Objs, Swaps(o, s) PROVE misused'
  BY <1>3 DEF Swaps
<1>4. ASSUME NEW o \in Objs, TakeFD(o) \/ Close(o) PROVE misused'
  BY <1>4, TakeFDEffect, CloseEffect
<1>5. ASSUME NEW f \in Fds, ClientClose(f) PROVE misused'
  BY <1>5, ClientCloseEffect
<1> QED
  BY <1>1, <1>2, <1>3, <1>4, <1>5, SameOwners, PairGains,
     ConstructGains, AcceptGains, MoveConstructSwaps, MoveAssignSwaps
  DEF Next, Destructor, Terminate, LocalAddressThrows, Crash

LEMMA OwnershipRefinesStep ==
  ASSUME OwnershipInv, OwnershipInv', [Next]_vars
  PROVE  [Ownership!Next]_(Ownership!vars)
<1>1. CASE misused'
  BY <1>1, MisusedRefines DEF Ownership!Next
<1>2. CASE ~misused' /\ EndProcess
  BY <1>2, MappingExactNext, EndProcessRefines DEF Ownership!Next
<1>3. CASE ~misused' /\ ~EndProcess
  BY <1>3, MisuseLasts, PromisedStep DEF OwnershipInv, LeakInv
<1> QED
  BY <1>1, <1>2, <1>3

(* The class keeps the promise of module DescriptorOwnership: each of its  *)
(* steps, one at a time from any number of threads, acquires, exchanges,   *)
(* hands over or closes descriptors the way that module allows, or leaves  *)
(* their owners alone.  The promise ends, with that of sole ownership,     *)
(* when a client takes the descriptor of an object that has none.          *)
THEOREM RefinesOwnership == Spec => ImplementsOwnership
<1>1. Init => Ownership!Init
  BY MappingInit
<1>2. OwnershipInv /\ OwnershipInv' /\ [Next]_vars => [Ownership!Next]_(Ownership!vars)
  BY OwnershipRefinesStep
<1> QED
  BY <1>1, <1>2, OwnershipAlways, PTL DEF Spec, ImplementsOwnership, Ownership!Spec

-----------------------------------------------------------------------------
(* Names, for clients that only use objects with a valid descriptor.  The  *)
(* inductive invariant: domains agree; a destructor that has read its      *)
(* local address still has the right one; a name that refers to a          *)
(* descriptor refers to an open unix socket bound to it; a stale name has  *)
(* a destructor that will unlink it.                                       *)

LocalRead ==
  \A o \in Objs : obj[o].phase \in {"named", "shut"} => obj[o].local = LocalAddress(o)

FileBound ==
  \A p \in Paths : file[p] \in Fds =>
    /\ IsOpen(file[p])
    /\ kern[file[p]].dom = "unix"
    /\ kern[file[p]].name = p

NamesInv ==
  /\ ~StaleUse /\ ~misused
  /\ OwnershipInv /\ DomainAgrees /\ LocalRead /\ FileBound /\ StaleHasUnlinker

LEMMA NamesInit == ~StaleUse /\ Init => NamesInv
<1> SUFFICES ASSUME ~StaleUse, Init PROVE NamesInv
  OBVIOUS
<1>1. OwnershipInv /\ ~misused
  BY OwnershipInit DEF Init
<1>2. DomainAgrees /\ LocalRead /\ FileBound /\ StaleHasUnlinker
  BY RawType, FileAssumption
  DEF Init, DomainAgrees, LocalRead, FileBound, StaleHasUnlinker, Owns, FileMarks
<1> QED
  BY <1>1, <1>2 DEF NamesInv

(* Clients that only use objects with a descriptor misuse none.            *)
LEMMA ProperUse ==
  ASSUME TypeOK, Ready, [Next]_vars, ~misused, ~StaleUse
  PROVE  ~misused'
<1>1. ASSUME OwnsAsBefore PROVE ~misused'
  BY <1>1 DEF OwnsAsBefore
<1>2. ASSUME NEW o \in Objs, NEW f \in Fds, Gains(o, f) PROVE ~misused'
  BY <1>2 DEF Gains
<1>3. ASSUME NEW o \in Objs, NEW s \in Objs, Swaps(o, s) PROVE ~misused'
  BY <1>3 DEF Swaps
<1>4. ASSUME NEW o \in Objs, TakeFD(o) PROVE ~misused'
  BY <1>4 DEF TakeFD
<1>5. ASSUME NEW o \in Objs, Close(o) PROVE ~misused'
  BY <1>5, CloseEffect
<1>6. ASSUME NEW f \in Fds, ClientClose(f) PROVE ~misused'
  BY <1>6, ClientCloseEffect
<1>7. ASSUME EndProcess PROVE ~misused'
  BY <1>7, EndProcessEffect
<1> QED
  BY <1>1, <1>2, <1>3, <1>4, <1>5, <1>6, <1>7, SameOwners, PairGains,
     ConstructGains, AcceptGains, MoveConstructSwaps, MoveAssignSwaps
  DEF Next, Destructor, Terminate, LocalAddressThrows, Crash

LEMMA NamesStep == NamesInv /\ [Next]_vars => NamesInv'
<1> SUFFICES ASSUME NamesInv, [Next]_vars PROVE NamesInv'
  OBVIOUS
<1>1. OwnershipInv'
  BY OwnershipStep DEF NamesInv
<1>23. ~misused'
  <2>1. TypeOK /\ Ready /\ ~misused /\ ~StaleUse
    BY DEF NamesInv, OwnershipInv, LeakInv
  <2> QED
    BY <2>1, ProperUse
<1>2. /\ ~StaleUse /\ ~misused /\ TypeOK /\ TypeOK' /\ Ready /\ SoleOwner /\ ClientOpen
      /\ DomainAgrees /\ LocalRead /\ FileBound /\ StaleHasUnlinker
  BY <1>1 DEF NamesInv, OwnershipInv, LeakInv
<1> DEFINE Names == DomainAgrees /\ LocalRead /\ FileBound /\ StaleHasUnlinker
<1> USE <1>2, FileAssumption
    DEF TypeOK, Ready, SoleOwner, ClientOpen, DomainAgrees, LocalRead, FileBound,
        StaleHasUnlinker, Owns, IsOpen, LocalAddress, Converts
<1>3. ASSUME UNCHANGED vars
      PROVE  Names'
  <2>1. obj' = obj /\ kern' = kern /\ file' = file
    BY <1>3 DEF vars
  <2>2. DomainAgrees'
    BY <2>1
  <2>3. LocalRead'
    BY <2>1
  <2>4. FileBound'
    BY <2>1
  <2>5. StaleHasUnlinker'
    BY <2>1
  <2> QED
    BY <2>2, <2>3, <2>4, <2>5
<1>4. ASSUME NEW o \in Objs, NEW f \in Fds, NEW d \in Domains, Construct(o, f, d)
      PROVE  Names'
  <2>1. /\ obj'[o].phase = "live" /\ obj'[o].fd = f /\ obj'[o].dom = d
        /\ \A p \in Objs \ {o} : obj'[p] = obj[p]
        /\ kern'[f].dom = d
        /\ ~IsOpen(f)
        /\ \A g \in Fds \ {f} : kern'[g] = kern[g]
        /\ file' = file /\ obj[o].phase = "raw"
    BY <1>4 DEF Construct, Alive
  <2>2. DomainAgrees'
    BY <2>1
  <2>3. LocalRead'
    BY <2>1
  <2>4. FileBound'
    BY <2>1
  <2>5. StaleHasUnlinker'
    BY <2>1
  <2> QED
    BY <2>2, <2>3, <2>4, <2>5
<1>5. ASSUME NEW o1 \in Objs, NEW o2 \in Objs, NEW f1 \in Fds, NEW f2 \in Fds,
             CreateUnixPair(o1, o2, f1, f2)
      PROVE  Names'
  <2>1. /\ obj'[o1] = Alive(f1, "unix") /\ obj'[o2] = Alive(f2, "unix")
        /\ \A p \in Objs \ {o1, o2} : obj'[p] = obj[p]
        /\ ~IsOpen(f1) /\ ~IsOpen(f2) /\ f1 # f2
        /\ kern'[f1].dom = "unix" /\ kern'[f2].dom = "unix"
        /\ \A g \in Fds \ {f1, f2} : kern'[g] = kern[g]
        /\ file' = file /\ obj[o1].phase = "raw" /\ obj[o2].phase = "raw"
    BY <1>5 DEF CreateUnixPair
  <2>2. \A g \in Fds : /\ Alive(g, "unix").phase = "live" /\ Alive(g, "unix").fd = g
                       /\ Alive(g, "unix").dom = "unix"
    BY DEF Alive
  <2>3. DomainAgrees'
    BY <2>1, <2>2
  <2>4. LocalRead'
    BY <2>1, <2>2
  <2>5. FileBound'
    BY <2>1, <2>2
  <2>6. StaleHasUnlinker'
    BY <2>1, <2>2
  <2> QED
    BY <2>3, <2>4, <2>5, <2>6
<1>6. ASSUME NEW o \in Objs, TakeFD(o)
      PROVE  Names'
  <2>1. /\ obj'[o].phase = "live" /\ ~obj'[o].valid
        /\ \A p \in Objs \ {o} : obj'[p] = obj[p]
        /\ file' = file /\ kern' = kern /\ obj[o].phase = "live"
    BY <1>6 DEF TakeFD, IsLive, Objects
  <2>2. DomainAgrees'
    BY <2>1
  <2>3. LocalRead'
    BY <2>1
  <2>4. FileBound'
    BY <2>1
  <2>5. StaleHasUnlinker'
    BY <2>1
  <2> QED
    BY <2>2, <2>3, <2>4, <2>5
<1>7. ASSUME NEW o \in Objs, NEW p \in Paths, Bind(o, p)
      PROVE  Names'
  <2> DEFINE f == obj[o].fd
  <2>1. /\ obj' = obj /\ f \in Fds /\ Owns(o, f) /\ obj[o].phase = "live"
        /\ kern[f].dom = "unix" /\ kern[f].name = NoPath /\ file[p] = "none"
    BY <1>7 DEF Bind, Call, IsLive
  <2>2. /\ kern'[f].name = p /\ kern'[f].dom = "unix"
        /\ kern'[f].state = kern[f].state
        /\ \A g \in Fds \ {f} : kern'[g] = kern[g]
        /\ file'[p] = f /\ \A q \in Paths \ {p} : file'[q] = file[q]
    BY <1>7, <2>1 DEF Bind, KernSockets
  <2>3. \A q \in Paths : file[q] # f
    BY <2>1, NamesAssumption
  <2>4. \A a \in Objs : obj[a].phase \in {"named", "shut"} => obj[a].fd # f
    BY <2>1
  <2> HIDE DEF f
  <2>5. DomainAgrees'
    BY <2>1, <2>2
  <2>6. LocalRead'
    BY <2>1, <2>2, <2>4
  <2>7. FileBound'
    BY <2>1, <2>2, <2>3
  <2>8. StaleHasUnlinker'
    BY <2>1, <2>2 DEF FileMarks
  <2> QED
    BY <2>5, <2>6, <2>7, <2>8
<1>8. ASSUME NEW o \in Objs, Listen(o)
      PROVE  Names'
  BY <1>8 DEF Listen, Call, KernSockets
<1>9. ASSUME NEW o \in Objs, Connect(o)
      PROVE  Names'
  BY <1>9 DEF Connect, Call, KernSockets
<1>10. ASSUME NEW o \in Objs, NEW l \in Objs, NEW f \in Fds, Accept(o, l, f)
       PROVE  Names'
  BY <1>10 DEF Accept, Call, IsLive, Alive, KernSockets
<1>11. ASSUME NEW o \in Objs, DestroyInvalid(o)
       PROVE  Names'
  BY <1>11, RawType DEF DestroyInvalid, IsLive
<1>12. ASSUME NEW o \in Objs, ReadLocal(o)
       PROVE  Names'
  <2>1. /\ obj'[o].phase = "named" /\ obj'[o].local = LocalAddress(o)
        /\ obj'[o].fd = obj[o].fd /\ obj'[o].dom = obj[o].dom
        /\ obj'[o].valid /\ obj[o].valid
        /\ \A p \in Objs \ {o} : obj'[p] = obj[p]
        /\ file' = file /\ kern' = kern /\ obj[o].phase = "live"
    BY <1>12 DEF ReadLocal, IsLive, Objects
  <2>2. DomainAgrees'
    BY <2>1
  <2>3. LocalRead'
    BY <2>1
  <2>4. FileBound'
    BY <2>1
  <2>5. StaleHasUnlinker'
    BY <2>1
  <2> QED
    BY <2>2, <2>3, <2>4, <2>5
<1>13. ASSUME NEW o \in Objs, Shutdown(o)
       PROVE  Names'
  <2>1. /\ obj'[o].phase = "shut" /\ obj[o].phase = "named" /\ obj[o].fd \in Fds
        /\ obj'[o] = [obj[o] EXCEPT !.phase = "shut"]
        /\ \A p \in Objs \ {o} : obj'[p] = obj[p]
        /\ file' = file
    BY <1>13 DEF Shutdown
  <2>2. \A f \in Fds : /\ kern'[f].dom = kern[f].dom /\ kern'[f].name = kern[f].name
                       /\ IsOpen(f)' <=> IsOpen(f)
    BY <1>13, <2>1 DEF Shutdown, KernSockets
  <2>3. /\ obj'[o].valid = obj[o].valid /\ obj'[o].fd = obj[o].fd
        /\ obj'[o].dom = obj[o].dom /\ obj'[o].local = obj[o].local
    BY <2>1 DEF Objects
  <2>8. \A p \in Objs, f \in Fds : Owns(p, f)' => Owns(p, f)
    <3> SUFFICES ASSUME NEW p \in Objs, NEW f \in Fds, Owns(p, f)' PROVE Owns(p, f)
      OBVIOUS
    <3>1. CASE p = o
      BY <2>1, <2>3, <3>1
    <3>2. CASE p # o
      BY <2>1, <3>2
    <3> QED
      BY <3>1, <3>2
  <2>9. \A p \in Objs : /\ obj'[p].dom = obj[p].dom /\ obj'[p].local = obj[p].local
                        /\ obj'[p].fd = obj[p].fd
                        /\ obj'[p].phase = "closed" => obj[p].phase = "closed"
                        /\ obj'[p].phase \in {"named", "shut"}
                             => obj[p].phase \in {"named", "shut"}
    <3> SUFFICES ASSUME NEW p \in Objs
                 PROVE  /\ obj'[p].dom = obj[p].dom /\ obj'[p].local = obj[p].local
                        /\ obj'[p].fd = obj[p].fd
                        /\ obj'[p].phase = "closed" => obj[p].phase = "closed"
                        /\ obj'[p].phase \in {"named", "shut"}
                             => obj[p].phase \in {"named", "shut"}
      OBVIOUS
    <3>1. CASE p = o
      BY <2>1, <2>3, <3>1
    <3>2. CASE p # o
      BY <2>1, <3>2
    <3> QED
      BY <3>1, <3>2
  <2>4. DomainAgrees'
    <3>1. ASSUME NEW p \in Objs, NEW f \in Fds, Owns(p, f)'
          PROVE  obj'[p].dom = kern'[f].dom
      <4>1. obj[p].dom = kern[f].dom
        BY <2>8, <3>1
      <4> QED
        BY <2>2, <2>9, <4>1
    <3>2. ASSUME NEW p \in Objs, obj'[p].phase = "closed"
          PROVE  Converts(p)'
      BY <2>9, <3>2
    <3> HIDE DEF Owns, Converts
    <3> QED
      BY <3>1, <3>2
  <2>5. LocalRead'
    <3> SUFFICES ASSUME NEW p \in Objs, obj'[p].phase \in {"named", "shut"}
                 PROVE  obj'[p].local = LocalAddress(p)'
      OBVIOUS
    <3>1. obj[p].local = LocalAddress(p) /\ obj[p].fd \in Fds
      BY <2>9
    <3> QED
      BY <2>2, <2>9, <3>1
  <2>6. FileBound'
    BY <2>1, <2>2, <2>3
  <2>7. StaleHasUnlinker'
    BY <2>1, <2>2, <2>3
  <2> QED
    BY <2>4, <2>5, <2>6, <2>7
<1>14. ASSUME NEW o \in Objs, Close(o)
       PROVE  Names'
  <2> DEFINE f == obj[o].fd
  <2>1. /\ f \in Fds /\ Owns(o, f) /\ obj[o].phase = "shut" /\ IsOpen(f)
        /\ obj[o].dom = kern[f].dom
        /\ obj[o].local.dom = kern[f].dom /\ obj[o].local.name = kern[f].name
    <3>1. obj[o].phase = "shut"
      BY <1>14 DEF Close
    <3>2. f \in Fds /\ Owns(o, f)
      BY <3>1
    <3>3. IsOpen(f) /\ obj[o].dom = kern[f].dom
      BY <3>2
    <3>4. obj[o].local = [dom |-> kern[f].dom, name |-> kern[f].name]
      BY <3>1
    <3> QED
      BY <3>1, <3>2, <3>3, <3>4
  <2>2. /\ obj'[o].phase = "closed" /\ obj'[o].dom = obj[o].dom
        /\ obj'[o].local = obj[o].local
        /\ \A p \in Objs \ {o} : obj'[p] = obj[p]
        /\ \A g \in Fds \ {f} : kern'[g] = kern[g]
        /\ \A q \in Paths : file'[q] = IF file[q] = f THEN "stale" ELSE file[q]
    BY <1>14, <2>1 DEF Close, Leave, Objects
  <2>3. \A p \in Objs \ {o} : ~Owns(p, f)
    BY <2>1
  <2> HIDE DEF f
  <2>4. DomainAgrees'
    BY <2>1, <2>2, <2>3
  <2>5. LocalRead'
    BY <2>1, <2>2, <2>3
  <2>6. FileBound'
    BY <2>1, <2>2 DEF FileMarks
  <2>7. StaleHasUnlinker'
    BY <2>1, <2>2 DEF FileMarks
  <2> QED
    BY <2>4, <2>5, <2>6, <2>7
<1>15. ASSUME NEW o \in Objs, Unlink(o)
       PROVE  Names'
  <2>1. /\ obj'[o].phase = "raw" /\ obj[o].phase = "closed"
        /\ \A p \in Objs \ {o} : obj'[p] = obj[p]
        /\ kern' = kern
    BY <1>15, RawType DEF Unlink
  <2>2. \A q \in Paths :
          file'[q] = IF obj[o].dom = "unix" /\ obj[o].local.name = q THEN "none" ELSE file[q]
    BY <1>15, NamesAssumption DEF Unlink, BoundToName, Objects, Addresses
  <2>3. DomainAgrees'
    BY <2>1
  <2>4. LocalRead'
    BY <2>1
  <2>5. FileBound'
    BY <2>1, <2>2 DEF FileMarks
  <2>6. StaleHasUnlinker'
    BY <2>1, <2>2 DEF FileMarks
  <2> QED
    BY <2>3, <2>4, <2>5, <2>6
<1>22. ASSUME NEW o \in Objs, UnlinkFails(o)
       PROVE  Names'
  <2>1. /\ obj'[o].phase = "raw" /\ obj[o].phase = "closed"
        /\ \A p \in Objs \ {o} : obj'[p] = obj[p]
        /\ kern' = kern
    BY <1>22, RawType DEF UnlinkFails
  <2>2. obj[o].dom = "unix" /\ obj[o].local.name \in Paths
    BY <1>22, NamesAssumption DEF UnlinkFails, BoundToName, Objects, Addresses
  <2>3. \A q \in Paths : file'[q] = IF obj[o].local.name = q /\ file[q] = "stale"
                                   THEN "refused" ELSE file[q]
    BY <1>22, <2>2 DEF UnlinkFails
  <2>4. DomainAgrees'
    BY <2>1
  <2>5. LocalRead'
    BY <2>1
  <2>6. FileBound'
    BY <2>1, <2>3 DEF FileMarks
  <2>7. StaleHasUnlinker'
    BY <2>1, <2>3 DEF FileMarks
  <2> QED
    BY <2>4, <2>5, <2>6, <2>7
<1>16. ASSUME EndProcess
       PROVE  Names'
  BY <1>16, RawType DEF EndProcess, FileMarks
<1>17. ASSUME NEW f \in Fds, ClientClose(f)
       PROVE  Names'
  BY <1>17 DEF ClientClose, Leave, Objects, KernSockets, FileMarks
<1>18. ASSUME NEW p \in Paths, ForeignBind(p) \/ ForeignUnlink(p)
       PROVE  Names'
  BY <1>18 DEF ForeignBind, ForeignUnlink, FileMarks
<1>19. ASSUME NEW o \in Objs, NEW s \in Objs, MoveConstruct(o, s)
       PROVE  Names'
  <2>1. PICK fd \in Fds \cup {NoFd}, dom \in Domains :
          obj' = [obj EXCEPT
            ![o] = TakeMembers([Raw EXCEPT !.phase = "live", !.fd = fd, !.dom = dom], obj[s]),
            ![s] = TakeMembers(obj[s], [Raw EXCEPT !.phase = "live", !.fd = fd, !.dom = dom])]
    BY <1>19 DEF MoveConstruct
  <2> DEFINE fresh == [Raw EXCEPT !.phase = "live", !.fd = fd, !.dom = dom]
  <2>2. fresh \in Objects /\ ~fresh.valid /\ fresh.phase = "live"
    BY DEF Raw, Objects, Phases, Addresses, NoAddress, Domains
  <2>3. obj' = [obj EXCEPT ![o] = TakeMembers(fresh, obj[s]),
                           ![s] = TakeMembers(obj[s], fresh)]
    BY <2>1
  <2> HIDE DEF fresh
  <2>4. obj[o].phase = "raw" /\ obj[s].phase = "live" /\ o # s
    BY <1>19 DEF MoveConstruct, IsLive
  <2>5. /\ obj'[o] = TakeMembers(fresh, obj[s])
        /\ obj'[s] = TakeMembers(obj[s], fresh)
        /\ \A p \in Objs \ {o, s} : obj'[p] = obj[p]
    BY <2>3, <2>4
  <2>6. /\ obj'[o].valid = obj[s].valid /\ obj'[o].fd = obj[s].fd /\ obj'[o].dom = obj[s].dom
        /\ obj'[o].phase = "live" /\ obj'[s].phase = "live" /\ ~obj'[s].valid
    BY <2>2, <2>4, <2>5, TakeMembersType
  <2>7. kern' = kern /\ file' = file
    BY <1>19 DEF MoveConstruct
  <2>8. DomainAgrees'
    BY <2>4, <2>5, <2>6, <2>7
  <2>9. LocalRead'
    BY <2>4, <2>5, <2>6, <2>7
  <2>10. FileBound'
    BY <2>4, <2>5, <2>6, <2>7
  <2>11. StaleHasUnlinker'
    BY <2>4, <2>5, <2>6, <2>7
  <2> QED
    BY <2>8, <2>9, <2>10, <2>11
<1>20. ASSUME NEW o \in Objs, NEW s \in Objs, MoveAssign(o, s)
       PROVE  Names'
  <2>1. /\ obj'[s] = TakeMembers(obj[s], obj[o])
        /\ o # s => obj'[o] = TakeMembers(obj[o], obj[s])
        /\ \A p \in Objs \ {o, s} : obj'[p] = obj[p]
    BY <1>20 DEF MoveAssign
  <2>2. /\ obj'[o].valid = obj[s].valid /\ obj'[o].fd = obj[s].fd /\ obj'[o].dom = obj[s].dom
        /\ obj'[s].valid = obj[o].valid /\ obj'[s].fd = obj[o].fd /\ obj'[s].dom = obj[o].dom
        /\ obj'[o].phase = "live" /\ obj'[s].phase = "live"
        /\ obj[o].phase = "live" /\ obj[s].phase = "live"
    BY <1>20, <2>1, TakeMembersType DEF MoveAssign, IsLive
  <2>3. kern' = kern /\ file' = file
    BY <1>20 DEF MoveAssign
  <2>4. DomainAgrees'
    BY <2>1, <2>2, <2>3
  <2>5. LocalRead'
    BY <2>1, <2>2, <2>3
  <2>6. FileBound'
    BY <2>1, <2>2, <2>3
  <2>7. StaleHasUnlinker'
    BY <2>1, <2>2, <2>3
  <2> QED
    BY <2>4, <2>5, <2>6, <2>7
<1> HIDE <1>2, FileAssumption
    DEF TypeOK, Ready, SoleOwner, ClientOpen, DomainAgrees, LocalRead, FileBound,
        StaleHasUnlinker, Owns, IsOpen, LocalAddress, Converts, Names
<1>21. Names'
  BY <1>3, <1>4, <1>5, <1>6, <1>7, <1>8, <1>9, <1>10, <1>11, <1>12, <1>13, <1>14, <1>15,
     <1>16, <1>17, <1>18, <1>19, <1>20, <1>22
  DEF Next, Destructor, Terminate, LocalAddressThrows, Crash
<1> QED
  BY <1>1, <1>2, <1>21, <1>23 DEF NamesInv, Names

LEMMA NamesAlways == ~StaleUse /\ Spec => []NamesInv
BY NamesInit, NamesStep, PTL DEF Spec

(* An object's domain is its descriptor's, so the destructor's conversion  *)
(* of the local address never throws.                                      *)
THEOREM DomainsAgree == ~StaleUse /\ Spec => []DomainAgrees
BY NamesAlways, PTL DEF NamesInv

(* Every file a closed socket leaves behind has a destructor on its way to *)
(* unlink it.                                                              *)
THEOREM StaleNamesAreUnlinked == ~StaleUse /\ Spec => []StaleHasUnlinker
BY NamesAlways, PTL DEF NamesInv
=============================================================================
