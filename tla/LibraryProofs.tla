---------------------------- MODULE LibraryProofs ----------------------------
(***************************************************************************)
(* Proofs about module Library, for any number of threads and users.  What *)
(* concerns the count is about Serial clients: with overlapping            *)
(* constructors and destructors it does not hold.                          *)
(***************************************************************************)
EXTENDS Library, FiniteSetTheorems, TLAPS

-----------------------------------------------------------------------------
(* The users that are counted, and their number.                           *)

Active == {u \in Users : IsUser(u)}

Count == Cardinality(Active) + lost

LEMMA CountType ==
  ASSUME TypeOK
  PROVE  /\ IsFiniteSet(Active) /\ Cardinality(Active) \in Nat
         /\ Count \in Nat /\ Count < Modulus
         /\ Active # {} => Count > 0
<1>1. IsFiniteSet(Active) /\ Cardinality(Active) <= Cardinality(Users)
  BY CountAssumption, FS_Subset DEF Active
<1>2. Cardinality(Active) \in Nat /\ Cardinality(Users) \in Nat
  BY <1>1, CountAssumption, FS_CardinalityType
<1>3. Active # {} => Cardinality(Active) # 0
  BY <1>1, FS_EmptySet
<1> QED
  BY <1>1, <1>2, <1>3, CountAssumption, LibraryAssumption DEF Count, TypeOK

(* A user that is not counted yet leaves room in the count. *)
LEMMA CountHasRoom ==
  ASSUME TypeOK, NEW u \in Users, u \notin Active
  PROVE  Count + 1 < Modulus
<1>1. IsFiniteSet(Active \cup {u}) /\ Cardinality(Active \cup {u}) = Cardinality(Active) + 1
  BY CountType, FS_AddElement
<1>2. Cardinality(Active \cup {u}) <= Cardinality(Users)
  BY CountAssumption, FS_Subset DEF Active
<1>3. Cardinality(Users) \in Nat
  BY CountAssumption, FS_CardinalityType
<1> QED
  BY <1>1, <1>2, <1>3, CountType, CountAssumption, LibraryAssumption DEF Count, TypeOK

(* What a change of one user does to the count. *)
LEMMA OneUserChanges ==
  ASSUME TypeOK, NEW u \in Users, NEW s \in {"none", "starting", "alive", "ending"},
         user' = [user EXCEPT ![u] = s], UNCHANGED autoInitialize
  PROVE  Cardinality(Active') =
           Cardinality(Active) - (IF u \in Active THEN 1 ELSE 0)
                               + (IF s = "alive" /\ Counted(u) THEN 1 ELSE 0)
<1> DEFINE rest == Active \ {u}
<1>1. /\ IsFiniteSet(rest)
      /\ Cardinality(rest) = Cardinality(Active) - (IF u \in Active THEN 1 ELSE 0)
  BY CountType, FS_RemoveElement
<1>2. Active' = IF s = "alive" /\ Counted(u) THEN rest \cup {u} ELSE rest
  BY DEF Active, IsUser, Counted, TypeOK
<1>3. Cardinality(rest \cup {u}) = Cardinality(rest) + 1
  BY <1>1, FS_AddElement
<1> QED
  BY <1>1, <1>2, <1>3, CountType

LEMMA SameUsers ==
  ASSUME UNCHANGED <<user, autoInitialize>>
  PROVE  Active' = Active
BY DEF Active, IsUser, Counted

-----------------------------------------------------------------------------
(* Types, for clients of any kind.                                         *)

LEMMA ThreadTypes ==
  ASSUME TypeOK, NEW t \in Threads, NEW pc \in PCs \ {"idle"}, In(t, pc)
  PROVE  /\ thread[t].u \in Users /\ thread[t].val \in 0..(Modulus - 1)
         /\ thread[t] # Idle
         /\ \A next \in PCs \ {"idle"} : Go(t, next) =>
              /\ thread' = [thread EXCEPT ![t] = At(next, thread[t].u, thread[t].val)]
              /\ At(next, thread[t].u, thread[t].val)
                   \in [pc : PCs \ {"idle"}, u : Users, val : 0..(Modulus - 1)]
BY DEF TypeOK, In, Idle, Go, At

LEMMA AtType ==
  ASSUME NEW pc \in PCs \ {"idle"}, NEW u \in Users, NEW v \in 0..(Modulus - 1)
  PROVE  /\ At(pc, u, v) \in [pc : PCs \ {"idle"}, u : Users, val : 0..(Modulus - 1)]
         /\ At(pc, u, v) # Idle
         /\ At(pc, u, v).pc = pc /\ At(pc, u, v).u = u /\ At(pc, u, v).val = v
BY DEF At, Idle

LEMMA TypeInit == Init => TypeOK
<1> SUFFICES ASSUME Init PROVE TypeOK
  OBVIOUS
<1>1. autoInitialize \in BOOLEAN /\ terminated \in BOOLEAN
  BY Zenon DEF Init
<1>2. 0 \in 0..(Modulus - 1) /\ 0 \in 0..MaxLost
  BY LibraryAssumption
<1> QED
  BY <1>1, <1>2 DEF Init, TypeOK

LEMMA TypeStep ==
  ASSUME TypeOK, [Next]_vars
  PROVE  TypeOK'
<1> USE LibraryAssumption DEF PCs
<1>1. CASE UNCHANGED vars
  BY <1>1 DEF vars, TypeOK
<1>2. ASSUME NEW t \in Threads, NEW u \in Users, Enter(t, u)
      PROVE  TypeOK'
  BY <1>2, AtType DEF Enter, TypeOK
<1>3. ASSUME NEW t \in Threads, NEW u \in Users, Leave(t, u)
      PROVE  TypeOK'
  <2>1. At("readDown", u, 0) \in [pc : PCs \ {"idle"}, u : Users, val : 0..(Modulus - 1)]
    BY AtType
  <2>2. user' \in [Users -> {"none", "starting", "alive", "ending"}]
    BY <1>3 DEF Leave, TypeOK
  <2>3. thread' \in [Threads -> {Idle} \cup [pc : PCs \ {"idle"}, u : Users, val : 0..(Modulus - 1)]]
    BY <1>3, <2>1 DEF Leave, TypeOK
  <2> QED
    BY <1>3, <2>2, <2>3 DEF Leave, TypeOK
<1>4. ASSUME NEW t \in Threads, Check(t)
      PROVE  TypeOK'
  BY <1>4, ThreadTypes DEF Check, TypeOK
<1>5. ASSUME NEW t \in Threads, Startup(t)
      PROVE  TypeOK'
  BY <1>5, ThreadTypes DEF Startup, Return, TypeOK
<1>6. ASSUME NEW t \in Threads, ReadUp(t) \/ ReadDown(t)
      PROVE  TypeOK'
  <2>1. PICK pc \in {"writeUp", "writeDown"} :
          thread' = [thread EXCEPT ![t] = At(pc, thread[t].u, libraryUsers)]
    BY <1>6 DEF ReadUp, ReadDown, TypeOK
  <2>2. thread[t].u \in Users
    BY <1>6, ThreadTypes DEF ReadUp, ReadDown
  <2>3. UNCHANGED <<autoInitialize, libraryUsers, winsock, user, lost, terminated>>
    BY <1>6 DEF ReadUp, ReadDown
  <2> QED
    BY <2>1, <2>2, <2>3, AtType DEF TypeOK
<1>7. ASSUME NEW t \in Threads, WriteUp(t)
      PROVE  TypeOK'
  <2>1. (thread[t].val + 1) % Modulus \in 0..(Modulus - 1)
    BY <1>7, ThreadTypes DEF WriteUp
  <2> QED
    BY <1>7, <2>1, ThreadTypes DEF WriteUp, TypeOK
<1>8. ASSUME NEW t \in Threads, WriteDown(t)
      PROVE  TypeOK'
  <2>1. (thread[t].val + Modulus - 1) % Modulus \in 0..(Modulus - 1)
    BY <1>8, ThreadTypes DEF WriteDown
  <2> QED
    BY <1>8, <2>1, ThreadTypes DEF WriteDown, TypeOK
<1>9. ASSUME NEW t \in Threads, Make(t)
      PROVE  TypeOK'
  BY <1>9, ThreadTypes DEF Make, Return, TypeOK
<1>10. ASSUME NEW t \in Threads, MakeFails(t)
       PROVE  TypeOK'
  BY <1>10, ThreadTypes DEF MakeFails, Return, TypeOK
<1>11. ASSUME NEW t \in Threads, Recheck(t)
       PROVE  TypeOK'
  BY <1>11, ThreadTypes DEF Recheck, Return, TypeOK
<1>12. ASSUME NEW t \in Threads, Cleanup(t)
       PROVE  TypeOK'
  <2>1. terminated' \in BOOLEAN
    BY <1>12, Zenon DEF Cleanup, TypeOK
  <2> QED
    BY <1>12, <2>1, ThreadTypes DEF Cleanup, Return, TypeOK
<1>13. ASSUME NEW u \in Users, TakeFD(u)
       PROVE  TypeOK'
  BY <1>13 DEF TakeFD, TypeOK
<1>14. CASE SetAuto
  BY <1>14 DEF SetAuto, TypeOK
<1> QED
  BY <1>1, <1>2, <1>3, <1>4, <1>5, <1>6, <1>7, <1>8, <1>9, <1>10, <1>11, <1>12, <1>13, <1>14
     DEF Next, Initialize, Deinitialize

(* The count never leaves its width and every thread is at a statement, in *)
(* any interleaving.                                                       *)
THEOREM LibraryTypes == Spec => []TypeOK
BY TypeInit, TypeStep, PTL DEF Spec

-----------------------------------------------------------------------------
(* The inductive invariant of serial clients.  Between two statements the  *)
(* count and Winsock are where the statement of the one thread that is     *)
(* inside a constructor or destructor says.                                *)

Runs == IF libraryUsers = 0 THEN 0 ELSE 1

(* Every user that is there is counted, and nothing else. *)
Settled == libraryUsers = Count /\ winsock = Runs

(* What holds at the statement pc, for the user u and the value val that   *)
(* the thread has read.                                                    *)
Stage(pc, u, val) ==
  /\ user[u] \in {"starting", "ending"}
  /\ pc # "make" => Counted(u)
  /\ pc = "check" => Settled
  /\ pc = "startup" => libraryUsers = 0 /\ Count = 0 /\ winsock = 0
  /\ pc = "readUp" => libraryUsers = Count /\ winsock = 1
  /\ pc = "writeUp" => libraryUsers = Count /\ winsock = 1 /\ val = Count
  /\ pc = "make" => IF Counted(u) THEN libraryUsers = Count + 1 /\ winsock = 1 ELSE Settled
  /\ pc = "readDown" => libraryUsers = Count + 1 /\ winsock = 1
  /\ pc = "writeDown" => libraryUsers = Count + 1 /\ winsock = 1 /\ val = Count + 1
  /\ pc = "recheck" => libraryUsers = Count /\ winsock = 1 /\ val = Count + 1
  /\ pc = "cleanup" => libraryUsers = 0 /\ Count = 0 /\ winsock = 1

Exclusive == \A t, s \in Threads : thread[t] # Idle /\ thread[s] # Idle => t = s

SerialInv ==
  /\ TypeOK
  /\ ~terminated
  /\ Exclusive
  /\ Quiet => Settled
  /\ \A t \in Threads :
       thread[t] # Idle => Stage(thread[t].pc, thread[t].u, thread[t].val)

(* While one thread is at a statement all the others are idle: a step that *)
(* leaves it at another statement only has to show what holds there ...    *)
LEMMA StepsInside ==
  ASSUME SerialInv, TypeOK', NEW t \in Threads, thread[t] # Idle,
         NEW pc \in PCs \ {"idle"}, NEW u \in Users, NEW v \in 0..(Modulus - 1),
         thread' = [thread EXCEPT ![t] = At(pc, u, v)],
         UNCHANGED terminated, Stage(pc, u, v)'
  PROVE  SerialInv'
<1>1. thread'[t] = At(pc, u, v) /\ \A s \in Threads \ {t} : thread'[s] = Idle
  BY DEF SerialInv, TypeOK, Exclusive
<1>2. At(pc, u, v) # Idle /\ At(pc, u, v).pc = pc /\ At(pc, u, v).u = u /\ At(pc, u, v).val = v
  BY AtType
<1>3. ~Quiet' /\ Exclusive'
  BY <1>1, <1>2 DEF Quiet, Exclusive
<1>4. \A s \in Threads :
        thread'[s] # Idle => Stage(thread[s].pc, thread[s].u, thread[s].val)'
  BY <1>1, <1>2
<1> QED
  BY <1>3, <1>4 DEF SerialInv

(* ... and one that returns, that everything is settled. *)
LEMMA StepsOut ==
  ASSUME SerialInv, TypeOK', NEW t \in Threads, thread[t] # Idle,
         thread' = [thread EXCEPT ![t] = Idle],
         ~terminated', Settled'
  PROVE  SerialInv'
<1>1. \A s \in Threads : thread'[s] = Idle
  BY DEF SerialInv, TypeOK, Exclusive
<1> QED
  BY <1>1 DEF SerialInv, Exclusive

(* A thread that begins is alone. *)
LEMMA StepsIn ==
  ASSUME SerialInv, TypeOK', Serial, NEW t \in Threads, MayEnter(t),
         NEW pc \in PCs \ {"idle"}, NEW u \in Users,
         thread' = [thread EXCEPT ![t] = At(pc, u, 0)],
         UNCHANGED terminated, Stage(pc, u, 0)'
  PROVE  SerialInv'
<1>1. thread'[t] = At(pc, u, 0) /\ \A s \in Threads \ {t} : thread'[s] = Idle
  BY DEF SerialInv, TypeOK, MayEnter, Quiet
<1>2. At(pc, u, 0) # Idle /\ At(pc, u, 0).pc = pc /\ At(pc, u, 0).u = u /\ At(pc, u, 0).val = 0
  BY AtType, LibraryAssumption
<1>3. ~Quiet' /\ Exclusive'
  BY <1>1, <1>2 DEF Quiet, Exclusive
<1>4. \A s \in Threads :
        thread'[s] # Idle => Stage(thread[s].pc, thread[s].u, thread[s].val)'
  BY <1>1, <1>2
<1> QED
  BY <1>3, <1>4 DEF SerialInv
-----------------------------------------------------------------------------
(* What the count is after a step.                                         *)

LEMMA SameCount ==
  ASSUME UNCHANGED <<user, autoInitialize, lost>>
  PROVE  Count' = Count
BY SameUsers DEF Count

LEMMA CountAfter ==
  ASSUME TypeOK, NEW u \in Users, NEW s \in {"none", "starting", "alive", "ending"},
         user' = [user EXCEPT ![u] = s], UNCHANGED autoInitialize, lost' \in Nat
  PROVE  Count' = Count + (lost' - lost) - (IF u \in Active THEN 1 ELSE 0)
                                         + (IF s = "alive" /\ Counted(u) THEN 1 ELSE 0)
<1>1. Cardinality(Active) \in Nat /\ lost \in Nat
  BY CountType, LibraryAssumption DEF TypeOK
<1> DEFINE before == IF u \in Active THEN 1 ELSE 0
           after == IF s = "alive" /\ Counted(u) THEN 1 ELSE 0
<1>2. Cardinality(Active') = Cardinality(Active) - before + after
  BY OneUserChanges
<1>3. before \in Int /\ after \in Int
  OBVIOUS
<1> HIDE DEF before, after
<1>4. Cardinality(Active') + lost' = Cardinality(Active) + lost + (lost' - lost) - before + after
  BY <1>1, <1>2, <1>3
<1>5. Count' = Count + (lost' - lost) - before + after
  BY <1>4 DEF Count
<1> QED
  BY <1>5 DEF before, after

(* Its three cases: nobody is counted any more or less, one more, one less. *)
LEMMA CountCases ==
  ASSUME TypeOK, NEW u \in Users, NEW s \in {"none", "starting", "alive", "ending"},
         user' = [user EXCEPT ![u] = s], UNCHANGED autoInitialize, lost' \in Nat
  PROVE  /\ u \notin Active /\ s # "alive" => Count' = Count + (lost' - lost)
         /\ u \notin Active /\ s = "alive" /\ Counted(u) => Count' = Count + 1 + (lost' - lost)
         /\ u \in Active /\ s # "alive" => Count' = Count - 1 + (lost' - lost)
<1>1. Count \in Int /\ lost \in Int
  BY CountType, LibraryAssumption DEF TypeOK
<1>2. Count' = Count + (lost' - lost) - (IF u \in Active THEN 1 ELSE 0)
                                      + (IF s = "alive" /\ Counted(u) THEN 1 ELSE 0)
  BY CountAfter
<1>3. CASE u \notin Active /\ s # "alive"
  BY <1>1, <1>2, <1>3
<1>4. CASE u \notin Active /\ s = "alive" /\ Counted(u)
  BY <1>1, <1>2, <1>4
<1>5. CASE u \in Active /\ s # "alive"
  BY <1>1, <1>2, <1>5
<1> QED
  BY <1>3, <1>4, <1>5

(* The thread that is at a statement, its user, and where it goes. *)
LEMMA AtStatement ==
  ASSUME SerialInv, NEW t \in Threads, NEW pc \in PCs \ {"idle"}, In(t, pc)
  PROVE  /\ thread[t] # Idle
         /\ \E u \in Users, v \in 0..(Modulus - 1) :
              /\ thread[t].u = u /\ thread[t].val = v
              /\ Stage(pc, u, v)
              /\ u \notin Active /\ user[u] \in {"starting", "ending"}
              /\ \A next \in PCs \ {"idle"} : Go(t, next) =>
                   thread' = [thread EXCEPT ![t] = At(next, u, v)]
              /\ \A s : Return(t, s) => user' = [user EXCEPT ![u] = s]
<1>1. /\ thread[t] # Idle /\ thread[t].u \in Users /\ thread[t].val \in 0..(Modulus - 1)
      /\ \A next \in PCs \ {"idle"} : Go(t, next) =>
           thread' = [thread EXCEPT ![t] = At(next, thread[t].u, thread[t].val)]
  BY ThreadTypes DEF SerialInv
<1>2. Stage(pc, thread[t].u, thread[t].val)
  BY <1>1 DEF SerialInv, In
<1>3. user[thread[t].u] \in {"starting", "ending"}
  BY <1>2 DEF Stage
<1>4. thread[t].u \notin Active
  BY <1>3 DEF Active, IsUser
<1>5. \A s : Return(t, s) => user' = [user EXCEPT ![thread[t].u] = s]
  BY DEF Return
<1> QED
  BY <1>1, <1>2, <1>3, <1>4, <1>5

-----------------------------------------------------------------------------
LEMMA SerialStep ==
  ASSUME SerialInv, Serial, [Next]_vars, TypeOK'
  PROVE  SerialInv'
<1> USE DEF PCs
<1>0. TypeOK
  BY DEF SerialInv
<1>a. Count \in Nat /\ Count < Modulus /\ Modulus \in Nat \ {0}
  BY <1>0, CountType, LibraryAssumption
<1>b. winsock \in Nat /\ libraryUsers \in 0..(Modulus - 1) /\ lost \in Nat
  BY <1>0, LibraryAssumption DEF TypeOK
<1>1. CASE UNCHANGED vars
  <2>1. Count' = Count
    BY <1>1, SameCount DEF vars
  <2> QED
    BY <1>1, <2>1 DEF vars, SerialInv, Exclusive, Quiet, Settled, Runs, Stage, Counted
<1>2. ASSUME NEW t \in Threads, NEW u \in Users, Enter(t, u)
      PROVE  SerialInv'
  <2>0. PICK pc \in {"check", "make"} : pc = IF Counted(u) THEN "check" ELSE "make"
    OBVIOUS
  <2>1. Settled /\ MayEnter(t)
    BY <1>2 DEF Enter, MayEnter, SerialInv
  <2>2. user' = [user EXCEPT ![u] = "starting"] /\ u \notin Active
    BY <1>2 DEF Enter, Active, IsUser
  <2>3. Count' = Count
    <3>1. UNCHANGED <<autoInitialize, lost>> /\ lost' \in Nat
      BY <1>2, <1>b DEF Enter
    <3>2. Count' = Count + (lost' - lost)
      BY <1>0, <2>2, <3>1, CountCases
    <3> QED
      BY <1>a, <1>b, <3>1, <3>2
  <2>4. user'[u] = "starting" /\ Settled'
    BY <1>0, <1>2, <2>1, <2>2, <2>3 DEF Enter, TypeOK, Settled, Runs
  <2>5. Stage(pc, u, 0)'
    BY <1>2, <2>0, <2>4 DEF Enter, Stage, Counted
  <2>6. pc \in PCs \ {"idle"} /\ thread' = [thread EXCEPT ![t] = At(pc, u, 0)]
    BY <1>2, <2>0 DEF Enter
  <2>7. UNCHANGED terminated
    BY <1>2 DEF Enter
  <2> QED
    BY <2>1, <2>5, <2>6, <2>7, StepsIn
<1>3. ASSUME NEW t \in Threads, NEW u \in Users, Leave(t, u)
      PROVE  SerialInv'
  <2>1. Settled /\ MayEnter(t) /\ Quiet
    BY <1>3 DEF Leave, MayEnter, SerialInv
  <2>2. CASE Counted(u)
    <3>1. u \in Active /\ user' = [user EXCEPT ![u] = "ending"]
      BY <1>3, <2>2 DEF Leave, Active, IsUser
    <3>2. Count' = Count - 1 /\ Count > 0
      <4>1. UNCHANGED <<autoInitialize, lost>> /\ lost' \in Nat
        BY <1>3, <1>b DEF Leave
      <4>2. Count' = Count - 1 + (lost' - lost)
        BY <1>0, <3>1, <4>1, CountCases
      <4> QED
        BY <1>0, <1>a, <1>b, <3>1, <4>1, <4>2, CountType
    <3>3. Stage("readDown", u, 0)'
      BY <1>0, <1>3, <1>a, <2>1, <2>2, <3>1, <3>2 DEF Leave, TypeOK, Stage, Counted, Settled, Runs
    <3> QED
      BY <1>3, <2>1, <2>2, <3>3, StepsIn DEF Leave
  <2>3. CASE ~Counted(u)
    <3>1. u \notin Active /\ user' = [user EXCEPT ![u] = "none"]
      BY <1>3, <2>3 DEF Leave, Active, IsUser
    <3>2. Count' = Count
      <4>1. UNCHANGED <<autoInitialize, lost>> /\ lost' \in Nat
        BY <1>3, <1>b DEF Leave
      <4>2. Count' = Count + (lost' - lost)
        BY <1>0, <3>1, <4>1, CountCases
      <4> QED
        BY <1>a, <1>b, <4>1, <4>2
    <3>3. Settled' /\ \A s \in Threads : thread'[s] = Idle
      BY <1>3, <2>1, <2>3, <3>2 DEF Leave, Settled, Runs, Quiet
    <3> QED
      BY <1>3, <3>3 DEF Leave, SerialInv, Exclusive
  <2> QED
    BY <2>2, <2>3
<1>4. ASSUME NEW t \in Threads, Check(t)
      PROVE  SerialInv'
  <2>1. PICK u \in Users, v \in 0..(Modulus - 1) :
          /\ thread[t] # Idle /\ Stage("check", u, v)
          /\ \A next \in PCs \ {"idle"} : Go(t, next) =>
               thread' = [thread EXCEPT ![t] = At(next, u, v)]
    BY <1>4, AtStatement DEF Check
  <2>2. PICK pc \in {"startup", "readUp"} :
          Go(t, pc) /\ pc = IF libraryUsers = 0 THEN "startup" ELSE "readUp"
    BY <1>4 DEF Check
  <2>3. Count' = Count
    BY <1>4, SameCount DEF Check
  <2>4. Stage(pc, u, v)'
    BY <1>4, <2>1, <2>2, <2>3 DEF Check, Stage, Settled, Runs, Counted
  <2> QED
    BY <1>4, <2>1, <2>2, <2>4, StepsInside DEF Check
<1>5. ASSUME NEW t \in Threads, Startup(t)
      PROVE  SerialInv'
  <2>1. PICK u \in Users, v \in 0..(Modulus - 1) :
          /\ thread[t] # Idle /\ Stage("startup", u, v) /\ u \notin Active
          /\ \A next \in PCs \ {"idle"} : Go(t, next) =>
               thread' = [thread EXCEPT ![t] = At(next, u, v)]
          /\ \A s : Return(t, s) => user' = [user EXCEPT ![u] = s]
    BY <1>5, AtStatement DEF Startup
  <2>2. CASE winsock' = winsock + 1 /\ Go(t, "readUp") /\ UNCHANGED user
    <3>1. Count' = Count
      BY <1>5, <2>2, SameCount DEF Startup
    <3>2. Stage("readUp", u, v)'
      BY <1>5, <2>1, <2>2, <3>1 DEF Startup, Stage, Counted
    <3> QED
      BY <1>5, <2>1, <2>2, <3>2, StepsInside DEF Startup
  <2>3. CASE Return(t, "none") /\ UNCHANGED winsock
    <3>1. Count' = Count
      BY <1>0, <1>5, <1>a, <1>b, <2>1, <2>3, CountAfter DEF Startup
    <3>2. Settled' /\ ~terminated'
      BY <1>5, <2>1, <2>3, <3>1 DEF Startup, Stage, Settled, Runs, SerialInv
    <3> QED
      BY <2>1, <2>3, <3>2, StepsOut DEF Return
  <2> QED
    BY <1>5, <2>2, <2>3 DEF Startup
<1>6. ASSUME NEW t \in Threads, ReadUp(t)
      PROVE  SerialInv'
  <2>1. PICK u \in Users, v \in 0..(Modulus - 1) :
          thread[t] # Idle /\ thread[t].u = u /\ Stage("readUp", u, v)
    BY <1>6, AtStatement DEF ReadUp
  <2>2. thread' = [thread EXCEPT ![t] = At("writeUp", u, libraryUsers)]
    BY <1>0, <1>6, <2>1 DEF ReadUp, TypeOK
  <2>3. Count' = Count
    BY <1>6, SameCount DEF ReadUp
  <2>4. PICK w \in 0..(Modulus - 1) : w = libraryUsers
    BY <1>b
  <2>5. Stage("writeUp", u, w)'
    BY <1>6, <2>1, <2>3, <2>4 DEF ReadUp, Stage, Counted
  <2> QED
    BY <1>6, <2>1, <2>2, <2>4, <2>5, StepsInside DEF ReadUp
<1>7. ASSUME NEW t \in Threads, WriteUp(t)
      PROVE  SerialInv'
  <2>1. PICK u \in Users, v \in 0..(Modulus - 1) :
          /\ thread[t] # Idle /\ thread[t].val = v
          /\ Stage("writeUp", u, v) /\ u \notin Active
          /\ \A next \in PCs \ {"idle"} : Go(t, next) =>
               thread' = [thread EXCEPT ![t] = At(next, u, v)]
    BY <1>7, AtStatement DEF WriteUp
  <2>2. Count' = Count
    BY <1>7, SameCount DEF WriteUp
  <2>3. v = Count /\ Count + 1 < Modulus
    BY <1>0, <2>1, CountHasRoom DEF Stage
  <2>4. libraryUsers' = Count + 1
    BY <1>7, <1>a, <2>1, <2>3 DEF WriteUp
  <2>5. Stage("make", u, v)'
    BY <1>7, <2>1, <2>2, <2>4 DEF WriteUp, Stage, Counted
  <2> QED
    BY <1>7, <2>1, <2>5, StepsInside DEF WriteUp
<1>8. ASSUME NEW t \in Threads, Make(t)
      PROVE  SerialInv'
  <2>1. PICK u \in Users, v \in 0..(Modulus - 1) :
          /\ thread[t] # Idle /\ Stage("make", u, v) /\ u \notin Active
          /\ \A s : Return(t, s) => user' = [user EXCEPT ![u] = s]
    BY <1>8, AtStatement DEF Make
  <2>2. Count' = Count + (IF Counted(u) THEN 1 ELSE 0)
    BY <1>0, <1>8, <1>a, <1>b, <2>1, CountAfter DEF Make
  <2>3. Settled' /\ ~terminated'
    BY <1>8, <1>a, <2>1, <2>2 DEF Make, Stage, Settled, Runs, SerialInv
  <2> QED
    BY <1>8, <2>1, <2>3, StepsOut DEF Make, Return
<1>9. ASSUME NEW t \in Threads, MakeFails(t)
      PROVE  SerialInv'
  <2>1. PICK u \in Users, v \in 0..(Modulus - 1) :
          /\ thread[t] # Idle /\ thread[t].u = u /\ Stage("make", u, v) /\ u \notin Active
          /\ \A next \in PCs \ {"idle"} : Go(t, next) =>
               thread' = [thread EXCEPT ![t] = At(next, u, v)]
          /\ \A s : Return(t, s) => user' = [user EXCEPT ![u] = s]
    BY <1>9, AtStatement DEF MakeFails
  <2>2. CASE autoInitialize /\ u \in Pointees
    <3>1. Go(t, "readDown") /\ UNCHANGED <<user, lost>>
      BY <1>9, <2>1, <2>2 DEF MakeFails
    <3>2. Count' = Count
      BY <1>9, <3>1, SameCount DEF MakeFails
    <3>3. Stage("readDown", u, v)'
      BY <1>9, <2>1, <2>2, <3>1, <3>2 DEF MakeFails, Stage, Counted
    <3> QED
      BY <1>9, <2>1, <3>1, <3>3, StepsInside DEF MakeFails
  <2>3. CASE ~(autoInitialize /\ u \in Pointees)
    <3>1. /\ Return(t, "none") /\ u \notin Clients
          /\ lost' = lost + (IF autoInitialize THEN 1 ELSE 0)
      BY <1>9, <1>b, <2>1, <2>3, LibraryAssumption DEF MakeFails
    <3>2. Count' = Count + (IF autoInitialize THEN 1 ELSE 0)
      BY <1>0, <1>9, <1>a, <1>b, <2>1, <3>1, CountAfter DEF MakeFails
    <3>3. Settled' /\ ~terminated'
      BY <1>9, <1>a, <2>1, <3>1, <3>2 DEF MakeFails, Stage, Settled, Runs, SerialInv, Counted
    <3> QED
      BY <2>1, <3>1, <3>3, StepsOut DEF Return
  <2> QED
    BY <2>2, <2>3
<1>10. ASSUME NEW t \in Threads, ReadDown(t)
       PROVE  SerialInv'
  <2>1. PICK u \in Users, v \in 0..(Modulus - 1) :
          thread[t] # Idle /\ thread[t].u = u /\ Stage("readDown", u, v)
    BY <1>10, AtStatement DEF ReadDown
  <2>2. thread' = [thread EXCEPT ![t] = At("writeDown", u, libraryUsers)]
    BY <1>0, <1>10, <2>1 DEF ReadDown, TypeOK
  <2>3. Count' = Count
    BY <1>10, SameCount DEF ReadDown
  <2>4. PICK w \in 0..(Modulus - 1) : w = libraryUsers
    BY <1>b
  <2>5. Stage("writeDown", u, w)'
    BY <1>10, <2>1, <2>3, <2>4 DEF ReadDown, Stage, Counted
  <2> QED
    BY <1>10, <2>1, <2>2, <2>4, <2>5, StepsInside DEF ReadDown
<1>11. ASSUME NEW t \in Threads, WriteDown(t)
       PROVE  SerialInv'
  <2>1. PICK u \in Users, v \in 0..(Modulus - 1) :
          /\ thread[t] # Idle /\ thread[t].val = v
          /\ Stage("writeDown", u, v)
          /\ \A next \in PCs \ {"idle"} : Go(t, next) =>
               thread' = [thread EXCEPT ![t] = At(next, u, v)]
    BY <1>11, AtStatement DEF WriteDown
  <2>2. Count' = Count
    BY <1>11, SameCount DEF WriteDown
  <2>3. v = Count + 1 /\ libraryUsers' = (v + Modulus - 1) % Modulus
    BY <1>11, <2>1 DEF Stage, WriteDown
  <2>4. libraryUsers' = Count
    BY <1>a, <2>3
  <2>5. Stage("recheck", u, v)'
    BY <1>11, <2>1, <2>2, <2>4 DEF WriteDown, Stage, Counted
  <2> QED
    BY <1>11, <2>1, <2>5, StepsInside DEF WriteDown
<1>12. ASSUME NEW t \in Threads, Recheck(t)
       PROVE  SerialInv'
  <2>1. PICK u \in Users, v \in 0..(Modulus - 1) :
          /\ thread[t] # Idle /\ thread[t].val = v
          /\ Stage("recheck", u, v) /\ u \notin Active
          /\ \A next \in PCs \ {"idle"} : Go(t, next) =>
               thread' = [thread EXCEPT ![t] = At(next, u, v)]
          /\ \A s : Return(t, s) => user' = [user EXCEPT ![u] = s]
    BY <1>12, AtStatement DEF Recheck
  <2>2. v = Count + 1 /\ libraryUsers = Count
    BY <2>1 DEF Stage
  <2>2a. (thread[t].val = 1) <=> (libraryUsers = 0)
    BY <1>a, <2>1, <2>2
  <2>3. CASE libraryUsers = 0
    <3>1. Go(t, "cleanup") /\ UNCHANGED user
      BY <1>12, <2>2a, <2>3, Zenon DEF Recheck
    <3>2. Count' = Count
      BY <1>12, <3>1, SameCount DEF Recheck
    <3>3. Stage("cleanup", u, v)'
      BY <1>12, <2>1, <2>2, <2>3, <3>1, <3>2 DEF Recheck, Stage, Counted
    <3> QED
      BY <1>12, <2>1, <3>1, <3>3, StepsInside DEF Recheck
  <2>4. CASE libraryUsers # 0
    <3>1. Return(t, "none")
      BY <1>12, <2>2a, <2>4, Zenon DEF Recheck
    <3>2. Count' = Count
      BY <1>0, <1>12, <1>a, <1>b, <2>1, <3>1, CountAfter DEF Recheck
    <3>3. Settled' /\ ~terminated'
      BY <1>12, <2>1, <2>2, <2>4, <3>2 DEF Recheck, Stage, Settled, Runs, SerialInv
    <3> QED
      BY <2>1, <3>1, <3>3, StepsOut DEF Return
  <2> QED
    BY <2>3, <2>4
<1>13. ASSUME NEW t \in Threads, Cleanup(t)
       PROVE  SerialInv'
  <2>1. PICK u \in Users, v \in 0..(Modulus - 1) :
          /\ thread[t] # Idle /\ Stage("cleanup", u, v) /\ u \notin Active
          /\ \A s : Return(t, s) => user' = [user EXCEPT ![u] = s]
    BY <1>13, AtStatement DEF Cleanup
  <2>2. Count' = Count
    BY <1>0, <1>13, <1>a, <1>b, <2>1, CountAfter DEF Cleanup
  <2>3. winsock' = 0 /\ UNCHANGED terminated
    BY <1>13, <2>1 DEF Cleanup, Stage
  <2>4. Settled' /\ ~terminated'
    BY <1>13, <2>1, <2>2, <2>3 DEF Cleanup, Stage, Settled, Runs, SerialInv
  <2> QED
    BY <1>13, <2>1, <2>4, StepsOut DEF Cleanup, Return
<1>14. ASSUME NEW u \in Users, TakeFD(u)
       PROVE  SerialInv'
  <2>1. /\ user' = [user EXCEPT ![u] = "none"]
        /\ u \in Active <=> autoInitialize
        /\ lost' = lost + (IF autoInitialize THEN 1 ELSE 0)
    BY <1>14, <1>b, LibraryAssumption DEF TakeFD, Active, IsUser, Counted
  <2>2. Count' = Count
    <3>1. lost' \in Nat /\ UNCHANGED autoInitialize
      BY <1>14, <1>b, <2>1 DEF TakeFD
    <3>2. CASE autoInitialize
      <4>1. Count' = Count - 1 + (lost' - lost)
        BY <1>0, <2>1, <3>1, <3>2, CountCases
      <4> QED
        BY <1>a, <1>b, <2>1, <3>2, <4>1
    <3>3. CASE ~autoInitialize
      <4>1. Count' = Count + (lost' - lost)
        BY <1>0, <2>1, <3>1, <3>3, CountCases
      <4> QED
        BY <1>a, <1>b, <2>1, <3>3, <4>1
    <3> QED
      BY <3>2, <3>3
  <2>3. Settled' <=> Settled
    BY <1>14, <2>2 DEF TakeFD, Settled, Runs
  <2>4. ASSUME NEW t \in Threads, thread'[t] # Idle
        PROVE  Stage(thread[t].pc, thread[t].u, thread[t].val)'
    <3>1. thread' = thread /\ Stage(thread[t].pc, thread[t].u, thread[t].val)
      BY <1>14, <2>4 DEF TakeFD, SerialInv
    <3>2. thread[t].u # u /\ user'[thread[t].u] = user[thread[t].u]
      BY <1>0, <1>14, <2>1, <3>1 DEF TakeFD, Stage, TypeOK
    <3> QED
      BY <1>14, <2>2, <2>3, <3>1, <3>2 DEF TakeFD, Stage, Counted
  <2> QED
    BY <1>14, <2>3, <2>4 DEF TakeFD, SerialInv, Exclusive, Quiet
<1>15. CASE SetAuto
  <2>1. Active' = Active
    BY <1>15 DEF SetAuto, Active, IsUser, Counted, Users
  <2>2. Count' = Count /\ (Settled' <=> Settled)
    BY <1>15, <2>1 DEF SetAuto, Count, Settled, Runs
  <2>3. ASSUME NEW t \in Threads, thread'[t] # Idle
        PROVE  Stage(thread[t].pc, thread[t].u, thread[t].val)'
    <3>1. thread' = thread /\ Stage(thread[t].pc, thread[t].u, thread[t].val)
      BY <1>15, <2>3 DEF SetAuto, SerialInv
    <3>2. thread[t].u \in Users
      BY <1>0, <2>3, <3>1 DEF TypeOK
    <3>3. thread[t].u \in Clients
      BY <1>15, <3>1, <3>2 DEF SetAuto, Stage, Users
    <3> QED
      BY <1>15, <2>2, <3>1, <3>3 DEF SetAuto, Stage, Counted
  <2> QED
    BY <1>15, <2>2, <2>3 DEF SetAuto, SerialInv, Exclusive, Quiet
<1> QED
  BY <1>1, <1>2, <1>3, <1>4, <1>5, <1>6, <1>7, <1>8, <1>9, <1>10, <1>11, <1>12, <1>13,
     <1>14, <1>15 DEF Next, Initialize, Deinitialize
-----------------------------------------------------------------------------
LEMMA SerialInit == Init => SerialInv
<1> SUFFICES ASSUME Init PROVE SerialInv
  OBVIOUS
<1>1. \A u \in Users : ~IsUser(u)
  BY DEF Init, IsUser
<1>2. Active = {}
  BY <1>1 DEF Active
<1>3. Count = 0
  BY <1>2, FS_EmptySet DEF Count, Init
<1> QED
  BY <1>3, TypeInit DEF Init, SerialInv, Exclusive, Settled, Runs

LEMMA SerialInvariant == ASSUME Serial PROVE Spec => []SerialInv
<1>1. Init => SerialInv
  BY SerialInit
<1>2. SerialInv /\ [Next]_vars => SerialInv'
  <2> SUFFICES ASSUME SerialInv, [Next]_vars PROVE SerialInv'
    OBVIOUS
  <2>1. TypeOK'
    BY TypeStep DEF SerialInv
  <2> QED
    BY <2>1, SerialStep
<1> QED
  BY <1>1, <1>2, PTL DEF Spec

(* Between calls of constructors and destructors the count is exact, after *)
(* any sequence of successes and failures.                                 *)
THEOREM CountIsExact == ASSUME Serial PROVE Spec => []CountExact
<1>1. SerialInv => CountExact
  BY DEF SerialInv, CountExact, Settled, Runs, Count, Active
<1> QED
  BY <1>1, SerialInvariant, PTL

(* Winsock runs while anybody uses it, also in the middle of a constructor *)
(* or destructor of somebody else.                                         *)
THEOREM RunsWhileUsed == ASSUME Serial PROVE Spec => []RunningWhileUsed
<1>1. ASSUME SerialInv, \E u \in Users : IsUser(u)
      PROVE  winsock > 0
  <2>1. Count > 0 /\ Count \in Nat
    BY <1>1, CountType DEF SerialInv, Active
  <2>2. CASE Quiet
    BY <1>1, <2>1, <2>2 DEF SerialInv, Settled, Runs
  <2>3. ASSUME NEW t \in Threads, thread[t] # Idle
        PROVE  winsock > 0
    <3>1. Stage(thread[t].pc, thread[t].u, thread[t].val) /\ thread[t].pc \in PCs \ {"idle"}
      BY <1>1, <2>3 DEF SerialInv, TypeOK
    <3> QED
      BY <2>1, <3>1 DEF Stage, Settled, Runs, PCs
  <2> QED
    BY <2>2, <2>3 DEF Quiet
<1>2. SerialInv => RunningWhileUsed
  BY <1>1 DEF RunningWhileUsed
<1> QED
  BY <1>2, SerialInvariant, PTL

(* No destructor throws: WSACleanup is called as often as WSAStartup       *)
(* succeeded.                                                              *)
THEOREM DestructorsReturn == ASSUME Serial PROVE Spec => []NeverTerminates
<1>1. SerialInv => NeverTerminates
  BY DEF SerialInv, NeverTerminates
<1> QED
  BY <1>1, SerialInvariant, PTL
=============================================================================
