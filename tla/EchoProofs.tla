------------------------------ MODULE EchoProofs ------------------------------
(***************************************************************************)
(* Proofs about module EchoServer, for any number of clients, any bounds   *)
(* on what they say, and whatever they do between two system calls of the  *)
(* server.                                                                 *)
(***************************************************************************)
EXTENDS EchoServer, SeqLemmas

-----------------------------------------------------------------------------
(* The inductive invariant.                                                *)

(* The server is inside the loop, at a client. *)
AtClient == pc \in {"name", "receive", "echo"}

(* Where the loop is: the iterator only runs past the end of the list      *)
(* between two clients.                                                    *)
Positions ==
  /\ pc = "greet" => clientList # <<>>
  /\ AtClient => slot <= last /\ slot <= Len(clientList)

(* Waiting and connected sockets, place by place. *)
NoneTwice(s) == \A i, j \in DOMAIN s : s[i] = s[j] => i = j
In(c, s) == \E i \in DOMAIN s : s[i] = c
Listed ==
  /\ NoneTwice(pending) /\ NoneTwice(clientList)
  /\ \A c \in Clients : ~(In(c, pending) /\ In(c, clientList))
  /\ \A c \in Clients :
       In(c, pending) \/ In(c, clientList) <=> conn[c] \notin {"none", "closed"}

(* Nobody is sent anything before the greeting. *)
NotGreeted(c) ==
  conn[c] = "none" \/ In(c, pending) \/ (pc = "greet" /\ c = Last(clientList))
Fresh ==
  \A c \in Clients : NotGreeted(c) => outbox[c] = <<>> /\ got[c] = <<>> /\ due[c] = {}

(* A run of messages of s, in the order in which s sent them. *)
Run(seq, s) ==
  \A k \in DOMAIN seq : /\ seq[k].from = s /\ seq[k].number <= said[s]
                        /\ \A j \in 1..(k - 1) : seq[j].number < seq[k].number

(* All that is of s in h comes before all of seq. *)
Before(h, s, seq) ==
  \A i \in DOMAIN h : h[i].from = s => \A k \in DOMAIN seq : h[i].number < seq[k].number

Precedes(s, t) == \A i \in DOMAIN s, k \in DOMAIN t : s[i].number < t[k].number

(* What a client has said is heard, is being sent around, or waits in its  *)
(* inbox, in this order.                                                   *)
Waiting ==
  \A s \in Clients : /\ Run(inbox[s], s)
                     /\ \A c \in Clients : Before(Heard(c), s, inbox[s])

Broadcast ==
  pc = "echo" =>
    /\ Run(bytes, l) /\ Precedes(bytes, inbox[l])
    /\ Run(rest, l) /\ Precedes(rest, inbox[l])
    /\ \A i \in DOMAIN clientList, c \in Clients : c = clientList[i] =>
         /\ i > to => Before(Heard(c), l, bytes)
         /\ i = to => Before(Heard(c), l, rest)

SaidBefore ==
  \A c \in Clients : \A i \in DOMAIN Heard(c) :
    Heard(c)[i].from \in Clients => Heard(c)[i].number <= said[Heard(c)[i].from]

(* A message that is due and not heard has been lost behind a reset        *)
(* connection (not that of the client whose turn it is), or is still to be *)
(* sent.                                                                   *)
LostBehindReset(i) ==
  \E j \in 1..(i - 1) : conn[clientList[j]] = "reset" /\ (pc = "receive" => j # slot)
Accounted ==
  \A i \in DOMAIN clientList, c \in Clients : c = clientList[i] /\ conn[c] = "open" =>
    \A m \in due[c] \ ToSet(Heard(c)) :
      \/ LostBehindReset(i)
      \/ pc = "echo" /\ i # slot /\ i > to /\ m \in ToSet(bytes)
      \/ pc = "echo" /\ i # slot /\ i = to /\ m \in ToSet(rest)

EchoInv ==
  /\ TypeOK /\ Positions /\ Listed /\ Fresh
  /\ EchoInOrder /\ Waiting /\ Broadcast /\ SaidBefore
  /\ Accounted

-----------------------------------------------------------------------------
(* Types.                                                                  *)


LEMMA ListIsShort ==
  ASSUME TypeOK, Listed
  PROVE  /\ Cardinality(Clients) \in Nat
         /\ Len(clientList) \in 0..Cardinality(Clients)
<1>1. Cardinality(Clients) \in Nat
  BY EchoAssumption, FS_CardinalityType
<1>2. Len(clientList) \in Nat
  BY SeqPlaces DEF TypeOK
<1>3. Len(clientList) <= Cardinality(Clients)
  BY EchoAssumption, NoneTwiceIsShort DEF TypeOK, Listed, NoneTwice
<1> QED
  BY <1>1, <1>2, <1>3

(* The client whose turn it is, in the outer and in the inner loop. *)
LEMMA AtSlot ==
  ASSUME TypeOK, Positions, AtClient
  PROVE  /\ slot \in DOMAIN clientList /\ l \in Clients
         /\ slot + 1 \in 1..(last + 1)
  BY SeqPlaces DEF TypeOK, Positions, l

LEMMA AtTo ==
  ASSUME TypeOK, to <= Len(clientList)
  PROVE  to \in DOMAIN clientList /\ cl \in Clients
  BY SeqPlaces DEF TypeOK, cl

LEMMA AtLast ==
  ASSUME TypeOK, Positions, pc = "greet"
  PROVE  Len(clientList) \in DOMAIN clientList /\ Last(clientList) \in Clients
  BY SeqPlaces DEF TypeOK, Positions, Last

LEMMA TypeStep ==
  ASSUME TypeOK, Positions, Listed, Fresh, Next
  PROVE  TypeOK'
<1>1. /\ Cardinality(Clients) \in Nat
      /\ Len(clientList) \in 0..Cardinality(Clients)
      /\ Len(pending) \in Nat /\ Backlog \in Nat /\ Room \in Nat \ {0}
  BY ListIsShort, SeqPlaces, EchoAssumption DEF TypeOK
<1>2. ASSUME BeginLoop, UNCHANGED <<clientList, bytes, to, rest, pending, conn, inbox, said, got, due>>,
             outbox' \in [Clients -> Seq(Messages)],
             \A c \in Clients : Len(outbox'[c]) <= Room
      PROVE  TypeOK'
  BY <1>1, <1>2 DEF TypeOK, BeginLoop
<1>3. ASSUME NextSlot, slot + 1 \in 1..(last + 1),
             UNCHANGED <<clientList, last, pending, conn, inbox, outbox, said, got, due>>
      PROVE  TypeOK'
  <2>1. <<>> \in Seq(Said) /\ 1 \in 1..(Len(clientList) + 1)
    BY <1>1
  <2> QED
    BY <1>3, <2>1 DEF TypeOK, NextSlot
<1>4. CASE MasterIdle
  BY <1>2, <1>4 DEF MasterIdle, TypeOK
<1>5. CASE Accept
  <2>1. /\ clientList' \in Seq(Clients) /\ Len(clientList') = Len(clientList) + 1
        /\ pending' \in Seq(Clients) /\ Len(pending') = Len(pending) - 1
    BY <1>5, SeqTaken, SeqAppended DEF Accept, TypeOK
  <2>2. Len(pending) <= Backlog /\ to \in 1..(Len(clientList) + 1)
    BY DEF TypeOK
  <2>3. Len(pending') <= Backlog /\ to \in 1..(Len(clientList') + 1)
    BY <1>1, <2>1, <2>2
  <2> QED
    BY <1>5, <2>1, <2>3 DEF Accept, TypeOK
<1>6. CASE Greet
  <2> DEFINE c == Last(clientList)
  <2>1. c \in Clients /\ outbox[c] = <<>>
    BY <1>6, AtLast DEF Greet, Fresh, NotGreeted
  <2>2. CASE conn[c] = "reset"
    BY <1>2, <1>6, <2>2 DEF Greet, TypeOK
  <2>3. CASE conn[c] # "reset"
    <3>1. Append(outbox[c], Motd) \in Seq(Messages) /\ Len(Append(outbox[c], Motd)) = 1
      BY <2>1, SeqAppended, EmptySeq DEF TypeOK, Messages
    <3> HIDE DEF c
    <3>2. outbox' = [outbox EXCEPT ![c] = Append(@, Motd)]
      BY <1>6, <2>3 DEF Greet, c
    <3>3. outbox' \in [Clients -> Seq(Messages)] /\ \A d \in Clients : Len(outbox'[d]) <= Room
      <4>1. \A d \in Clients : Len(outbox[d]) <= Room
        BY DEF TypeOK
      <4>2. outbox \in [Clients -> Seq(Messages)] /\ 1 <= Room
        BY <1>1 DEF TypeOK
      <4>3. outbox' = [outbox EXCEPT ![c] = Append(outbox[c], Motd)]
        BY <3>2
      <4> DEFINE greeted == Append(outbox[c], Motd)
      <4>4. greeted \in Seq(Messages) /\ Len(greeted) <= Room /\ c \in Clients
        BY <2>1, <3>1, <4>2
      <4>5. outbox' = [outbox EXCEPT ![c] = greeted]
        BY <4>3
      <4> HIDE DEF greeted
      <4> QED
        BY <4>1, <4>2, <4>4, <4>5
    <3>4. BeginLoop /\ UNCHANGED <<clientList, bytes, to, rest, pending, conn, inbox, said, got, due>>
      BY <1>6 DEF Greet
    <3> QED
      BY <1>2, <3>3, <3>4
  <2> QED
    BY <2>2, <2>3
<1>7. CASE LoopEnds
  BY <1>1, <1>7 DEF LoopEnds, TypeOK
<1>8. CASE NotReady
  <2>1. slot + 1 \in 1..(last + 1)
    BY <1>1, <1>8 DEF NotReady, TypeOK
  <2> QED
    BY <1>3, <1>8, <2>1 DEF NotReady
<1>9. CASE Ready
  BY <1>9 DEF Ready, TypeOK
<1>10. CASE Name
  <2>1. CASE conn[l] = "reset"
    BY <1>3, <1>10, <2>1, AtSlot DEF Name, AtClient
  <2>2. CASE conn[l] # "reset"
    BY <1>10, <2>2 DEF Name, TypeOK
  <2> QED
    BY <2>1, <2>2
<1>11. CASE ReceiveData
  <2>1. l \in Clients /\ inbox[l] \in Seq(Said) /\ ToSet(inbox[l]) \subseteq Said
    BY <1>11, AtSlot, SeqPlaces DEF ReceiveData, AtClient, TypeOK, ToSet
  <2>2. <<>> \in Seq(Said) /\ 1 \in 1..(Len(clientList) + 1)
    BY <1>1
  <2>3. inbox' \in [Clients -> Seq(Said)] /\ due' \in [Clients -> SUBSET Said]
    BY <1>11, <2>1, <2>2 DEF ReceiveData, TypeOK
  <2> QED
    BY <1>11, <2>1, <2>2, <2>3 DEF ReceiveData, TypeOK
<1>12. CASE ReceiveThrows
  BY <1>3, <1>12, AtSlot DEF ReceiveThrows, AtClient
<1>13. CASE ReceiveEnd
  <2>1. /\ l \in Clients /\ slot \in DOMAIN clientList
        /\ slot + 1 \in 1..(last + 1)
    BY <1>13, AtSlot DEF ReceiveEnd, AtClient
  <2>2. /\ clientList' \in Seq(Clients) /\ Len(clientList') = Len(clientList) - 1
    BY <1>13, <2>1, SeqRemoved DEF ReceiveEnd, TypeOK
  <2>3. <<>> \in Seq(Said) /\ <<>> \in Seq(Messages) /\ Len(<<>>) <= Room
    BY <1>1
  <2>4. /\ Len(clientList') \in Nat /\ 1 \in 1..(Len(clientList') + 1)
    BY <2>2, SeqPlaces
  <2> QED
    BY <1>13, <2>1, <2>2, <2>3, <2>4 DEF ReceiveEnd, NextSlot, TypeOK, Connections
<1>14. CASE SendOne
  <2>1. cl \in Clients
    BY <1>14, AtTo DEF SendOne
  <2>2. Head(rest) \in Said /\ Tail(rest) \in Seq(Said)
    BY <1>14, SeqTaken DEF SendOne, TypeOK
  <2>3. /\ Append(outbox[cl], Head(rest)) \in Seq(Messages)
        /\ Len(Append(outbox[cl], Head(rest))) <= Room
    <3>1. /\ Append(outbox[cl], Head(rest)) \in Seq(Messages)
          /\ Len(Append(outbox[cl], Head(rest))) = Len(outbox[cl]) + 1
          /\ Len(outbox[cl]) \in Nat
      BY <2>1, <2>2, SeqAppended, SeqPlaces DEF TypeOK, Messages
    <3> QED
      BY <1>1, <1>14, <3>1 DEF SendOne
  <2> QED
    BY <1>14, <2>1, <2>2, <2>3 DEF SendOne, TypeOK
<1>15. CASE NextClient
  <2>1. to + 1 \in 1..(Len(clientList) + 1)
    BY <1>1, <1>15 DEF NextClient, TypeOK
  <2> QED
    BY <1>15, <2>1 DEF NextClient, TypeOK
<1>16. CASE SendThrows
  BY <1>3, <1>16, AtSlot DEF SendThrows, AtClient
<1>17. CASE EchoDone
  BY <1>3, <1>17, AtSlot DEF EchoDone, AtClient
<1>18. ASSUME NEW c \in Clients, Connect(c)
       PROVE  TypeOK'
  <2>1. pending' \in Seq(Clients) /\ Len(pending') = Len(pending) + 1
    BY <1>18, SeqAppended DEF Connect, TypeOK
  <2>2. Len(pending') <= Backlog
    BY <1>1, <1>18, <2>1 DEF Connect
  <2> QED
    BY <1>18, <2>1, <2>2 DEF Connect, TypeOK, server, Connections
<1>19. ASSUME NEW c \in Clients, Say(c)
       PROVE  TypeOK'
  <2>1. said[c] \in Nat /\ said[c] < MaxSaid[c] /\ MaxSaid[c] \in Nat
    BY <1>19, EchoAssumption DEF Say, TypeOK
  <2>2. said[c] + 1 \in 1..MaxSaid[c]
    BY <2>1
  <2>3. [from |-> c, number |-> said[c] + 1] \in Said
    BY <2>2 DEF Said
  <2>4. inbox' \in [Clients -> Seq(Said)]
    BY <1>19, <2>3, SeqAppended DEF Say, TypeOK
  <2>5. said' \in [Clients -> Nat] /\ \A d \in Clients : said'[d] <= MaxSaid[d]
    <3>1. said' = [said EXCEPT ![c] = said[c] + 1]
      BY <1>19 DEF Say
    <3>2. said \in [Clients -> Nat] /\ \A d \in Clients : said[d] <= MaxSaid[d]
      BY DEF TypeOK
    <3>3. said[c] + 1 \in Nat /\ said[c] + 1 <= MaxSaid[c]
      BY <2>1
    <3> QED
      BY <3>1, <3>2, <3>3
  <2>6. UNCHANGED <<server, pending, conn, outbox, got, due>>
    BY <1>19 DEF Say
  <2> QED
    BY <2>4, <2>5, <2>6 DEF TypeOK, server
<1>20. ASSUME NEW c \in Clients, Read(c)
       PROVE  TypeOK'
  <2>1. /\ Head(outbox[c]) \in Messages /\ Tail(outbox[c]) \in Seq(Messages)
        /\ Len(Tail(outbox[c])) = Len(outbox[c]) - 1
        /\ Append(got[c], Head(outbox[c])) \in Seq(Messages)
    BY <1>20, SeqTaken, SeqAppended DEF Read, TypeOK
  <2>2. Len(Tail(outbox[c])) <= Room
    <3>1. Len(outbox[c]) \in Nat /\ Len(outbox[c]) <= Room
      BY SeqPlaces DEF TypeOK
    <3> QED
      BY <1>1, <2>1, <3>1
  <2> QED
    BY <1>20, <2>1, <2>2 DEF Read, TypeOK, server
<1>21. ASSUME NEW c \in Clients, Leave(c)
       PROVE  TypeOK'
  <2>1. <<>> \in Seq(Messages) /\ Len(<<>>) <= Room
    BY <1>1
  <2> QED
    BY <1>21, <2>1 DEF Leave, TypeOK, server, Connections
<1>22. ASSUME NEW c \in Clients, Reject(c)
       PROVE  TypeOK'
  <2>1. <<>> \in Seq(Messages) /\ Len(<<>>) <= Room
    BY <1>1
  <2> QED
    BY <1>22, <2>1 DEF Reject, TypeOK, server, Connections
<1> QED
  BY <1>4, <1>5, <1>6, <1>7, <1>8, <1>9, <1>10, <1>11, <1>12, <1>13, <1>14,
     <1>15, <1>16, <1>17, <1>18, <1>19, <1>20, <1>21, <1>22 DEF Next, Server

-----------------------------------------------------------------------------
(* Where the server is.                                                    *)

LEMMA PositionsStep ==
  ASSUME TypeOK, Positions, Next
  PROVE  Positions'
<1>1. CASE UNCHANGED server
  BY <1>1 DEF Positions, AtClient, server
<1>2. CASE Accept
  BY <1>2, SeqTaken, SeqAppended DEF Accept, Positions, AtClient, TypeOK
<1>3. CASE Ready
  BY <1>3 DEF Ready, Positions, AtClient
<1>4. CASE Name
  BY <1>4 DEF Name, Positions, AtClient, NextSlot
<1>5. CASE ReceiveData
  BY <1>5 DEF ReceiveData, Positions, AtClient
<1>6. CASE SendOne \/ NextClient
  BY <1>6 DEF SendOne, NextClient, Positions, AtClient
<1>7. CASE MasterIdle \/ Greet \/ LoopEnds
  BY <1>7 DEF MasterIdle, Greet, LoopEnds, BeginLoop, Positions, AtClient
<1>8. CASE NotReady \/ ReceiveThrows \/ ReceiveEnd \/ SendThrows \/ EchoDone
  BY <1>8 DEF NotReady, ReceiveThrows, ReceiveEnd, SendThrows, EchoDone, NextSlot, Positions, AtClient
<1> QED
  BY <1>1, <1>2, <1>3, <1>4, <1>5, <1>6, <1>7, <1>8
  DEF Next, Server, Connect, Say, Read, Leave, Reject

-----------------------------------------------------------------------------
(* The lists: what is in them, and that nothing is there twice.            *)

LEMMA InAppended ==
  ASSUME NEW S, NEW s \in Seq(S), NEW e \in S
  PROVE  /\ \A c : In(c, Append(s, e)) <=> In(c, s) \/ c = e
         /\ NoneTwice(s) /\ ~In(e, s) => NoneTwice(Append(s, e))
  BY SeqAppended DEF In, NoneTwice

LEMMA InTaken ==
  ASSUME NEW S, NEW s \in Seq(S), s # <<>>
  PROVE  /\ \A c : In(c, s) <=> c = Head(s) \/ In(c, Tail(s))
         /\ NoneTwice(s) => NoneTwice(Tail(s)) /\ ~In(Head(s), Tail(s))
<1>1. /\ Len(s) \in Nat \ {0} /\ DOMAIN s = 1..Len(s)
      /\ DOMAIN Tail(s) = 1..(Len(s) - 1) /\ Head(s) = s[1]
  BY SeqPlaces, SeqTaken
<1>2. \A i \in 1..(Len(s) - 1) : i + 1 \in 1..Len(s) /\ i + 1 # 1 /\ Tail(s)[i] = s[i + 1]
  BY <1>1, SeqTaken
<1>3. \A i \in 1..Len(s) : i # 1 => i - 1 \in 1..(Len(s) - 1) /\ Tail(s)[i - 1] = s[i]
  <2> SUFFICES ASSUME NEW i \in 1..Len(s), i # 1
               PROVE  i - 1 \in 1..(Len(s) - 1) /\ Tail(s)[i - 1] = s[i]
    OBVIOUS
  <2>1. i - 1 \in 1..(Len(s) - 1) /\ (i - 1) + 1 = i
    BY <1>1
  <2> QED
    BY <1>2, <2>1
<1>4. ASSUME NEW c
      PROVE  In(c, s) <=> c = Head(s) \/ In(c, Tail(s))
  <2>1. ASSUME In(c, s)
        PROVE  c = Head(s) \/ In(c, Tail(s))
    <3>1. PICK i \in 1..Len(s) : s[i] = c
      BY <1>1, <2>1 DEF In
    <3> QED
      BY <1>1, <1>3, <3>1 DEF In
  <2>2. ASSUME c = Head(s)
        PROVE  In(c, s)
    BY <1>1, <2>2 DEF In
  <2>3. ASSUME In(c, Tail(s))
        PROVE  In(c, s)
    <3>1. PICK i \in 1..(Len(s) - 1) : Tail(s)[i] = c
      BY <1>1, <2>3 DEF In
    <3> QED
      BY <1>1, <1>2, <3>1 DEF In
  <2> QED
    BY <2>1, <2>2, <2>3
<1>5. ASSUME NoneTwice(s)
      PROVE  NoneTwice(Tail(s)) /\ ~In(Head(s), Tail(s))
  <2>1. ~In(Head(s), Tail(s))
    BY <1>1, <1>2, <1>5 DEF In, NoneTwice
  <2>2. ASSUME NEW i \in 1..(Len(s) - 1), NEW j \in 1..(Len(s) - 1), Tail(s)[i] = Tail(s)[j]
        PROVE  i = j
    <3>1. i + 1 = j + 1
      BY <1>1, <1>2, <1>5, <2>2 DEF NoneTwice
    <3> QED
      BY <3>1
  <2> QED
    BY <1>1, <2>1, <2>2 DEF NoneTwice
<1> QED
  BY <1>4, <1>5

LEMMA InRemoved ==
  ASSUME NEW S, NEW s \in Seq(S), NEW n \in DOMAIN s, NoneTwice(s)
  PROVE  /\ \A c : In(c, RemoveAt(s, n)) <=> In(c, s) /\ c # s[n]
         /\ NoneTwice(RemoveAt(s, n))
<1> DEFINE t == RemoveAt(s, n)
           From(i) == IF i < n THEN i ELSE i + 1
<1>1. /\ Len(s) \in Nat /\ DOMAIN s = 1..Len(s) /\ DOMAIN t = 1..(Len(s) - 1)
      /\ n \in 1..Len(s)
  BY SeqPlaces, SeqRemoved
<1>2. \A i \in 1..(Len(s) - 1) : From(i) \in 1..Len(s) /\ From(i) # n /\ t[i] = s[From(i)]
  <2>1. \A i \in DOMAIN t : From(i) \in DOMAIN s /\ From(i) # n /\ t[i] = s[From(i)]
    BY SeqRemoved
  <2> QED
    BY <1>1, <2>1
<1> HIDE DEF t
<1>3. ASSUME NEW c
      PROVE  In(c, t) <=> In(c, s) /\ c # s[n]
  <2>1. ASSUME In(c, t)
        PROVE  In(c, s) /\ c # s[n]
    <3>1. PICK i \in 1..(Len(s) - 1) : t[i] = c
      BY <1>1, <2>1 DEF In
    <3>2. From(i) \in 1..Len(s) /\ From(i) # n /\ c = s[From(i)]
      BY <1>2, <3>1
    <3> HIDE DEF From
    <3> QED
      BY <1>1, <3>2 DEF In, NoneTwice
  <2>2. ASSUME In(c, s), c # s[n]
        PROVE  In(c, t)
    <3>1. PICK j \in 1..Len(s) : s[j] = c
      BY <1>1, <2>2 DEF In
    <3> DEFINE i == IF j < n THEN j ELSE j - 1
    <3>2. i \in 1..(Len(s) - 1) /\ From(i) = j
      BY <1>1, <2>2, <3>1
    <3> HIDE DEF i, From
    <3> QED
      BY <1>1, <1>2, <3>1, <3>2 DEF In
  <2> QED
    BY <2>1, <2>2
<1>4. ASSUME NEW i \in 1..(Len(s) - 1), NEW j \in 1..(Len(s) - 1), t[i] = t[j]
      PROVE  i = j
  <2>1. From(i) = From(j)
    <3> HIDE DEF From
    <3> QED
      BY <1>1, <1>2, <1>4 DEF NoneTwice
  <2> QED
    BY <1>1, <2>1
<1> QED
  BY <1>1, <1>3, <1>4 DEF NoneTwice, t

LEMMA ListedStep ==
  ASSUME TypeOK, Positions, Listed, Next
  PROVE  Listed'
<1>1. CASE UNCHANGED <<clientList, pending, conn>>
  BY <1>1 DEF Listed, In, NoneTwice
<1>2. CASE Accept
  <2> DEFINE c == Head(pending)
  <2>1. /\ c \in Clients /\ ~In(c, Tail(pending)) /\ NoneTwice(Tail(pending))
        /\ \A d : In(d, pending) <=> d = c \/ In(d, Tail(pending))
    BY <1>2, SeqTaken, InTaken DEF Accept, TypeOK, Listed
  <2>2. ~In(c, clientList)
    BY <2>1 DEF Listed
  <2>3. /\ \A d : In(d, Append(clientList, c)) <=> In(d, clientList) \/ d = c
        /\ NoneTwice(Append(clientList, c))
    BY <2>1, <2>2, InAppended DEF TypeOK, Listed
  <2> HIDE DEF c
  <2>4. /\ clientList' = Append(clientList, c) /\ pending' = Tail(pending)
        /\ UNCHANGED conn
    BY <1>2 DEF Accept, c
  <2>5. NoneTwice(pending)' /\ NoneTwice(clientList)'
    BY <2>1, <2>3, <2>4 DEF NoneTwice
  <2>6. \A d : /\ In(d, pending') <=> In(d, Tail(pending))
               /\ In(d, clientList') <=> In(d, clientList) \/ d = c
    BY <2>3, <2>4
  <2>7. \A d \in Clients : ~(In(d, pending') /\ In(d, clientList'))
    BY <2>1, <2>6 DEF Listed
  <2>8. \A d \in Clients :
          In(d, pending') \/ In(d, clientList') <=> conn'[d] \notin {"none", "closed"}
    BY <2>1, <2>4, <2>6 DEF Listed
  <2> QED
    BY <2>5, <2>7, <2>8 DEF Listed, In
<1>3. CASE ReceiveEnd
  <2>1. slot \in DOMAIN clientList /\ l \in Clients
    BY <1>3, AtSlot DEF ReceiveEnd, AtClient
  <2>2. /\ \A c : In(c, RemoveAt(clientList, slot)) <=> In(c, clientList) /\ c # l
        /\ NoneTwice(RemoveAt(clientList, slot))
    BY <2>1, InRemoved DEF TypeOK, Listed, l
  <2>3. In(l, clientList) /\ ~In(l, pending)
    BY <2>1 DEF In, l, Listed
  <2>4. /\ clientList' = RemoveAt(clientList, slot) /\ pending' = pending
        /\ conn' = [conn EXCEPT ![l] = "closed"]
    BY <1>3 DEF ReceiveEnd
  <2> QED
    BY <2>1, <2>2, <2>3, <2>4 DEF Listed, TypeOK
<1>4. ASSUME NEW c \in Clients, Connect(c)
      PROVE  Listed'
  <2>1. ~In(c, pending) /\ ~In(c, clientList)
    BY <1>4 DEF Connect, Listed
  <2>2. /\ \A d : In(d, Append(pending, c)) <=> In(d, pending) \/ d = c
        /\ NoneTwice(Append(pending, c))
    BY <2>1, InAppended DEF TypeOK, Listed
  <2>3. /\ pending' = Append(pending, c) /\ clientList' = clientList
        /\ conn' = [conn EXCEPT ![c] = "open"]
    BY <1>4 DEF Connect, server
  <2> QED
    BY <2>1, <2>2, <2>3 DEF Listed, TypeOK
<1>5. ASSUME NEW c \in Clients, Leave(c) \/ Reject(c)
      PROVE  Listed'
  <2>1. /\ conn[c] \in {"open", "fin"}
        /\ conn' \in [Clients -> Connections] /\ conn'[c] \in {"fin", "reset"}
        /\ \A d \in Clients : d # c => conn'[d] = conn[d]
        /\ UNCHANGED <<clientList, pending>>
    BY <1>5 DEF Leave, Reject, TypeOK, server, Connections
  <2> QED
    BY <2>1 DEF Listed, NoneTwice, In
<1> QED
  BY <1>1, <1>2, <1>3, <1>4, <1>5
  DEF Next, Server, MasterIdle, Greet, LoopEnds, NotReady, Ready, Name, ReceiveData, ReceiveThrows,
      SendOne, NextClient, SendThrows, EchoDone, Say, Read, server

-----------------------------------------------------------------------------
(* Nobody hears anything before the greeting.                              *)

(* Who is in the list is neither waiting for accept nor not connected. *)
LEMMA InListOnly ==
  ASSUME TypeOK, Listed, NEW i \in DOMAIN clientList
  PROVE  /\ clientList[i] \in Clients /\ In(clientList[i], clientList)
         /\ ~In(clientList[i], pending)
         /\ conn[clientList[i]] \notin {"none", "closed"}
  BY SeqPlaces DEF TypeOK, Listed, In

LEMMA FreshStep ==
  ASSUME TypeOK, Positions, Listed, Fresh, Next
  PROVE  Fresh'
<1>1. ASSUME \A c \in Clients : NotGreeted(c)' =>
               NotGreeted(c) /\ outbox'[c] = outbox[c] /\ got'[c] = got[c] /\ due'[c] = due[c]
      PROVE  Fresh'
  BY <1>1 DEF Fresh
<1>2. ASSUME \/ UNCHANGED <<pc, clientList>>
             \/ pc' # "greet",
             UNCHANGED <<pending, conn, outbox, got, due>>
      PROVE  Fresh'
  BY <1>1, <1>2 DEF NotGreeted, In
<1>3. CASE Accept
  <2> DEFINE h == Head(pending)
  <2>1. /\ h \in Clients /\ \A c : In(c, pending) <=> c = h \/ In(c, Tail(pending))
    BY <1>3, SeqTaken, InTaken DEF Accept, TypeOK
  <2>2. Last(Append(clientList, h)) = h
    BY <2>1, SeqAppended DEF Last, TypeOK
  <2> HIDE DEF h
  <2>3. /\ clientList' = Append(clientList, h) /\ pending' = Tail(pending)
        /\ UNCHANGED <<conn, outbox, got, due>>
    BY <1>3 DEF Accept, h
  <2>4. ASSUME NEW c \in Clients, NotGreeted(c)'
        PROVE  NotGreeted(c)
    <3>1. conn[c] = "none" \/ In(c, Tail(pending)) \/ c = Last(Append(clientList, h))
      BY <2>3, <2>4 DEF NotGreeted, In
    <3> QED
      BY <2>1, <2>2, <3>1 DEF NotGreeted
  <2> QED
    BY <1>1, <2>3, <2>4
<1>4. CASE Greet
  <2>1. /\ Last(clientList) \in Clients /\ ~In(Last(clientList), pending)
        /\ conn[Last(clientList)] # "none"
    BY <1>4, AtLast, InListOnly DEF Greet, Last
  <2>2. /\ pc' = "loop" /\ UNCHANGED <<clientList, pending, conn, got, due>>
        /\ \A c \in Clients : c # Last(clientList) => outbox'[c] = outbox[c]
    BY <1>4 DEF Greet, BeginLoop, TypeOK
  <2> QED
    BY <1>1, <2>1, <2>2 DEF NotGreeted, In
<1>5. CASE ReceiveData
  <2>1. \A c \in Clients : Contains(clientList, c) => ~In(c, pending) /\ conn[c] # "none"
    <3>1. DOMAIN clientList = 1..Len(clientList)
      BY SeqPlaces DEF TypeOK
    <3> QED
      BY <3>1, InListOnly DEF Contains
  <2>2. /\ pc' = "echo" /\ UNCHANGED <<clientList, pending, conn, outbox, got>>
        /\ \A c \in Clients : ~Contains(clientList, c) => due'[c] = due[c]
    BY <1>5 DEF ReceiveData
  <2> QED
    BY <1>1, <2>1, <2>2 DEF NotGreeted, In
<1>6. CASE ReceiveEnd
  <2>1. l \in Clients /\ ~In(l, pending) /\ conn[l] # "none"
    BY <1>6, AtSlot, InListOnly DEF ReceiveEnd, AtClient, l
  <2>2. /\ pc' = "loop" /\ UNCHANGED <<pending, got, due>>
        /\ \A c \in Clients : c # l => outbox'[c] = outbox[c] /\ conn'[c] = conn[c]
        /\ conn'[l] = "closed"
    BY <1>6, <2>1 DEF ReceiveEnd, NextSlot, TypeOK
  <2> QED
    BY <1>1, <2>1, <2>2 DEF NotGreeted, In
<1>7. CASE SendOne
  <2>1. cl \in Clients /\ ~In(cl, pending) /\ conn[cl] # "none"
    BY <1>7, AtTo, InListOnly DEF SendOne, cl
  <2>2. /\ pc' = "echo" /\ UNCHANGED <<clientList, pending, conn, got, due>>
        /\ \A c \in Clients : c # cl => outbox'[c] = outbox[c]
    BY <1>7, <2>1 DEF SendOne, TypeOK
  <2> QED
    BY <1>1, <2>1, <2>2 DEF NotGreeted, In
<1>8. ASSUME NEW c \in Clients, Connect(c)
      PROVE  Fresh'
  <2>1. \A d : In(d, Append(pending, c)) <=> In(d, pending) \/ d = c
    BY InAppended DEF TypeOK
  <2>2. /\ conn[c] = "none" /\ pending' = Append(pending, c)
        /\ UNCHANGED <<pc, clientList, outbox, got, due>>
        /\ \A d \in Clients : d # c => conn'[d] = conn[d]
    BY <1>8 DEF Connect, TypeOK, server
  <2>3. ASSUME NEW d \in Clients, NotGreeted(d)'
        PROVE  NotGreeted(d)
    <3>1. conn'[d] = "none" \/ In(d, Append(pending, c)) \/ (pc = "greet" /\ d = Last(clientList))
      BY <2>2, <2>3 DEF NotGreeted, In
    <3> QED
      BY <2>1, <2>2, <3>1 DEF NotGreeted
  <2> QED
    BY <1>1, <2>2, <2>3
<1>9. ASSUME NEW c \in Clients, Read(c)
      PROVE  Fresh'
  <2>1. /\ ~NotGreeted(c) /\ UNCHANGED <<pc, clientList, pending, conn, due>>
        /\ \A d \in Clients : d # c => outbox'[d] = outbox[d] /\ got'[d] = got[d]
    BY <1>9 DEF Read, Fresh, TypeOK, server
  <2> QED
    BY <1>1, <2>1 DEF NotGreeted, In
<1>10. ASSUME NEW c \in Clients, Leave(c)
      PROVE  Fresh'
  <2>1. /\ UNCHANGED <<pc, clientList, pending>>
        /\ outbox'[c] = <<>> /\ got'[c] = <<>> /\ due'[c] = {}
        /\ \A d \in Clients : d # c => /\ outbox'[d] = outbox[d] /\ got'[d] = got[d]
                                       /\ due'[d] = due[d] /\ conn'[d] = conn[d]
    BY <1>10 DEF Leave, TypeOK, server
  <2> QED
    BY <2>1 DEF Fresh, NotGreeted, In
<1>11. ASSUME NEW c \in Clients, Reject(c)
      PROVE  Fresh'
  <2>1. /\ UNCHANGED <<pc, clientList, pending, got, due>>
        /\ outbox'[c] = <<>> /\ conn[c] # "none" /\ conn'[c] # "none"
        /\ \A d \in Clients : d # c => outbox'[d] = outbox[d] /\ conn'[d] = conn[d]
    BY <1>11 DEF Reject, TypeOK, server
  <2> QED
    BY <2>1 DEF Fresh, NotGreeted, In
<1> QED
  BY <1>2, <1>3, <1>4, <1>5, <1>6, <1>7, <1>8, <1>9, <1>10, <1>11
  DEF Next, Server, MasterIdle, BeginLoop, LoopEnds, NotReady, NextSlot, Ready, Name, ReceiveThrows,
      NextClient, SendThrows, EchoDone, Say, server

-----------------------------------------------------------------------------
(* What the clients hear.                                                  *)

(* Nobody hears anything new; who is gone may have less. *)
HearsNoMore ==
  \A c \in Clients :
    \/ Heard(c)' = Heard(c)
    \/ /\ conn'[c] # "open"
       /\ \A i \in DOMAIN Heard(c)' : i \in DOMAIN Heard(c) /\ Heard(c)'[i] = Heard(c)[i]

Hears(c, m) ==
  /\ Heard(c)' = Append(Heard(c), m)
  /\ \A d \in Clients \ {c} : Heard(d)' = Heard(d)

LEMMA HeardType ==
  ASSUME TypeOK, NEW c \in Clients
  PROVE  Heard(c) \in Seq(Messages)
  BY SeqJoined DEF TypeOK, Heard

LEMMA HeardGrows ==
  ASSUME TypeOK, NEW c \in Clients, NEW m \in Messages
  PROVE  got[c] \o Append(outbox[c], m) = Append(got[c] \o outbox[c], m)
<1>1. got[c] \in Seq(Messages) /\ outbox[c] \in Seq(Messages)
  BY DEF TypeOK
<1>2. \A s, t \in Seq(Messages) : s \o Append(t, m) = Append(s \o t, m)
  BY SeqAppendedBehind
<1> QED
  BY <1>1, <1>2

LEMMA SendOneHeard ==
  ASSUME TypeOK, SendOne, NEW c \in Clients, NEW m \in Said, c = cl, m = Head(rest)
  PROVE  Hears(c, m)
<1>1. /\ outbox' = [outbox EXCEPT ![c] = Append(@, m)] /\ got' = got
  BY DEF SendOne
<1>2. got[c] \o Append(outbox[c], m) = Append(got[c] \o outbox[c], m)
  BY HeardGrows DEF Messages
<1> QED
  BY <1>1, <1>2 DEF Hears, Heard, TypeOK

LEMMA HeardStep ==
  ASSUME TypeOK, Positions, Next
  PROVE  \/ HearsNoMore
         \/ \E c \in Clients : Greet /\ c = Last(clientList) /\ Hears(c, Motd)
         \/ \E c \in Clients, m \in Said : SendOne /\ c = cl /\ m = Head(rest) /\ Hears(c, m)
<1>1. CASE UNCHANGED <<outbox, got>>
  BY <1>1 DEF HearsNoMore, Heard
<1>2. CASE Greet
  <2> PICK c \in Clients : c = Last(clientList)
    BY <1>2, AtLast DEF Greet
  <2>1. CASE conn[c] = "reset"
    BY <1>1, <1>2, <2>1 DEF Greet
  <2>2. CASE conn[c] # "reset"
    <3>1. /\ outbox' = [outbox EXCEPT ![c] = Append(@, Motd)] /\ got' = got
      BY <1>2, <2>2 DEF Greet
    <3>2. got[c] \o Append(outbox[c], Motd) = Append(got[c] \o outbox[c], Motd)
      BY HeardGrows DEF Messages
    <3>3. Hears(c, Motd)
      BY <3>1, <3>2 DEF Hears, Heard, TypeOK
    <3> QED
      BY <1>2, <3>3
  <2> QED
    BY <2>1, <2>2
<1>3. CASE SendOne
  <2> PICK c \in Clients : c = cl
    BY <1>3, AtTo DEF SendOne
  <2> PICK m \in Said : m = Head(rest)
    BY <1>3, SeqTaken DEF SendOne, TypeOK
  <2> QED
    BY <1>3, SendOneHeard
<1>4. ASSUME NEW c \in Clients, conn'[c] # "open", outbox'[c] = <<>>, got'[c] \in {got[c], <<>>},
             \A d \in Clients : d # c => outbox'[d] = outbox[d] /\ got'[d] = got[d]
      PROVE  HearsNoMore
  <2>1. Heard(c)' = got[c] \/ Heard(c)' = <<>>
    BY <1>4, ConcatEmptySeq DEF Heard, TypeOK
  <2>2. \A i \in DOMAIN got[c] : i \in DOMAIN Heard(c) /\ Heard(c)[i] = got[c][i]
    BY SeqJoined DEF Heard, TypeOK
  <2>3. \A i \in DOMAIN Heard(c)' : i \in DOMAIN Heard(c) /\ Heard(c)'[i] = Heard(c)[i]
    BY <2>1, <2>2
  <2>4. \A d \in Clients : d # c => Heard(d)' = Heard(d)
    BY <1>4 DEF Heard
  <2> QED
    BY <1>4, <2>3, <2>4 DEF HearsNoMore
<1>5. CASE ReceiveEnd
  <2> PICK c \in Clients : c = l
    BY <1>5, AtSlot DEF ReceiveEnd, AtClient
  <2> QED
    BY <1>4, <1>5 DEF ReceiveEnd, TypeOK
<1>6. ASSUME NEW c \in Clients, Leave(c)
      PROVE  HearsNoMore
  BY <1>4, <1>6 DEF Leave, TypeOK
<1>7. ASSUME NEW c \in Clients, Reject(c)
      PROVE  HearsNoMore
  BY <1>4, <1>7 DEF Reject, TypeOK
<1>8. ASSUME NEW c \in Clients, Read(c)
      PROVE  HearsNoMore
  <2>1. Append(got[c], Head(outbox[c])) \o Tail(outbox[c]) = got[c] \o outbox[c]
    <3>1. got[c] \in Seq(Messages) /\ outbox[c] \in Seq(Messages) /\ outbox[c] # <<>>
      BY <1>8 DEF Read, TypeOK
    <3> QED
      BY <3>1, SeqMovedOver
  <2>2. \A d \in Clients : Heard(d)' = Heard(d)
    BY <1>8, <2>1 DEF Read, Heard, TypeOK
  <2> QED
    BY <2>2 DEF HearsNoMore
<1> QED
  BY <1>1, <1>2, <1>3, <1>5, <1>6, <1>7, <1>8
  DEF Next, Server, MasterIdle, Accept, LoopEnds, NotReady, Ready, Name, ReceiveData, ReceiveThrows,
      NextClient, SendThrows, EchoDone, Connect, Say

-----------------------------------------------------------------------------
(* In which order the clients hear it.                                     *)

LEMMA MessageType ==
  /\ \A m \in Said : m.from \in Clients /\ m.number \in Nat \ {0}
  /\ \A m \in Messages : m.number \in Nat
  /\ Motd \in Messages /\ Motd.from \notin Clients
<1>1. \A c \in Clients : MaxSaid[c] \in Nat
  BY EchoAssumption
<1>2. \A m \in Said : m.from \in Clients /\ m.number \in Nat \ {0}
  BY <1>1 DEF Said
<1> QED
  BY <1>2, EchoAssumption DEF Messages, Motd

LEMMA HeardTypeNext ==
  ASSUME TypeOK', NEW c \in Clients
  PROVE  Heard(c)' \in Seq(Messages)
  BY SeqJoined DEF TypeOK, Heard

LEMMA OrderShrinks ==
  ASSUME TypeOK', EchoInOrder, HearsNoMore
  PROVE  EchoInOrder'
<1> SUFFICES ASSUME NEW c \in Clients, NEW i \in DOMAIN Heard(c)'
             PROVE  /\ Heard(c)'[i].from # c
                    /\ \A j \in 1..(i - 1) : Heard(c)'[j].from = Heard(c)'[i].from
                                               => Heard(c)'[j].number < Heard(c)'[i].number
  BY DEF EchoInOrder
<1>1. \A j \in 1..(i - 1) : j \in DOMAIN Heard(c)'
  BY HeardTypeNext, SeqPlaces
<1>2. \A j \in DOMAIN Heard(c)' : j \in DOMAIN Heard(c) /\ Heard(c)'[j] = Heard(c)[j]
  BY DEF HearsNoMore
<1> QED
  BY <1>1, <1>2 DEF EchoInOrder

LEMMA OrderGrows ==
  ASSUME TypeOK, EchoInOrder, NEW c \in Clients, NEW m \in Messages, Hears(c, m), m.from # c,
         \A i \in DOMAIN Heard(c) : Heard(c)[i].from = m.from => Heard(c)[i].number < m.number
  PROVE  EchoInOrder'
<1>1. \A d \in Clients \ {c} : Heard(d)' = Heard(d)
  BY DEF Hears
<1>2. Heard(c)' = Append(Heard(c), m) /\ Heard(c) \in Seq(Messages)
  BY HeardType DEF Hears
<1>3. /\ DOMAIN Heard(c)' = DOMAIN Heard(c) \cup {Len(Heard(c)) + 1}
      /\ \A i \in DOMAIN Heard(c) : Heard(c)'[i] = Heard(c)[i]
      /\ Heard(c)'[Len(Heard(c)) + 1] = m
      /\ Len(Heard(c)) \in Nat /\ DOMAIN Heard(c) = 1..Len(Heard(c))
  BY <1>2, SeqAppended, SeqPlaces
<1>4. ASSUME NEW i \in DOMAIN Heard(c)'
      PROVE  /\ Heard(c)'[i].from # c
             /\ \A j \in 1..(i - 1) : Heard(c)'[j].from = Heard(c)'[i].from
                                        => Heard(c)'[j].number < Heard(c)'[i].number
  <2>1. \A j \in 1..(i - 1) : j \in DOMAIN Heard(c)
    BY <1>3
  <2>2. CASE i \in DOMAIN Heard(c)
    BY <1>3, <2>1, <2>2 DEF EchoInOrder
  <2>3. CASE i = Len(Heard(c)) + 1
    BY <1>3, <2>1, <2>3
  <2> QED
    BY <1>3, <2>2, <2>3
<1> QED
  BY <1>1, <1>4 DEF EchoInOrder

(* What the inner loop is about to send. *)
LEMMA FirstOfRest ==
  ASSUME TypeOK, Positions, Listed, Broadcast, SendOne
  PROVE  /\ cl \in Clients /\ l \in Clients /\ cl # l
         /\ Head(rest) \in Said /\ Head(rest).from = l /\ Head(rest).number <= said[l]
         /\ Before(Heard(cl), l, <<Head(rest)>>)
         /\ \A k \in DOMAIN Tail(rest) : Head(rest).number < Tail(rest)[k].number
         /\ \A k \in DOMAIN inbox[l] : Head(rest).number < inbox[l][k].number
<1>1. /\ to \in DOMAIN clientList /\ slot \in DOMAIN clientList /\ to # slot
      /\ cl \in Clients /\ l \in Clients
  BY AtTo, AtSlot DEF SendOne, AtClient
<1>2. cl # l
  BY <1>1 DEF Listed, NoneTwice, cl, l
<1>3. /\ 1 \in DOMAIN rest /\ Head(rest) = rest[1] /\ Head(rest) \in Said
      /\ \A k \in DOMAIN Tail(rest) : k + 1 \in DOMAIN rest /\ Tail(rest)[k] = rest[k + 1]
  BY SeqTaken DEF SendOne, TypeOK
<1>4. /\ Run(rest, l) /\ Precedes(rest, inbox[l]) /\ Before(Heard(cl), l, rest)
  BY <1>1 DEF Broadcast, SendOne, cl
<1>5. Before(Heard(cl), l, <<Head(rest)>>)
  BY <1>3, <1>4 DEF Before
<1>6. \A k \in DOMAIN Tail(rest) : 1 \in 1..((k + 1) - 1)
  BY SeqTaken, SeqPlaces DEF SendOne, TypeOK
<1>7. \A k \in DOMAIN Tail(rest) : Head(rest).number < Tail(rest)[k].number
  BY <1>3, <1>4, <1>6 DEF Run
<1> QED
  BY <1>1, <1>2, <1>3, <1>4, <1>5, <1>7 DEF Run, Precedes

LEMMA OrderStep ==
  ASSUME TypeOK, TypeOK', Positions, Listed, Fresh, Broadcast, EchoInOrder, Next
  PROVE  EchoInOrder'
<1>1. CASE HearsNoMore
  BY <1>1, OrderShrinks
<1>2. ASSUME NEW c \in Clients, Greet, c = Last(clientList), Hears(c, Motd)
      PROVE  EchoInOrder'
  <2>1. Heard(c) = <<>>
    <3>1. outbox[c] = <<>> /\ got[c] = <<>>
      BY <1>2 DEF Fresh, NotGreeted, Greet
    <3> QED
      BY <3>1, ConcatEmptySeq DEF Heard, TypeOK
  <2> QED
    BY <1>2, <2>1, OrderGrows, MessageType
<1>3. ASSUME NEW c \in Clients, NEW m \in Said, SendOne, c = cl, m = Head(rest), Hears(c, m)
      PROVE  EchoInOrder'
  <2>1. m \in Messages /\ m.from # c
    BY <1>3, FirstOfRest DEF Messages
  <2>2. \A i \in DOMAIN Heard(c) : Heard(c)[i].from = m.from => Heard(c)[i].number < m.number
    BY <1>3, FirstOfRest DEF Before
  <2> QED
    BY <1>3, <2>1, <2>2, OrderGrows
<1> QED
  BY <1>1, <1>2, <1>3, HeardStep

-----------------------------------------------------------------------------
(* What waits, and what is being sent around.                              *)

(* If a message is added to what is heard, or to what waits. *)
LEMMA BeforeChanges ==
  ASSUME NEW S, NEW h \in Seq(S), NEW s, NEW seq \in Seq(S), NEW m \in S, Before(h, s, seq)
  PROVE  /\ (m.from = s => \A k \in DOMAIN seq : m.number < seq[k].number)
              => Before(Append(h, m), s, seq)
         /\ (\A i \in DOMAIN h : h[i].from = s => h[i].number < m.number)
              => Before(h, s, Append(seq, m))
         /\ seq # <<>> => Before(h, s, Tail(seq))
<1>1. (m.from = s => \A k \in DOMAIN seq : m.number < seq[k].number) => Before(Append(h, m), s, seq)
  BY SeqAppended DEF Before
<1>2. (\A i \in DOMAIN h : h[i].from = s => h[i].number < m.number) => Before(h, s, Append(seq, m))
  BY SeqAppended DEF Before
<1>3. seq # <<>> => Before(h, s, Tail(seq))
  BY SeqTaken DEF Before
<1> QED
  BY <1>1, <1>2, <1>3

LEMMA BeforeShrinks ==
  ASSUME HearsNoMore, NEW c \in Clients, NEW s, NEW seq, Before(Heard(c), s, seq)
  PROVE  Before(Heard(c)', s, seq)
  BY DEF HearsNoMore, Before

LEMMA WaitingStep ==
  ASSUME TypeOK, Positions, Listed, Broadcast, SaidBefore, Waiting, Next
  PROVE  Waiting'
<1>1. ASSUME UNCHANGED <<inbox, said>>,
             \A s, c \in Clients : Before(Heard(c)', s, inbox[s])
      PROVE  Waiting'
  BY <1>1 DEF Waiting, Run
<1>2. ASSUME HearsNoMore, UNCHANGED <<inbox, said>>
      PROVE  Waiting'
  BY <1>1, <1>2, BeforeShrinks DEF Waiting
<1>3. CASE ReceiveData
  <2>1. l \in Clients
    BY <1>3, AtSlot DEF ReceiveData, AtClient
  <2>2. /\ inbox' = [inbox EXCEPT ![l] = <<>>] /\ UNCHANGED said
        /\ \A c \in Clients : Heard(c)' = Heard(c)
    BY <1>3 DEF ReceiveData, Heard
  <2>3. \A s \in Clients : inbox'[s] \in {inbox[s], <<>>}
    BY <2>1, <2>2 DEF TypeOK
  <2> QED
    BY <2>2, <2>3 DEF Waiting, Run, Before
<1>4. ASSUME NEW s \in Clients, Say(s)
      PROVE  Waiting'
  <2> DEFINE m == [from |-> s, number |-> said[s] + 1]
  <2>1. /\ inbox' = [inbox EXCEPT ![s] = Append(@, m)] /\ said' = [said EXCEPT ![s] = @ + 1]
        /\ \A c \in Clients : Heard(c)' = Heard(c)
    BY <1>4 DEF Say, Heard
  <2>2. m.from = s /\ m.number = said[s] + 1 /\ said[s] \in Nat
    BY DEF TypeOK
  <2>3. inbox[s] \in Seq(Said) /\ m \in Said
    <3>1. said[s] + 1 \in 1..MaxSaid[s]
      BY <1>4, <2>2, EchoAssumption DEF Say
    <3> QED
      BY <3>1 DEF Said, TypeOK
  <2> HIDE DEF m
  <2>4. Run(inbox[s], s)'
    <3>1. /\ DOMAIN Append(inbox[s], m) = DOMAIN inbox[s] \cup {Len(inbox[s]) + 1}
          /\ \A k \in DOMAIN inbox[s] : k # Len(inbox[s]) + 1 /\ Append(inbox[s], m)[k] = inbox[s][k]
          /\ Append(inbox[s], m)[Len(inbox[s]) + 1] = m
          /\ Len(inbox[s]) \in Nat /\ DOMAIN inbox[s] = 1..Len(inbox[s])
      BY <2>3, SeqAppended, SeqPlaces
    <3>2. inbox'[s] = Append(inbox[s], m) /\ said'[s] = said[s] + 1
      BY <2>1 DEF TypeOK
    <3>3. \A k \in DOMAIN inbox[s] :
            /\ inbox[s][k].from = s /\ inbox[s][k].number \in Nat /\ inbox[s][k].number <= said[s]
            /\ \A j \in 1..(k - 1) : inbox[s][j].number < inbox[s][k].number
      BY <2>3, SeqPlaces, MessageType DEF Waiting, Run
    <3>4. ASSUME NEW k \in DOMAIN Append(inbox[s], m)
          PROVE  /\ Append(inbox[s], m)[k].from = s /\ Append(inbox[s], m)[k].number <= said[s] + 1
                 /\ \A j \in 1..(k - 1) : Append(inbox[s], m)[j].number < Append(inbox[s], m)[k].number
      <4>1. \A j \in 1..(k - 1) : j \in DOMAIN inbox[s]
        BY <3>1
      <4>2. CASE k \in DOMAIN inbox[s]
        BY <2>2, <3>1, <3>3, <4>1, <4>2
      <4>3. CASE k = Len(inbox[s]) + 1
        BY <2>2, <3>1, <3>3, <4>1, <4>3
      <4> QED
        BY <3>1, <4>2, <4>3
    <3> QED
      BY <3>2, <3>4 DEF Run
  <2>5. ASSUME NEW c \in Clients
        PROVE  Before(Heard(c), s, Append(inbox[s], m))
    <3>1. \A i \in DOMAIN Heard(c) : Heard(c)[i].from = s =>
             Heard(c)[i].number \in Nat /\ Heard(c)[i].number <= said[s]
      BY HeardType, SeqPlaces, MessageType DEF SaidBefore
    <3>2. \A i \in DOMAIN Heard(c) : Heard(c)[i].from = s => Heard(c)[i].number < m.number
      BY <2>2, <3>1
    <3>3. Before(Heard(c), s, inbox[s]) /\ Heard(c) \in Seq(Messages)
          /\ inbox[s] \in Seq(Messages) /\ m \in Messages
      BY <2>3, HeardType DEF Waiting, Messages
    <3> QED
      BY <3>2, <3>3, BeforeChanges
  <2>6. \A d \in Clients \ {s} : inbox'[d] = inbox[d] /\ said'[d] = said[d]
    BY <2>1 DEF TypeOK
  <2>7. \A d \in Clients \ {s} : Run(inbox[d], d)'
    BY <2>6 DEF Run, Waiting
  <2>8. inbox'[s] = Append(inbox[s], m)
    BY <2>1 DEF TypeOK
  <2>9. \A d, c \in Clients : Before(Heard(c)', d, inbox'[d])
    BY <2>1, <2>5, <2>6, <2>8 DEF Waiting
  <2> QED
    BY <2>4, <2>7, <2>9 DEF Waiting
<1>5. ASSUME NEW c \in Clients, NEW m \in Messages, Hears(c, m), UNCHANGED <<inbox, said>>,
             \A s \in Clients : m.from = s => \A k \in DOMAIN inbox[s] : m.number < inbox[s][k].number
      PROVE  Waiting'
  <2>1. ASSUME NEW s \in Clients, NEW d \in Clients
        PROVE  Before(Heard(d)', s, inbox[s])
    <3>1. CASE d # c
      BY <1>5, <3>1 DEF Hears, Waiting
    <3>2. CASE d = c
      <4>1. Heard(c) \in Seq(Messages) /\ inbox[s] \in Seq(Messages) /\ Before(Heard(c), s, inbox[s])
        <5>1. inbox[s] \in Seq(Messages)
          BY DEF TypeOK, Messages
        <5> QED
          BY <5>1, HeardType DEF Waiting
      <4>2. Before(Append(Heard(c), m), s, inbox[s])
        BY <1>5, <4>1, BeforeChanges
      <4> QED
        BY <1>5, <3>2, <4>2 DEF Hears
    <3> QED
      BY <3>1, <3>2
  <2> QED
    BY <1>1, <1>5, <2>1
<1>6. ASSUME NEW c \in Clients, Greet, Hears(c, Motd)
      PROVE  Waiting'
  BY <1>5, <1>6, MessageType DEF Greet
<1>7. ASSUME NEW c \in Clients, NEW m \in Said, SendOne, m = Head(rest), Hears(c, m)
      PROVE  Waiting'
  <2>1. m \in Messages /\ m.from = l /\ \A k \in DOMAIN inbox[l] : m.number < inbox[l][k].number
    BY <1>7, FirstOfRest DEF Messages
  <2> QED
    BY <1>5, <1>7, <2>1 DEF SendOne
<1> QED
  BY <1>2, <1>3, <1>4, <1>6, <1>7, HeardStep
  DEF Next, Server, MasterIdle, Accept, Greet, LoopEnds, NotReady, Ready, Name, ReceiveThrows,
      ReceiveEnd, SendOne, NextClient, SendThrows, EchoDone, Connect, Read, Leave, Reject

LEMMA SaidBeforeStep ==
  ASSUME TypeOK, Positions, Listed, Broadcast, SaidBefore, Next
  PROVE  SaidBefore'
<1>1. \A s \in Clients : said[s] \in Nat /\ said'[s] \in Nat /\ said[s] <= said'[s]
  <2>1. CASE UNCHANGED said
    BY <2>1 DEF TypeOK
  <2>2. ASSUME NEW c \in Clients, Say(c)
        PROVE  said' = [said EXCEPT ![c] = @ + 1]
    BY <2>2 DEF Say
  <2>3. ASSUME NEW c \in Clients, said' = [said EXCEPT ![c] = @ + 1], NEW s \in Clients
        PROVE  said[s] \in Nat /\ said'[s] \in Nat /\ said[s] <= said'[s]
    <3>1. said \in [Clients -> Nat]
      BY DEF TypeOK
    <3>2. said'[s] = IF s = c THEN said[s] + 1 ELSE said[s]
      BY <2>3, <3>1
    <3> QED
      BY <3>1, <3>2
  <2> QED
    BY <2>1, <2>2, <2>3
    DEF Next, Server, MasterIdle, Accept, Greet, LoopEnds, NotReady, Ready, Name, ReceiveData,
        ReceiveThrows, ReceiveEnd, SendOne, NextClient, SendThrows, EchoDone, Connect, Read, Leave,
        Reject, TypeOK
<1>2. \A c \in Clients : \A i \in DOMAIN Heard(c) :
        Heard(c)[i].number \in Nat
        /\ (Heard(c)[i].from \in Clients => Heard(c)[i].number <= said'[Heard(c)[i].from])
  <2> SUFFICES ASSUME NEW c \in Clients, NEW i \in DOMAIN Heard(c)
               PROVE  /\ Heard(c)[i].number \in Nat
                      /\ (Heard(c)[i].from \in Clients => Heard(c)[i].number <= said'[Heard(c)[i].from])
    OBVIOUS
  <2>1. Heard(c)[i].number \in Nat
    BY HeardType, SeqPlaces, MessageType
  <2>2. Heard(c)[i].from \in Clients => Heard(c)[i].number <= said[Heard(c)[i].from]
    BY DEF SaidBefore
  <2> QED
    BY <1>1, <2>1, <2>2
<1>3. CASE HearsNoMore
  BY <1>2, <1>3 DEF SaidBefore, HearsNoMore
<1>4. ASSUME NEW c \in Clients, NEW m \in Messages, Hears(c, m),
             m.from \in Clients => m.number <= said'[m.from]
      PROVE  SaidBefore'
  <2>1. /\ DOMAIN Heard(c)' = DOMAIN Heard(c) \cup {Len(Heard(c)) + 1}
        /\ \A i \in DOMAIN Heard(c) : Heard(c)'[i] = Heard(c)[i]
        /\ Heard(c)'[Len(Heard(c)) + 1] = m
    BY <1>4, HeardType, SeqAppended DEF Hears
  <2>2. \A d \in Clients \ {c} : Heard(d)' = Heard(d)
    BY <1>4 DEF Hears
  <2> QED
    BY <1>2, <1>4, <2>1, <2>2 DEF SaidBefore
<1>5. ASSUME NEW c \in Clients, NEW m \in Said, SendOne, m = Head(rest), Hears(c, m)
      PROVE  SaidBefore'
  <2>1. m \in Messages /\ m.from \in Clients /\ m.number <= said[m.from] /\ m.number \in Nat
    BY <1>5, FirstOfRest, MessageType DEF Messages
  <2>2. m.number <= said'[m.from]
    BY <1>1, <2>1
  <2> QED
    BY <1>4, <1>5, <2>1, <2>2
<1> QED
  BY <1>3, <1>4, <1>5, HeardStep, MessageType

LEMMA BroadcastStep ==
  ASSUME TypeOK, Positions, Listed, Waiting, Broadcast, SaidBefore, Next
  PROVE  Broadcast'
<1>1. CASE pc' # "echo"
  BY <1>1 DEF Broadcast
<1>2. CASE ReceiveData
  <2> PICK b \in Clients : b = l
    BY <1>2, AtSlot DEF ReceiveData, AtClient
  <2>1. /\ bytes' = inbox[b] /\ rest' = inbox[b] /\ inbox'[b] = <<>> /\ l' = b
        /\ UNCHANGED <<clientList, said>>
    BY <1>2 DEF ReceiveData, TypeOK, l
  <2>2. \A i \in DOMAIN clientList : clientList[i] \in Clients
    BY SeqPlaces DEF TypeOK
  <2>3. \A c \in Clients : Heard(c)' = Heard(c)
    BY <1>2 DEF ReceiveData, Heard
  <2>4. Run(inbox[b], b) /\ \A c \in Clients : Before(Heard(c), b, inbox[b])
    BY DEF Waiting
  <2>5. Run(bytes, l)' /\ Run(rest, l)'
    BY <2>1, <2>4 DEF Run
  <2>6. Precedes(bytes, inbox[l])' /\ Precedes(rest, inbox[l])'
    BY <2>1 DEF Precedes
  <2>7. \A c \in Clients : Before(Heard(c)', b, inbox[b])
    BY <2>3, <2>4
  <2>8. \A c \in Clients : Before(Heard(c), l, bytes)' /\ Before(Heard(c), l, rest)'
    BY <2>1, <2>7 DEF Before
  <2> QED
    BY <2>5, <2>6, <2>8 DEF Broadcast
<1>3. CASE SendOne
  <2> PICK b \in Clients : b = l
    BY <1>3, FirstOfRest
  <2> PICK c \in Clients : c = cl
    BY <1>3, FirstOfRest
  <2> PICK m \in Said : m = Head(rest)
    BY <1>3, FirstOfRest
  <2>1. /\ pc = "echo" /\ UNCHANGED <<pc, bytes, inbox, said, clientList, slot, to>> /\ l' = b
        /\ rest' = Tail(rest) /\ rest # <<>> /\ rest \in Seq(Said)
    BY <1>3 DEF SendOne, TypeOK, l
  <2>2. /\ Run(bytes, b) /\ Precedes(bytes, inbox[b])
        /\ Run(rest, b) /\ Precedes(rest, inbox[b])
    BY <2>1 DEF Broadcast
  <2>3. Run(rest, l)' /\ Precedes(rest, inbox[l])'
    <3>1. \A k \in DOMAIN Tail(rest) : /\ k + 1 \in DOMAIN rest /\ Tail(rest)[k] = rest[k + 1]
                                       /\ \A j \in 1..(k - 1) : j + 1 \in 1..((k + 1) - 1) /\ Tail(rest)[j] = rest[j + 1]
      BY <2>1, SeqTaken, SeqPlaces
    <3> QED
      BY <2>1, <2>2, <3>1 DEF Run, Precedes
  <2>4. Run(bytes, l)' /\ Precedes(bytes, inbox[l])'
    BY <2>1, <2>2 DEF Run, Precedes
  <2>5. Hears(c, m)
    BY <1>3, SendOneHeard
  <2>6. ASSUME NEW i \in DOMAIN clientList, NEW d \in Clients, d = clientList[i], i > to
        PROVE  Before(Heard(d), l, bytes)'
    <3>1. d # c
      <4>1. to \in DOMAIN clientList /\ to \in Nat
        <5>1. to \in Nat
          BY DEF TypeOK
        <5> QED
          BY <1>3, <5>1, AtTo DEF SendOne
      <4>2. i # to
        BY <2>6, <4>1
      <4> QED
        BY <2>6, <4>1, <4>2 DEF Listed, NoneTwice, cl
    <3>2. Heard(d)' = Heard(d) /\ Before(Heard(d), b, bytes)
      BY <2>1, <2>5, <2>6, <3>1 DEF Hears, Broadcast
    <3> QED
      BY <2>1, <3>2 DEF Before
  <2>7. Before(Heard(c), l, rest)'
    <3>1. Before(Heard(c), b, rest)
      BY <1>3, <2>1, AtTo DEF Broadcast, cl, SendOne
    <3>2. Before(Heard(c), b, Tail(rest))
      BY <2>1, <3>1, SeqTaken DEF Before
    <3>3. \A k \in DOMAIN Tail(rest) : m.number < Tail(rest)[k].number
      BY <1>3, FirstOfRest
    <3>4. Tail(rest) \in Seq(Messages) /\ Heard(c) \in Seq(Messages) /\ m \in Messages
      <4>1. Tail(rest) \in Seq(Said)
        BY <2>1, SeqTaken
      <4> QED
        BY <4>1, HeardType, SeqMonotonic DEF Messages
    <3>5. Before(Append(Heard(c), m), b, Tail(rest))
      BY <3>2, <3>3, <3>4, BeforeChanges
    <3> QED
      BY <2>1, <2>5, <3>5 DEF Hears, Before
  <2>8. \A i \in DOMAIN clientList, d \in Clients : d = clientList[i] =>
          /\ i > to => Before(Heard(d), l, bytes)'
          /\ i = to => Before(Heard(d), l, rest)'
    BY <2>6, <2>7 DEF cl
  <2> QED
    BY <2>1, <2>3, <2>4, <2>8 DEF Broadcast
<1>4. CASE NextClient
  <2>1. /\ pc = "echo" /\ l' = l /\ \A c \in Clients : Heard(c)' = Heard(c)
        /\ UNCHANGED <<bytes, inbox, said, clientList, slot>>
        /\ to' = to + 1 /\ rest' = bytes /\ to \in Nat
    BY <1>4 DEF NextClient, l, Heard, TypeOK
  <2>2. \A i \in DOMAIN clientList : i > to + 1 \/ i = to + 1 => i > to
    <3>1. \A i \in DOMAIN clientList : i \in Nat
      BY SeqPlaces DEF TypeOK
    <3> QED
      BY <2>1, <3>1
  <2>3. \A i \in DOMAIN clientList, c \in Clients : c = clientList[i] =>
          /\ i > to' => Before(Heard(c), l, bytes)
          /\ i = to' => Before(Heard(c), l, bytes)
    BY <2>1, <2>2 DEF Broadcast
  <2>4. Run(bytes, l) /\ Precedes(bytes, inbox[l])
    BY <2>1 DEF Broadcast
  <2> QED
    BY <2>1, <2>3, <2>4 DEF Broadcast, Run, Precedes, Before
<1>5. ASSUME HearsNoMore, UNCHANGED server, UNCHANGED <<inbox, said>>, pc = "echo"
      PROVE  Broadcast'
  <2>1. l' = l
    BY <1>5 DEF l, server
  <2>2. \A i \in DOMAIN clientList, c \in Clients : c = clientList[i] =>
          /\ i > to => Before(Heard(c)', l, bytes)
          /\ i = to => Before(Heard(c)', l, rest)
    BY <1>5, BeforeShrinks DEF Broadcast
  <2> QED
    BY <1>5, <2>1, <2>2 DEF Broadcast, Run, Precedes, Before, server
<1>6. ASSUME NEW s \in Clients, Say(s), pc = "echo"
      PROVE  Broadcast'
  <2> PICK b \in Clients : b = l
    BY <1>6, AtSlot DEF AtClient
  <2> DEFINE m == [from |-> s, number |-> said[s] + 1]
  <2>1. /\ inbox'[s] = Append(inbox[s], m) /\ said'[s] = said[s] + 1 /\ said[s] \in Nat
        /\ \A c \in Clients : c # s => inbox'[c] = inbox[c] /\ said'[c] = said[c]
        /\ UNCHANGED <<pc, bytes, rest, clientList, slot, to>> /\ l' = l
        /\ \A c \in Clients : Heard(c)' = Heard(c)
    BY <1>6 DEF Say, Heard, TypeOK, server, l
  <2>2. m.number = said[s] + 1 /\ inbox[s] \in Seq(Said) /\ m \in Said
    <3>1. said[s] + 1 \in 1..MaxSaid[s]
      BY <1>6, <2>1, EchoAssumption DEF Say
    <3> QED
      BY <3>1 DEF Said, TypeOK
  <2>3. /\ DOMAIN inbox'[s] = DOMAIN inbox[s] \cup {Len(inbox[s]) + 1}
        /\ \A k \in DOMAIN inbox[s] : inbox'[s][k] = inbox[s][k]
        /\ inbox'[s][Len(inbox[s]) + 1] = m
    BY <2>1, <2>2, SeqAppended
  <2> HIDE DEF m
  <2>4. ASSUME NEW seq \in Seq(Said), Run(seq, b), Precedes(seq, inbox[b])
        PROVE  /\ \A k \in DOMAIN seq : /\ seq[k].from = b /\ seq[k].number <= said'[b]
                                        /\ \A j \in 1..(k - 1) : seq[j].number < seq[k].number
               /\ \A i \in DOMAIN seq, k \in DOMAIN inbox'[b] : seq[i].number < inbox'[b][k].number
    <3>1. \A k \in DOMAIN seq : seq[k].number \in Nat /\ seq[k].number <= said[b] /\ said[b] \in Nat
      BY <2>4, SeqPlaces, MessageType DEF Run, TypeOK
    <3>2. \A k \in DOMAIN seq : seq[k].number <= said'[b]
      BY <2>1, <3>1
    <3>3. CASE b = s
      <4>1. \A i \in DOMAIN seq : seq[i].number < m.number
        BY <2>1, <2>2, <3>1, <3>3
      <4> QED
        BY <2>3, <2>4, <3>2, <3>3, <4>1 DEF Run, Precedes
    <3>4. CASE b # s
      BY <2>1, <2>4, <3>2, <3>4 DEF Run, Precedes
    <3> QED
      BY <3>3, <3>4
  <2>5. /\ bytes \in Seq(Said) /\ Run(bytes, b) /\ Precedes(bytes, inbox[b])
        /\ rest \in Seq(Said) /\ Run(rest, b) /\ Precedes(rest, inbox[b])
    BY <1>6 DEF Broadcast, TypeOK
  <2>6. Run(bytes, l)' /\ Precedes(bytes, inbox[l])'
    BY <2>1, <2>4, <2>5 DEF Run, Precedes
  <2>7. Run(rest, l)' /\ Precedes(rest, inbox[l])'
    BY <2>1, <2>4, <2>5 DEF Run, Precedes
  <2>8. \A i \in DOMAIN clientList, c \in Clients : c = clientList[i] =>
          /\ i > to => Before(Heard(c), l, bytes)'
          /\ i = to => Before(Heard(c), l, rest)'
    BY <1>6, <2>1 DEF Broadcast, Before
  <2> QED
    BY <2>1, <2>6, <2>7, <2>8 DEF Broadcast
<1>7. ASSUME NEW c \in Clients, Connect(c) \/ Read(c) \/ Leave(c) \/ Reject(c)
      PROVE  Broadcast'
  <2>1. UNCHANGED server /\ UNCHANGED <<inbox, said>> /\ ~Greet /\ ~SendOne
    BY <1>7 DEF Connect, Read, Leave, Reject, server, Greet, SendOne, BeginLoop
  <2> QED
    BY <1>1, <1>5, <2>1, HeardStep DEF server
<1> QED
  BY <1>1, <1>2, <1>3, <1>4, <1>6, <1>7
  DEF Next, Server, MasterIdle, Accept, Greet, BeginLoop, LoopEnds, NotReady, Ready, Name, NextSlot,
      ReceiveThrows, ReceiveEnd, SendThrows, EchoDone, Say, server

-----------------------------------------------------------------------------
(* Nothing that is due is lost, except behind a reset connection.          *)

LEMMA InSet ==
  ASSUME NEW S, NEW s \in Seq(S)
  PROVE  /\ \A e \in S : ToSet(Append(s, e)) = ToSet(s) \cup {e}
         /\ s # <<>> => ToSet(s) \subseteq {Head(s)} \cup ToSet(Tail(s))
         /\ s = <<>> => ToSet(s) = {}
<1>1. ASSUME NEW e \in S
      PROVE  ToSet(Append(s, e)) = ToSet(s) \cup {e}
  BY SeqAppended DEF ToSet
<1>2. ASSUME s # <<>>
      PROVE  ToSet(s) \subseteq {Head(s)} \cup ToSet(Tail(s))
  <2> SUFFICES ASSUME NEW i \in DOMAIN s, s[i] # Head(s)
               PROVE  s[i] \in ToSet(Tail(s))
    BY DEF ToSet
  <2>1. \A c : In(c, s) <=> c = Head(s) \/ In(c, Tail(s))
    BY <1>2, InTaken
  <2> QED
    BY <2>1 DEF In, ToSet
<1>3. ASSUME s = <<>>
      PROVE  ToSet(s) = {}
  BY <1>3, SeqPlaces DEF ToSet
<1> QED
  BY <1>1, <1>2, <1>3

(* Clients that lose nothing, and resets that stay. *)
NothingLost ==
  \A c \in Clients :
    /\ conn[c] = "reset" => conn'[c] = "reset"
    /\ In(c, clientList) /\ conn'[c] = "open" =>
         conn[c] = "open" /\ due'[c] = due[c] /\ ToSet(Heard(c)) \subseteq ToSet(Heard(c)')

LEMMA AccountedStep ==
  ASSUME TypeOK, Positions, Listed, Fresh, Accounted, Next
  PROVE  Accounted'
<1>0. /\ \A i \in DOMAIN clientList : i \in Nat \ {0} /\ clientList[i] \in Clients
                                        /\ In(clientList[i], clientList)
      /\ DOMAIN clientList = 1..Len(clientList) /\ Len(clientList) \in Nat
  BY SeqPlaces DEF TypeOK, In
<1>1. ASSUME NothingLost, clientList' = clientList, pc' = "receive" => pc = "receive" /\ slot' = slot,
             NEW i \in DOMAIN clientList, LostBehindReset(i)
      PROVE  LostBehindReset(i)'
  <2>1. PICK j \in 1..(i - 1) : conn[clientList[j]] = "reset" /\ (pc = "receive" => j # slot)
    BY <1>1 DEF LostBehindReset
  <2>2. j \in DOMAIN clientList
    BY <1>0, <2>1
  <2>3. conn'[clientList[j]] = "reset"
    BY <1>0, <1>1, <2>1, <2>2 DEF NothingLost
  <2> QED
    BY <1>1, <2>1, <2>3 DEF LostBehindReset
<1>2. ASSUME NothingLost, clientList' = clientList, pc' = "receive" => pc = "receive" /\ slot' = slot,
             \A i \in DOMAIN clientList, c \in Clients :
               c = clientList[i] /\ conn'[c] = "open" =>
                 \A m \in due[c] \ ToSet(Heard(c)') :
                   (\/ pc = "echo" /\ i # slot /\ i > to /\ m \in ToSet(bytes)
                    \/ pc = "echo" /\ i # slot /\ i = to /\ m \in ToSet(rest))
                   => (\/ LostBehindReset(i)'
                       \/ pc' = "echo" /\ i # slot' /\ i > to' /\ m \in ToSet(bytes')
                       \/ pc' = "echo" /\ i # slot' /\ i = to' /\ m \in ToSet(rest'))
      PROVE  Accounted'
  <2> SUFFICES ASSUME NEW i \in DOMAIN clientList, NEW c \in Clients,
                      c = clientList[i], conn'[c] = "open", NEW m \in due'[c] \ ToSet(Heard(c)')
               PROVE  \/ LostBehindReset(i)'
                      \/ pc' = "echo" /\ i # slot' /\ i > to' /\ m \in ToSet(bytes')
                      \/ pc' = "echo" /\ i # slot' /\ i = to' /\ m \in ToSet(rest')
    BY <1>2 DEF Accounted
  <2>1. conn[c] = "open" /\ m \in due[c] \ ToSet(Heard(c)) /\ m \in due[c] \ ToSet(Heard(c)')
    BY <1>0, <1>2 DEF NothingLost
  <2>2. \/ LostBehindReset(i)
        \/ pc = "echo" /\ i # slot /\ i > to /\ m \in ToSet(bytes)
        \/ pc = "echo" /\ i # slot /\ i = to /\ m \in ToSet(rest)
    BY <2>1 DEF Accounted
  <2> QED
    BY <1>1, <1>2, <2>1, <2>2
<1>3. ASSUME UNCHANGED <<clientList, conn, due, outbox, got>>
      PROVE  NothingLost
  BY <1>3 DEF NothingLost, Heard
<1>4. CASE MasterIdle \/ LoopEnds \/ NotReady \/ Ready \/ ReceiveThrows
  <2>1. /\ UNCHANGED <<clientList, conn, due, outbox, got>>
        /\ pc # "echo" /\ pc' # "receive"
    BY <1>4 DEF MasterIdle, BeginLoop, LoopEnds, NotReady, NextSlot, Ready, ReceiveThrows
  <2> QED
    BY <1>2, <1>3, <2>1
<1>5. CASE Name
  <2>1. /\ UNCHANGED <<clientList, conn, due, outbox, got>> /\ pc = "name"
        /\ pc' = "receive" => slot' = slot /\ conn[l] # "reset"
    BY <1>5 DEF Name, NextSlot
  <2>2. \A i \in DOMAIN clientList : LostBehindReset(i) => LostBehindReset(i)'
    BY <2>1 DEF LostBehindReset, l
  <2> QED
    BY <2>1, <2>2 DEF Accounted, Heard
<1>6. CASE Accept
  <2> DEFINE h == Head(pending)
  <2>1. h \in Clients /\ In(h, pending)
    BY <1>6, SeqTaken DEF Accept, TypeOK, In
  <2>2. due[h] = {}
    BY <2>1 DEF Fresh, NotGreeted
  <2>3. /\ DOMAIN Append(clientList, h) = DOMAIN clientList \cup {Len(clientList) + 1}
        /\ \A i \in DOMAIN clientList : Append(clientList, h)[i] = clientList[i]
        /\ Append(clientList, h)[Len(clientList) + 1] = h
    <3>1. clientList \in Seq(Clients)
      BY DEF TypeOK
    <3> HIDE DEF h
    <3> QED
      BY <2>1, <3>1, SeqAppended
  <2>4. /\ clientList' = Append(clientList, h) /\ pc = "master" /\ pc' = "greet"
        /\ UNCHANGED <<conn, due, outbox, got>> /\ \A c \in Clients : Heard(c)' = Heard(c)
    BY <1>6 DEF Accept, Heard
  <2> HIDE DEF h
  <2>5. \A i \in DOMAIN clientList : \A j \in 1..(i - 1) : j \in DOMAIN clientList
    BY <1>0
  <2>6. \A i \in DOMAIN clientList : LostBehindReset(i) => LostBehindReset(i)'
    BY <2>3, <2>4, <2>5 DEF LostBehindReset
  <2>7. \A i \in DOMAIN clientList, c \in Clients : c = clientList[i] /\ conn[c] = "open" =>
          \A m \in due[c] \ ToSet(Heard(c)) : LostBehindReset(i)'
    BY <2>4, <2>6 DEF Accounted
  <2> QED
    BY <2>2, <2>3, <2>4, <2>7 DEF Accounted
<1>7. CASE Greet
  <2>1. PICK c \in Clients : c = Last(clientList)
    BY <1>7, AtLast DEF Greet
  <2>2. /\ UNCHANGED <<clientList, conn, due>> /\ pc = "greet" /\ pc' = "loop"
    BY <1>7 DEF Greet, BeginLoop
  <2>3. HearsNoMore \/ \E d \in Clients : Hears(d, Motd)
    BY <1>7, HeardStep DEF Greet, SendOne
  <2>4. ASSUME NEW d \in Clients, Hears(d, Motd)
        PROVE  \A e \in Clients : ToSet(Heard(e)) \subseteq ToSet(Heard(e)')
    <3>1. ToSet(Append(Heard(d), Motd)) = ToSet(Heard(d)) \cup {Motd}
      BY HeardType, InSet, MessageType
    <3> QED
      BY <2>4, <3>1 DEF Hears
  <2>5. NothingLost
    BY <2>2, <2>3, <2>4 DEF NothingLost, HearsNoMore
  <2> QED
    BY <1>2, <2>2, <2>5
<1>8. CASE ReceiveData
  <2>1. /\ UNCHANGED <<clientList, slot, conn>> /\ pc = "receive" /\ pc' = "echo" /\ to' = 1
        /\ bytes' = inbox[l] /\ rest' = inbox[l] /\ \A c \in Clients : Heard(c)' = Heard(c)
        /\ due' = [c \in Clients |->
                     IF c # l /\ conn[c] = "open" /\ Contains(clientList, c)
                     THEN due[c] \cup ToSet(inbox[l]) ELSE due[c]]
    BY <1>8 DEF ReceiveData, Heard
  <2>2. \A i \in DOMAIN clientList : LostBehindReset(i) => LostBehindReset(i)'
    BY <2>1 DEF LostBehindReset
  <2> SUFFICES ASSUME NEW i \in DOMAIN clientList, NEW c \in Clients,
                      c = clientList[i], conn[c] = "open", NEW m \in due'[c] \ ToSet(Heard(c))
               PROVE  \/ LostBehindReset(i)'
                      \/ i # slot /\ i > 1 /\ m \in ToSet(inbox[l])
                      \/ i # slot /\ i = 1 /\ m \in ToSet(inbox[l])
    BY <2>1 DEF Accounted
  <2>3. CASE m \in due[c]
    BY <2>1, <2>2, <2>3 DEF Accounted
  <2>4. CASE m \notin due[c]
    <3>1. c # l /\ m \in ToSet(inbox[l])
      BY <2>1, <2>4
    <3>2. i # slot /\ (i > 1 \/ i = 1)
      BY <1>0, <3>1 DEF l
    <3> QED
      BY <3>1, <3>2
  <2> QED
    BY <2>3, <2>4
<1>9. CASE ReceiveEnd
  <2> PICK b \in Clients : b = l
    BY <1>9, AtSlot DEF ReceiveEnd, AtClient
  <2>1. /\ clientList' = RemoveAt(clientList, slot) /\ pc = "receive" /\ pc' = "loop"
        /\ conn' = [conn EXCEPT ![b] = "closed"] /\ UNCHANGED due
        /\ \A c \in Clients : c # b => outbox'[c] = outbox[c] /\ got'[c] = got[c]
    BY <1>9 DEF ReceiveEnd, NextSlot, TypeOK
  <2>2. slot \in DOMAIN clientList /\ slot \in Nat /\ clientList[slot] = b
    BY <1>0, <1>9, AtSlot DEF ReceiveEnd, AtClient, l
  <2> DEFINE From(i) == IF i < slot THEN i ELSE i + 1
  <2>3. /\ \A i \in DOMAIN RemoveAt(clientList, slot) :
              From(i) \in DOMAIN clientList /\ From(i) # slot
              /\ RemoveAt(clientList, slot)[i] = clientList[From(i)]
        /\ DOMAIN RemoveAt(clientList, slot) = 1..(Len(clientList) - 1)
    <3>1. clientList \in Seq(Clients)
      BY DEF TypeOK
    <3>2. RemoveAt(clientList, slot) \in Seq(Clients)
          /\ Len(RemoveAt(clientList, slot)) = Len(clientList) - 1
      BY <2>2, <3>1, SeqRemoved
    <3>3. DOMAIN RemoveAt(clientList, slot) = 1..(Len(clientList) - 1)
      BY <3>2, SeqPlaces
    <3>4. \A i \in DOMAIN RemoveAt(clientList, slot) :
            From(i) \in DOMAIN clientList /\ From(i) # slot
            /\ RemoveAt(clientList, slot)[i] = clientList[From(i)]
      <4>1. \A i \in DOMAIN RemoveAt(clientList, slot) :
              LET j == IF i < slot THEN i ELSE i + 1
              IN  /\ j \in DOMAIN clientList /\ j # slot
                  /\ RemoveAt(clientList, slot)[i] = clientList[j]
        <5>1. \A s \in Seq(Clients) : \A n \in DOMAIN s : \A i \in DOMAIN RemoveAt(s, n) :
                LET j == IF i < n THEN i ELSE i + 1
                IN  j \in DOMAIN s /\ j # n /\ RemoveAt(s, n)[i] = s[j]
          BY SeqRemoved
        <5> QED
          BY <2>2, <3>1, <5>1
      <4> QED
        BY <4>1
    <3> QED
      BY <3>3, <3>4
  <2>4. ASSUME NEW i \in DOMAIN RemoveAt(clientList, slot), LostBehindReset(From(i))
        PROVE  LostBehindReset(i)'
    <3>1. PICK j \in 1..(From(i) - 1) : conn[clientList[j]] = "reset" /\ j # slot
      BY <2>1, <2>4 DEF LostBehindReset
    <3> DEFINE k == IF j < slot THEN j ELSE j - 1
    <3>2. k \in 1..(i - 1) /\ From(k) = j /\ k \in DOMAIN RemoveAt(clientList, slot)
          /\ j \in DOMAIN clientList
      BY <1>0, <2>2, <2>3, <3>1
    <3> HIDE DEF k, From
    <3>3. clientList[j] # b /\ clientList[j] \in Clients
      BY <1>0, <2>2, <3>1, <3>2 DEF Listed, NoneTwice
    <3>4. conn'[clientList'[k]] = "reset"
      BY <2>1, <2>3, <3>1, <3>2, <3>3 DEF TypeOK
    <3> QED
      BY <2>1, <3>2, <3>4 DEF LostBehindReset
  <2> HIDE DEF From
  <2>5. ASSUME NEW i \in DOMAIN clientList', NEW c \in Clients, c = clientList'[i], conn'[c] = "open"
        PROVE  /\ From(i) \in DOMAIN clientList /\ c = clientList[From(i)] /\ conn[c] = "open"
               /\ due'[c] = due[c] /\ Heard(c)' = Heard(c)
    <3>1. c # b
      BY <2>1, <2>5 DEF TypeOK
    <3> QED
      BY <2>1, <2>3, <2>5, <3>1 DEF Heard, TypeOK
  <2>6. ASSUME NEW i \in DOMAIN clientList', NEW c \in Clients, c = clientList'[i], conn'[c] = "open",
               NEW m \in due'[c] \ ToSet(Heard(c)')
        PROVE  LostBehindReset(i)'
    <3>1. LostBehindReset(From(i))
      BY <2>1, <2>5, <2>6 DEF Accounted
    <3> QED
      BY <2>1, <2>4, <3>1
  <2> QED
    BY <2>6 DEF Accounted
<1>10. CASE SendOne
  <2> PICK c \in Clients : c = cl
    BY <1>10, AtTo DEF SendOne
  <2> PICK m \in Said : m = Head(rest)
    BY <1>10, SeqTaken DEF SendOne, TypeOK
  <2>1. /\ UNCHANGED <<pc, clientList, slot, to, bytes, conn, due>> /\ pc = "echo"
        /\ rest' = Tail(rest) /\ rest # <<>> /\ rest \in Seq(Said)
    BY <1>10 DEF SendOne, TypeOK
  <2>2. Hears(c, m)
    BY <1>10, SendOneHeard
  <2>3. ToSet(Append(Heard(c), m)) = ToSet(Heard(c)) \cup {m}
    <3>1. Heard(c) \in Seq(Messages) /\ m \in Messages
      BY HeardType DEF Messages
    <3> QED
      BY <3>1, InSet
  <2>4. NothingLost
    BY <2>1, <2>2, <2>3 DEF NothingLost, Hears
  <2>5. ToSet(rest) \subseteq {m} \cup ToSet(Tail(rest))
    BY <2>1, InSet
  <2>6. ASSUME NEW i \in DOMAIN clientList, NEW d \in Clients, d = clientList[i],
               NEW n \in due[d] \ ToSet(Heard(d)'), i = to, n \in ToSet(rest)
        PROVE  n \in ToSet(Tail(rest))
    <3>1. d = c
      BY <2>6 DEF cl
    <3> QED
      BY <2>2, <2>3, <2>5, <2>6, <3>1 DEF Hears
  <2> QED
    BY <1>2, <2>1, <2>4, <2>6
<1>11. CASE NextClient
  <2>1. /\ UNCHANGED <<pc, clientList, slot, bytes, conn, due, outbox, got>> /\ pc = "echo"
        /\ rest' = bytes /\ to' = to + 1 /\ (to = slot \/ rest = <<>>)
    BY <1>11 DEF NextClient
  <2>2. rest = <<>> => ToSet(rest) = {}
    BY InSet DEF TypeOK
  <2>3. \A i \in DOMAIN clientList : i > to => i > to + 1 \/ i = to + 1
    BY <1>0 DEF TypeOK
  <2> QED
    BY <1>2, <1>3, <2>1, <2>2, <2>3
<1>12. CASE SendThrows
  <2>1. /\ UNCHANGED <<clientList, conn, due, outbox, got>> /\ pc = "echo" /\ pc' = "loop"
        /\ to <= Len(clientList) /\ conn[cl] = "reset"
    BY <1>12 DEF SendThrows, NextSlot
  <2>2. \A i \in DOMAIN clientList : i > to => LostBehindReset(i)'
    <3>1. \A i \in DOMAIN clientList : i > to => to \in 1..(i - 1)
      BY <1>0 DEF TypeOK
    <3> QED
      BY <2>1, <3>1 DEF LostBehindReset, cl
  <2>3. \A i \in DOMAIN clientList, c \in Clients : c = clientList[i] /\ conn'[c] = "open" => i # to
    BY <2>1 DEF cl
  <2> QED
    BY <1>2, <1>3, <2>1, <2>2, <2>3
<1>13. CASE EchoDone
  <2>1. /\ UNCHANGED <<clientList, conn, due, outbox, got>> /\ pc = "echo" /\ pc' = "loop"
        /\ to > Len(clientList)
    BY <1>13 DEF EchoDone, NextSlot
  <2>2. \A i \in DOMAIN clientList : ~(i > to) /\ i # to
    <3>1. /\ to \in 1..(Len(clientList) + 1) /\ Len(clientList) \in Nat
          /\ DOMAIN clientList = 1..Len(clientList)
      BY <1>0 DEF TypeOK
    <3> QED
      BY <2>1, <3>1
  <2> QED
    BY <1>2, <1>3, <2>1, <2>2
<1>14. ASSUME NothingLost, UNCHANGED server
       PROVE  Accounted'
  BY <1>2, <1>14 DEF server
<1>15. ASSUME NEW c \in Clients, Connect(c)
       PROVE  Accounted'
  <2>1. ~In(c, clientList)
    BY <1>15 DEF Connect, Listed
  <2>2. NothingLost /\ UNCHANGED server
    BY <1>15, <2>1 DEF Connect, NothingLost, Heard, TypeOK
  <2> QED
    BY <1>14, <2>2
<1>16. ASSUME NEW c \in Clients, Say(c)
       PROVE  Accounted'
  <2>1. UNCHANGED <<clientList, conn, due, outbox, got>> /\ UNCHANGED server
    BY <1>16 DEF Say, server
  <2> QED
    BY <1>3, <1>14, <2>1
<1>17. ASSUME NEW c \in Clients, Read(c) \/ Leave(c) \/ Reject(c)
       PROVE  Accounted'
  <2>1. UNCHANGED server /\ ~Greet /\ ~SendOne
    BY <1>17 DEF Read, Leave, Reject, server, Greet, SendOne, BeginLoop
  <2>2. HearsNoMore
    BY <2>1, HeardStep
  <2>3. \A d \in Clients : /\ conn[d] = "reset" => conn'[d] = "reset"
                           /\ conn'[d] = "open" => conn[d] = "open" /\ due'[d] = due[d]
    BY <1>17 DEF Read, Leave, Reject, TypeOK
  <2>4. NothingLost
    BY <2>2, <2>3 DEF NothingLost, HearsNoMore
  <2> QED
    BY <1>14, <2>1, <2>4
<1> QED
  BY <1>4, <1>5, <1>6, <1>7, <1>8, <1>9, <1>10, <1>11, <1>12, <1>13, <1>15, <1>16, <1>17
  DEF Next, Server

-----------------------------------------------------------------------------
(* The theorems.                                                           *)

LEMMA EchoInit == Init => EchoInv
<1> SUFFICES ASSUME Init PROVE EchoInv
  OBVIOUS
<1>1. /\ <<>> \in Seq(Clients) /\ <<>> \in Seq(Said) /\ <<>> \in Seq(Messages) /\ Len(<<>>) = 0
      /\ \A c \in Clients : Heard(c) = <<>>
  BY ConcatEmptySeq DEF Init, Heard
<1>2. Cardinality(Clients) \in Nat /\ Backlog \in Nat /\ Room \in Nat
      /\ \A c \in Clients : MaxSaid[c] \in Nat
  BY EchoAssumption, FS_CardinalityType
<1>3. TypeOK
  BY <1>1, <1>2 DEF Init, TypeOK, Connections
<1>4. Positions /\ Fresh
  BY DEF Init, Positions, AtClient, Fresh
<1>5. Listed
  BY <1>1, SeqPlaces DEF Init, Listed, In, NoneTwice
<1>6. EchoInOrder /\ SaidBefore /\ Waiting
  BY <1>1, SeqPlaces DEF Init, EchoInOrder, SaidBefore, Waiting, Run, Before
<1>7. Broadcast /\ Accounted
  BY <1>1, SeqPlaces DEF Init, Broadcast, Accounted
<1> QED
  BY <1>3, <1>4, <1>5, <1>6, <1>7 DEF EchoInv

LEMMA EchoStep == EchoInv /\ [Next]_vars => EchoInv'
<1> SUFFICES ASSUME EchoInv, [Next]_vars PROVE EchoInv'
  OBVIOUS
<1>1. CASE Next
  <2>1. TypeOK'
    BY <1>1, TypeStep DEF EchoInv
  <2>2. Positions' /\ Listed' /\ Fresh'
    BY <1>1, PositionsStep, ListedStep, FreshStep DEF EchoInv
  <2>3. EchoInOrder' /\ Waiting' /\ SaidBefore'
    BY <1>1, <2>1, OrderStep, WaitingStep, SaidBeforeStep DEF EchoInv
  <2>4. Broadcast' /\ Accounted'
    BY <1>1, BroadcastStep, AccountedStep DEF EchoInv
  <2> QED
    BY <2>1, <2>2, <2>3, <2>4 DEF EchoInv
<1>2. CASE UNCHANGED vars
  <2>1. (TypeOK /\ Positions /\ Listed /\ Fresh)'
    BY <1>2 DEF vars, EchoInv, TypeOK, Positions, AtClient, Listed, In, NoneTwice, Fresh, NotGreeted
  <2>2. l' = l /\ \A c \in Clients : Heard(c)' = Heard(c)
    BY <1>2 DEF vars, l, Heard
  <2>3. EchoInOrder' /\ Waiting' /\ SaidBefore'
    BY <1>2, <2>2 DEF vars, EchoInv, EchoInOrder, Waiting, Run, Before, SaidBefore
  <2>4. Broadcast'
    BY <1>2, <2>2 DEF vars, EchoInv, Broadcast, Run, Precedes, Before
  <2>5. Accounted'
    BY <1>2, <2>2 DEF vars, EchoInv, Accounted, LostBehindReset
  <2> QED
    BY <2>1, <2>3, <2>4, <2>5 DEF EchoInv
<1> QED
  BY <1>1, <1>2

(* The inductive invariant of the loop in main, with the clients that      *)
(* connect, send, read, close and reset in between its statements.         *)
THEOREM EchoInvariant == Spec => []EchoInv
<1> QED
  BY EchoInit, EchoStep, PTL DEF Spec

(* What the server and the clients keep has the types it is declared with, *)
(* whatever is erased from the vector that the loop runs over.             *)
THEOREM EchoTypes == Spec => []TypeOK
<1>1. EchoInv => TypeOK
  BY DEF EchoInv
<1> QED
  BY <1>1, EchoInvariant, PTL

(* A client hears each other client's messages in order, none twice, and   *)
(* never its own, whoever leaves in the middle of a broadcast.             *)
THEOREM EchoedInOrder == Spec => []EchoInOrder
<1>1. EchoInv => EchoInOrder
  BY DEF EchoInv
<1> QED
  BY <1>1, EchoInvariant, PTL

(* Each connection is in one place, waiting for accept or in clientList,   *)
(* until its socket is destroyed.                                          *)
THEOREM ConnectionsListedOnce == Spec => []ListedOnce
<1>1. ASSUME EchoInv
      PROVE  ListedOnce
  <2> DEFINE all == pending \o clientList
  <2>1. pending \in Seq(Clients) /\ clientList \in Seq(Clients)
    BY <1>1 DEF EchoInv, TypeOK
  <2>2. /\ DOMAIN all = 1..(Len(pending) + Len(clientList))
        /\ Len(pending) \in Nat /\ DOMAIN pending = 1..Len(pending)
        /\ Len(clientList) \in Nat /\ DOMAIN clientList = 1..Len(clientList)
    BY <2>1, SeqJoined, SeqPlaces
  <2>3. ASSUME NEW i \in DOMAIN all
        PROVE  \/ i \in DOMAIN pending /\ all[i] = pending[i]
               \/ i - Len(pending) \in DOMAIN clientList /\ all[i] = clientList[i - Len(pending)]
    <3>1. /\ i \in DOMAIN pending \/ i - Len(pending) \in DOMAIN clientList
          /\ Len(pending) + (i - Len(pending)) = i
      BY <2>2
    <3>2. i \in DOMAIN pending => all[i] = pending[i]
      BY <2>1, SeqJoined
    <3>3. \A k \in DOMAIN clientList : all[Len(pending) + k] = clientList[k]
      BY <2>1, SeqJoined
    <3> HIDE DEF all
    <3> QED
      BY <3>1, <3>2, <3>3
  <2>4. \A c : In(c, all) <=> In(c, pending) \/ In(c, clientList)
    <3>1. /\ \A i \in DOMAIN pending : i \in DOMAIN all /\ all[i] = pending[i]
          /\ \A i \in DOMAIN clientList :
               Len(pending) + i \in DOMAIN all /\ all[Len(pending) + i] = clientList[i]
      BY <2>1, SeqJoined
    <3> HIDE DEF all
    <3>2. ASSUME NEW c, In(c, all)
          PROVE  In(c, pending) \/ In(c, clientList)
      BY <2>3, <3>2 DEF In
    <3>3. ASSUME NEW c, In(c, pending) \/ In(c, clientList)
          PROVE  In(c, all)
      BY <3>1, <3>3 DEF In
    <3> QED
      BY <3>2, <3>3
  <2>5. \A i \in DOMAIN pending : pending[i] \in Clients /\ In(pending[i], pending)
    BY <2>1, SeqPlaces DEF In
  <2>6. \A i \in DOMAIN clientList : clientList[i] \in Clients /\ In(clientList[i], clientList)
    BY <2>1, SeqPlaces DEF In
  <2> HIDE DEF all
  <2>7. ASSUME NEW i \in DOMAIN all, NEW j \in DOMAIN all, all[i] = all[j]
        PROVE  i = j
    <3>1. CASE i \in DOMAIN pending /\ all[i] = pending[i] /\ j \in DOMAIN pending /\ all[j] = pending[j]
      BY <1>1, <2>7, <3>1 DEF EchoInv, Listed, NoneTwice
    <3>2. CASE /\ i - Len(pending) \in DOMAIN clientList /\ all[i] = clientList[i - Len(pending)]
               /\ j - Len(pending) \in DOMAIN clientList /\ all[j] = clientList[j - Len(pending)]
      <4>1. i - Len(pending) = j - Len(pending)
        BY <1>1, <2>7, <3>2 DEF EchoInv, Listed, NoneTwice
      <4> QED
        BY <2>2, <4>1
    <3>3. \A c \in Clients : ~(In(c, pending) /\ In(c, clientList))
      BY <1>1 DEF EchoInv, Listed
    <3> QED
      BY <2>3, <2>5, <2>6, <2>7, <3>1, <3>2, <3>3
  <2>8. ToSet(all) = {c \in Clients : conn[c] \notin {"none", "closed"}}
    <3>1. \A c : c \in ToSet(all) <=> In(c, all)
      BY DEF ToSet, In
    <3>2. \A c : In(c, pending) \/ In(c, clientList) => c \in Clients
      BY <2>5, <2>6 DEF In
    <3>3. \A c \in Clients : In(c, pending) \/ In(c, clientList) <=> conn[c] \notin {"none", "closed"}
      BY <1>1 DEF EchoInv, Listed
    <3> QED
      BY <2>4, <3>1, <3>2, <3>3
  <2> QED
    BY <2>7, <2>8 DEF ListedOnce, IsInjective, all
<1> QED
  BY <1>1, EchoInvariant, PTL

(* Outside a broadcast, a client that misses a message it was due is       *)
(* behind a client whose connection was reset.                             *)
THEOREM OnlyMissedBehindReset == Spec => []MissedBehindReset
<1>1. ASSUME EchoInv
      PROVE  MissedBehindReset
  <2> SUFFICES ASSUME pc # "echo", NEW i \in DOMAIN clientList, Missed(clientList[i])
               PROVE  \E j \in 1..(i - 1) : conn[clientList[j]] = "reset"
    BY DEF MissedBehindReset
  <2>1. PICK c \in Clients : c = clientList[i]
    BY <1>1, SeqPlaces DEF EchoInv, TypeOK
  <2>2. PICK m \in due[c] \ ToSet(Heard(c)) : conn[c] = "open"
    BY <2>1 DEF Missed
  <2> QED
    BY <1>1, <2>1, <2>2 DEF EchoInv, Accounted, LostBehindReset
<1> QED
  BY <1>1, EchoInvariant, PTL

=============================================================================
