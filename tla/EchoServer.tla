------------------------------ MODULE EchoServer ------------------------------
(***************************************************************************)
(* The echo server of examples/echo_serv: one thread that polls the master *)
(* socket and every client of clientList in turn, and forwards what one    *)
(* client sent to all the others; and the clients, which connect, send,    *)
(* read and leave whenever they like, between any two system calls of the  *)
(* server.                                                                 *)
(*                                                                         *)
(* A message is what a client sent in one piece; receive returns all the   *)
(* messages that wait, and send goes on message by message.                *)
(***************************************************************************)
EXTENDS Naturals, SequencesExt

CONSTANTS
  Clients,
  Readers,     \* the clients that keep reading (for fairness)
  MaxSaid,     \* bound: messages of each client
  Room,        \* messages the kernel holds for a client that does not read
  Backlog      \* connections that wait for accept, listen(Backlog)

ASSUME EchoAssumption ==
  /\ IsFiniteSet(Clients) /\ "server" \notin Clients
  /\ Readers \subseteq Clients
  /\ MaxSaid \in [Clients -> Nat]
  /\ {Room, Backlog} \subseteq Nat \ {0}

Said == UNION {[from : {c}, number : 1..MaxSaid[c]] : c \in Clients}

(* motd_message, which every client is sent first. *)
Motd == [from |-> "server", number |-> 0]

Messages == Said \cup {Motd}

VARIABLES
  pc,          \* the statement of main the server is at
  clientList,  \* the vector of connected sockets, by the client at the other end
  slot,        \* the loop's iterator, the position of l
  last,        \* the end the loop computed when it began
  bytes,       \* what receive returned
  to,          \* the inner loop's iterator, the position of cl
  rest,        \* the part of bytes that send still has to send to cl
  pending,     \* connections that wait for accept
  conn,        \* each client's connection, as the server's kernel sees it
  inbox,       \* what a client sent and the server has not received
  outbox,      \* what the server sent and the client has not read
  said,        \* how many messages each client has sent
  got,         \* all that each client has read, while it is there
  due          \* what the server received while the client was in clientList

server == <<pc, clientList, slot, last, bytes, to, rest>>
vars == <<pc, clientList, slot, last, bytes, to, rest,
          pending, conn, inbox, outbox, said, got, due>>

(* "fin": the client has closed; "reset": the kernel has learnt that nobody *)
(* is there any more; "closed": the server has destroyed its socket.       *)
Connections == {"none", "open", "fin", "reset", "closed"}

TypeOK ==
  /\ pc \in {"master", "greet", "loop", "name", "receive", "echo"}
  /\ {clientList, pending} \subseteq Seq(Clients) /\ Len(pending) <= Backlog
  /\ last \in 0..Cardinality(Clients) /\ slot \in 1..(last + 1)
  /\ to \in 1..(Len(clientList) + 1)
  /\ {bytes, rest} \subseteq Seq(Said)
  /\ conn \in [Clients -> Connections]
  /\ inbox \in [Clients -> Seq(Said)]
  /\ {outbox, got} \subseteq [Clients -> Seq(Messages)]
  /\ due \in [Clients -> SUBSET Said]
  /\ said \in [Clients -> Nat]
  /\ \A c \in Clients : Len(outbox[c]) <= Room /\ said[c] <= MaxSaid[c]

Init ==
  /\ pc = "master"
  /\ clientList = <<>> /\ slot = 1 /\ last = 0
  /\ bytes = <<>> /\ to = 1 /\ rest = <<>>
  /\ pending = <<>>
  /\ conn = [c \in Clients |-> "none"]
  /\ inbox = [c \in Clients |-> <<>>]
  /\ outbox = [c \in Clients |-> <<>>]
  /\ said = [c \in Clients |-> 0]
  /\ got = [c \in Clients |-> <<>>]
  /\ due = [c \in Clients |-> {}]

-----------------------------------------------------------------------------
(* The master socket.                                                      *)

BeginLoop ==
  /\ pc' = "loop" /\ slot' = 1 /\ last' = Len(clientList)

MasterIdle ==
  /\ pc = "master" /\ pending = <<>>
  /\ BeginLoop
  /\ UNCHANGED <<clientList, bytes, to, rest, pending, conn, inbox, outbox, said, got, due>>

(* readReady, accept and push_back. *)
Accept ==
  /\ pc = "master" /\ pending # <<>>
  /\ clientList' = Append(clientList, Head(pending))
  /\ pending' = Tail(pending)
  /\ pc' = "greet"
  /\ UNCHANGED <<slot, last, bytes, to, rest, conn, inbox, outbox, said, got, due>>

(* connectedAddress() and send(motd_message).  If the connection was reset  *)
(* either throws, and the client stays in the list.                        *)
Greet ==
  LET c == Last(clientList) IN
  /\ pc = "greet"
  /\ outbox' = IF conn[c] = "reset" THEN outbox ELSE [outbox EXCEPT ![c] = Append(@, Motd)]
  /\ BeginLoop
  /\ UNCHANGED <<clientList, bytes, to, rest, pending, conn, inbox, said, got, due>>

-----------------------------------------------------------------------------
(* The loop over clientList.                                               *)

NextSlot ==
  /\ pc' = "loop" /\ slot' = slot + 1
  /\ bytes' = <<>> /\ rest' = <<>> /\ to' = 1

LoopEnds ==
  /\ pc = "loop" /\ slot > last
  /\ pc' = "master" /\ slot' = 1 /\ last' = 0
  /\ UNCHANGED <<clientList, bytes, to, rest, pending, conn, inbox, outbox, said, got, due>>

(* POLLIN: data, the end of the data, or an error. *)
ReadReady(c) == inbox[c] # <<>> \/ conn[c] \in {"fin", "reset"}

l == clientList[slot]

NotReadyOnePastEnd ==
  /\ pc = "loop" /\ slot <= last + 1
  /\ slot <= Len(clientList) => ~ReadReady(l)
  /\ NextSlot
  /\ UNCHANGED <<clientList, last, pending, conn, inbox, outbox, said, got, due>>

(* After an erase the iterator runs past the new end, over what is left of *)
(* destroyed sockets, whose descriptors are closed: poll says POLLNVAL.     *)
NotReady ==
  /\ pc = "loop" /\ slot <= last
  /\ slot <= Len(clientList) => ~ReadReady(l)
  /\ NextSlot
  /\ UNCHANGED <<clientList, last, pending, conn, inbox, outbox, said, got, due>>

Ready ==
  /\ pc = "loop" /\ slot <= last
  /\ slot <= Len(clientList) /\ ReadReady(l)
  /\ pc' = "name"
  /\ UNCHANGED <<clientList, slot, last, bytes, to, rest, pending, conn, inbox, outbox, said, got, due>>

(* l.connectedAddress() throws ENOTCONN once the connection was reset. *)
Name ==
  /\ pc = "name"
  /\ IF conn[l] = "reset" THEN NextSlot
     ELSE pc' = "receive" /\ UNCHANGED <<slot, bytes, to, rest>>
  /\ UNCHANGED <<clientList, last, pending, conn, inbox, outbox, said, got, due>>

ReceiveData ==
  /\ pc = "receive" /\ inbox[l] # <<>>
  /\ bytes' = inbox[l] /\ rest' = inbox[l]
  /\ inbox' = [inbox EXCEPT ![l] = <<>>]
  /\ due' = [c \in Clients |->
               IF c # l /\ conn[c] = "open" /\ Contains(clientList, c)
               THEN due[c] \cup ToSet(inbox[l]) ELSE due[c]]
  /\ pc' = "echo" /\ to' = 1
  /\ UNCHANGED <<clientList, slot, last, pending, conn, outbox, said, got>>

(* The connection was reset after connectedAddress.  The kernel reports the *)
(* reset, or, if it knows that the client had closed, the end of the data. *)
ReceiveThrows ==
  /\ pc = "receive" /\ conn[l] = "reset"
  /\ NextSlot
  /\ UNCHANGED <<clientList, last, pending, conn, inbox, outbox, said, got, due>>

ReceiveEndPopsBack ==
  /\ pc = "receive" /\ inbox[l] = <<>> /\ conn[l] \in {"fin", "reset"}
  /\ clientList' = Front(clientList)
  /\ conn' = [conn EXCEPT ![l] = "closed"]
  /\ outbox' = [outbox EXCEPT ![l] = <<>>]
  /\ NextSlot
  /\ UNCHANGED <<last, pending, inbox, said, got, due>>

ReceiveEndForgets ==
  /\ pc = "receive" /\ inbox[l] = <<>> /\ conn[l] \in {"fin", "reset"}
  /\ NextSlot
  /\ UNCHANGED <<clientList, last, conn, outbox, pending, inbox, said, got, due>>

(* erase(remove(...)) moves the later clients one place forward and         *)
(* destroys l's socket; the iterator goes on to the next place.            *)
ReceiveEnd ==
  /\ pc = "receive" /\ inbox[l] = <<>> /\ conn[l] \in {"fin", "reset"}
  /\ clientList' = RemoveAt(clientList, slot)
  /\ conn' = [conn EXCEPT ![l] = "closed"]
  /\ outbox' = [outbox EXCEPT ![l] = <<>>]
  /\ NextSlot
  /\ UNCHANGED <<last, pending, inbox, said, got, due>>

cl == clientList[to]

SendOneToAll ==
  /\ pc = "echo" /\ to <= Len(clientList)
  /\ rest # <<>> /\ conn[cl] \in {"open", "fin"} /\ Len(outbox[cl]) < Room
  /\ outbox' = [outbox EXCEPT ![cl] = Append(@, Head(rest))]
  /\ rest' = Tail(rest)
  /\ UNCHANGED <<pc, clientList, slot, last, bytes, to, pending, conn, inbox, said, got, due>>

(* if (l != cl) cl.send(bytes): what the kernel has room for goes out, and  *)
(* the loop of send continues with the rest.                               *)
SendOne ==
  /\ pc = "echo" /\ to <= Len(clientList) /\ to # slot
  /\ rest # <<>> /\ conn[cl] \in {"open", "fin"} /\ Len(outbox[cl]) < Room
  /\ outbox' = [outbox EXCEPT ![cl] = Append(@, Head(rest))]
  /\ rest' = Tail(rest)
  /\ UNCHANGED <<pc, clientList, slot, last, bytes, to, pending, conn, inbox, said, got, due>>

NextClient ==
  /\ pc = "echo" /\ to <= Len(clientList) /\ (to = slot \/ rest = <<>>)
  /\ to' = to + 1 /\ rest' = bytes
  /\ UNCHANGED <<pc, clientList, slot, last, bytes, pending, conn, inbox, outbox, said, got, due>>

(* cl.send throws: the catch leaves the inner loop, and the clients that    *)
(* come after cl in the list get nothing.                                  *)
SendThrows ==
  /\ pc = "echo" /\ to <= Len(clientList) /\ to # slot
  /\ rest # <<>> /\ conn[cl] = "reset"
  /\ NextSlot
  /\ UNCHANGED <<clientList, last, pending, conn, inbox, outbox, said, got, due>>

EchoDoneEarly ==
  /\ pc = "echo" /\ to >= Len(clientList)
  /\ NextSlot
  /\ UNCHANGED <<clientList, last, pending, conn, inbox, outbox, said, got, due>>

EchoDone ==
  /\ pc = "echo" /\ to > Len(clientList)
  /\ NextSlot
  /\ UNCHANGED <<clientList, last, pending, conn, inbox, outbox, said, got, due>>

-----------------------------------------------------------------------------
(* The clients and the kernel.                                             *)

Connect(c) ==
  /\ conn[c] = "none" /\ Len(pending) < Backlog
  /\ conn' = [conn EXCEPT ![c] = "open"]
  /\ pending' = Append(pending, c)
  /\ UNCHANGED <<server, inbox, outbox, said, got, due>>

Say(c) ==
  /\ conn[c] = "open" /\ said[c] < MaxSaid[c]
  /\ said' = [said EXCEPT ![c] = @ + 1]
  /\ inbox' = [inbox EXCEPT ![c] = Append(@, [from |-> c, number |-> said[c] + 1])]
  /\ UNCHANGED <<server, pending, conn, outbox, got, due>>

Read(c) ==
  /\ conn[c] = "open" /\ outbox[c] # <<>>
  /\ got' = [got EXCEPT ![c] = Append(@, Head(outbox[c]))]
  /\ outbox' = [outbox EXCEPT ![c] = Tail(@)]
  /\ UNCHANGED <<server, pending, conn, inbox, said, due>>

(* A client that closes with data it has not read resets the connection. *)
Leave(c) ==
  /\ conn[c] = "open"
  /\ conn' = [conn EXCEPT ![c] = IF outbox[c] = <<>> THEN "fin" ELSE "reset"]
  /\ outbox' = [outbox EXCEPT ![c] = <<>>]
  /\ got' = [got EXCEPT ![c] = <<>>] /\ due' = [due EXCEPT ![c] = {}]
  /\ UNCHANGED <<server, pending, inbox, said>>

(* Data reaches the host of a client that has closed. *)
Reject(c) ==
  /\ conn[c] = "fin" /\ outbox[c] # <<>>
  /\ conn' = [conn EXCEPT ![c] = "reset"]
  /\ outbox' = [outbox EXCEPT ![c] = <<>>]
  /\ UNCHANGED <<server, pending, inbox, said, got, due>>

-----------------------------------------------------------------------------
Server ==
  \/ MasterIdle \/ Accept \/ Greet
  \/ LoopEnds \/ NotReady \/ Ready \/ Name
  \/ ReceiveData \/ ReceiveThrows \/ ReceiveEnd
  \/ SendOne \/ NextClient \/ SendThrows \/ EchoDone

Next ==
  \/ Server
  \/ \E c \in Clients : Connect(c) \/ Say(c) \/ Read(c) \/ Leave(c) \/ Reject(c)

Spec == Init /\ [][Next]_vars

(* The server's thread and the network go on, and the clients in Readers    *)
(* read what there is.                                                     *)
Fairness ==
  /\ WF_vars(Server)
  /\ \A c \in Clients : WF_vars(Reject(c))
  /\ \A c \in Readers : WF_vars(Read(c))

FairSpec == Spec /\ Fairness
-----------------------------------------------------------------------------
(* Properties.                                                             *)

(* What c has read and what is on its way to it. *)
Heard(c) == got[c] \o outbox[c]

Missed(c) == conn[c] = "open" /\ ~(due[c] \subseteq ToSet(Heard(c)))

(* "any message sent over telnet will be echoed to every connected telnet  *)
(* client" (examples/echo_serv/README.md): once the server is through with *)
(* a message, every client that is in the list and still there has it.     *)
EchoedToAll ==
  pc # "echo" => \A i \in DOMAIN clientList : ~Missed(clientList[i])

(* What the code does achieve: a client only misses messages if a client   *)
(* whose connection was reset is before it in the list (and stays there).  *)
MissedBehindReset ==
  pc # "echo" =>
    \A i \in DOMAIN clientList :
      Missed(clientList[i]) => \E j \in 1..(i - 1) : conn[clientList[j]] = "reset"

(* Whoever leaves or throws in the middle of a broadcast, and wherever the *)
(* iterator then points: a client hears each other client's messages in    *)
(* order, none twice, and never its own.                                   *)
EchoInOrder ==
  \A c \in Clients : \A i \in DOMAIN Heard(c) :
    LET m == Heard(c)[i]
    IN  /\ m.from # c
        /\ \A j \in 1..(i - 1) :
             Heard(c)[j].from = m.from => Heard(c)[j].number < m.number

(* Every connection is waiting for accept or in the list, once, until the  *)
(* server destroys its socket: erasing from the vector that is iterated    *)
(* over neither destroys another client's socket nor leaks one.            *)
ListedOnce ==
  LET all == pending \o clientList
  IN  /\ IsInjective(all)
      /\ ToSet(all) = {c \in Clients : conn[c] \notin {"none", "closed"}}

(* c waits for accept, for a receive, or to be removed. *)
Waits(c) ==
  /\ conn[c] \notin {"reset", "closed"}
  /\ Contains(pending, c) \/ inbox[c] # <<>> \/ conn[c] = "fin"

(* As long as every client reads what it is sent: a connection is accepted, *)
(* what its client sends is received, also when the iterator skipped it,   *)
(* and a client that has closed is removed, unless the connection was reset *)
(* first.                                                                  *)
EveryoneServed ==
  Readers = Clients => \A c \in Clients : Waits(c) ~> ~Waits(c)
=============================================================================
