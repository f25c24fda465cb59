------------------------------- MODULE Datagram -------------------------------
(***************************************************************************)
(* Messages: sockets of type dgram, the forms of send and receive that     *)
(* take an address, readReadySockets and bytesReady, with several threads  *)
(* that poll and receive on the same sockets, a network that loses and     *)
(* reorders, and the sockets' options and time-outs (module Options).      *)
(***************************************************************************)
EXTENDS Options, SequencesExt

CONSTANTS
  Platforms,   \* the builds: "posix", "windows"
  Senders,     \* remote sockets
  Unnamed,     \* the senders without an address (unix sockets that are not bound)
  Sockets,     \* the sockets of the process
  Readers,     \* its threads
  PollLists,   \* the vectors of sockets that readReadySockets is called with
  Millis,      \* the time-outs it is called with, in milliseconds
  Micros,      \* the time-outs that receiveTimeout is called with
  Settings,    \* bound: the builds, time-outs and options with which data is sent
  Direct,      \* bound: the sockets received from without readReadySockets
  Sizes,       \* the buffer sizes that receive is called with
  MaxSends,    \* bound: calls of send of each sender
  Lens,        \* the lengths of the data that send is called with
  MaxDatagram, \* the longest message the network takes
  NoAddress, NoMessage, NoSocket

ASSUME DatagramAssumption ==
  /\ Platforms \subseteq {"posix", "windows"}
  /\ Unnamed \subseteq Senders /\ NoAddress \notin Senders
  /\ \A list \in PollLists : list \in Seq(Sockets)
  /\ NoSocket \notin Sockets /\ Direct \subseteq Sockets
  /\ Millis \subseteq Int /\ Micros \subseteq Int
  /\ Lens \subseteq Nat /\ Sizes \subseteq Nat
  /\ {MaxSends, MaxDatagram} \subseteq Nat \ {0}

Messages == [from : Senders, to : Sockets, number : 1..MaxSends, len : 1..MaxDatagram]
ASSUME NoMessageAssumption == NoMessage \notin Messages

Calls == [to : Sockets \cup {NoSocket}, len : Lens, how : {"returned", "thrown"}]

VARIABLES
  platform,    \* the build
  asked,       \* the last receiveTimeout(us) that did not throw
  wait,        \* SO_RCVTIMEO: as long as the kernel lets a receive wait
  flag,        \* the last socketOption(boolOption, flag)
  option,      \* that option's int in the kernel
  number,      \* the last socketOption(intOption, number), in the kernel too
  sends,       \* the calls of send of each sender
  net,         \* messages on their way, or lost there
  queue,       \* messages at each socket
  thread,      \* where each thread is
  returned,    \* what receive returned: which message, how much, from whom
  lost         \* messages that receive(address&) took and then threw

settings == <<platform, asked, wait, flag, option, number>>
vars == <<platform, asked, wait, flag, option, number,
          sends, net, queue, thread, returned, lost>>

(* polled, millis: the arguments of readReadySockets, and what it returned  *)
(* in ready; on, size: the arguments of receive; told, measured: they come *)
(* from readReadySockets and bytesReady; raced: the sockets that another   *)
(* thread took a message from since; hand: what recvfrom returned.         *)
ThreadStates == [
  pc : {"idle", "polling", "receiving", "receivingFrom", "taken"},
  polled : PollLists \cup {<<>>}, millis : Millis \cup {0},
  ready : Seq(Sockets),
  on : Sockets \cup {NoSocket}, size : Nat,
  told : BOOLEAN, measured : BOOLEAN, raced : SUBSET Sockets,
  hand : Messages \cup {NoMessage}]

TypeOK ==
  /\ platform \in Platforms /\ asked \in Micros \cup {0}
  /\ wait \in Nat \cup {Forever}
  /\ flag \in BOOLEAN /\ {option, number} \subseteq Ints
  /\ sends \in [Senders -> Seq(Calls)] /\ \A s \in Senders : Len(sends[s]) <= MaxSends
  /\ net \subseteq Messages /\ lost \subseteq Messages
  /\ queue \in [Sockets -> Seq(Messages)]
  /\ thread \in [Readers -> ThreadStates]
  /\ \A t \in Readers : thread[t].pc = "taken" <=> thread[t].hand # NoMessage
  /\ returned \subseteq [message : Messages, size : 0..MaxDatagram,
                         form : {"receive", "receiveFrom"}, from : Senders \cup {NoAddress}]

Idle == [pc |-> "idle", polled |-> <<>>, millis |-> 0, ready |-> <<>>,
         on |-> NoSocket, size |-> 0, told |-> FALSE, measured |-> FALSE,
         raced |-> {}, hand |-> NoMessage]

Zero == [i \in 1..IntBytes |-> 0]

Init ==
  /\ platform \in Platforms
  /\ asked = 0 /\ wait = Forever
  /\ flag = FALSE /\ option = Zero /\ number = Zero
  /\ sends = [s \in Senders |-> <<>>]
  /\ net = {}
  /\ queue = [r \in Sockets |-> <<>>]
  /\ thread = [t \in Readers |-> Idle]
  /\ returned = {} /\ lost = {}

-----------------------------------------------------------------------------
(* Options: set before anything is sent, received or polled (a bound).     *)

SettingUp == thread = [t \in Readers |-> Idle] /\ \A s \in Senders : sends[s] = <<>>
SetUp == <<platform, asked, flag>> \in Settings /\ number = Zero

ReceiveTimeoutOfSend(us) ==
  /\ SettingUp
  /\ SetTimeout(platform, us) # Rejected
  /\ asked' = us
  /\ UNCHANGED <<platform, wait, flag, option, number, sends, net, queue, thread, returned, lost>>

(* receiveTimeout(us); it throws if the kernel rejects the time. *)
ReceiveTimeout(us) ==
  /\ SettingUp
  /\ SetTimeout(platform, us) # Rejected
  /\ asked' = us /\ wait' = SetTimeout(platform, us)
  /\ UNCHANGED <<platform, flag, option, number, sends, net, queue, thread, returned, lost>>

(* socketOption(boolOption, value). *)
SocketOption(value, garbage) ==
  /\ SettingUp
  /\ flag' = value /\ option' = BoolOption(IntOfBool(value, garbage))
  /\ UNCHANGED <<platform, asked, wait, number, sends, net, queue, thread, returned, lost>>

(* socketOption(intOption, value); some options the kernel then adjusts,    *)
(* this is one that it takes as it is.                                     *)
SocketIntOption(value) ==
  /\ SettingUp
  /\ number' = value
  /\ UNCHANGED <<platform, asked, wait, flag, option, sends, net, queue, thread, returned, lost>>

-----------------------------------------------------------------------------
(* send(data, len, to).  The kernel takes a message whole or not at all, so *)
(* the loop has one round, or none.                                        *)

Called(s, r, len, how) ==
  /\ SetUp /\ Len(sends[s]) < MaxSends
  /\ sends' = [sends EXCEPT ![s] = Append(@, [to |-> r, len |-> len, how |-> how])]
  /\ UNCHANGED <<settings, queue, thread, returned, lost>>

Message(s, r, len) == [from |-> s, to |-> r, number |-> Len(sends[s]) + 1, len |-> len]

SendInPieces(s, r, len) ==
  /\ len \in 1..MaxDatagram
  /\ net' = net \cup {Message(s, r, len), Message(s, r, 1)}
  /\ Called(s, r, len, "returned")

Send(s, r, len) ==
  /\ len \in 1..MaxDatagram
  /\ net' = net \cup {Message(s, r, len)}
  /\ Called(s, r, len, "returned")

(* 0 < 0: the loop does not begin. *)
SendNothing(s, len) ==
  /\ len = 0
  /\ Called(s, NoSocket, len, "returned")
  /\ UNCHANGED net

(* Any error: EMSGSIZE, a time-out, a signal, the answer that nobody is     *)
(* there.                                                                  *)
SendThrows(s, len) ==
  /\ len > 0
  /\ Called(s, NoSocket, len, "thrown")
  /\ UNCHANGED net

-----------------------------------------------------------------------------
(* The network. *)

Arrive(m) ==
  /\ net' = net \ {m}
  /\ queue' = [queue EXCEPT ![m.to] = Append(@, m)]
  /\ UNCHANGED <<settings, sends, thread, returned, lost>>

-----------------------------------------------------------------------------
(* readReadySockets(list, ms); readReady(ms) is the list of one socket.    *)

Becomes(t, state) ==
  /\ thread' = [thread EXCEPT ![t] = state]
  /\ UNCHANGED <<settings, sends, net, queue, returned, lost>>

ReadReadySockets(t, list, ms) ==
  /\ SetUp /\ thread[t] = Idle
  /\ Becomes(t, [Idle EXCEPT !.pc = "polling", !.polled = list, !.millis = ms])

HasData(r) == queue[r] # <<>>

(* The places in the list of the sockets with POLLIN. *)
Found(list) == {i \in DOMAIN list : HasData(list[i])}

PollReturnsAll(t) ==
  /\ thread[t].pc = "polling" /\ Found(thread[t].polled) # {}
  /\ Becomes(t, [Idle EXCEPT !.ready = thread[t].polled])

(* The sockets found, in the order of the list. *)
PollReturns(t) ==
  LET list == thread[t].polled IN
  /\ thread[t].pc = "polling" /\ Found(list) # {}
  /\ \E place \in [1..Cardinality(Found(list)) -> Found(list)] :
       /\ \A i, j \in DOMAIN place : i < j => place[i] < place[j]
       /\ Becomes(t, [Idle EXCEPT !.ready = [i \in DOMAIN place |-> list[place[i]]]])

PollTimesOutUnwrapped(t) ==
  /\ thread[t].pc = "polling" /\ Found(thread[t].polled) = {}
  /\ thread[t].millis = 0
  /\ Becomes(t, Idle)

PollTimesOut(t) ==
  /\ thread[t].pc = "polling" /\ Found(thread[t].polled) = {}
  /\ PollWait(thread[t].millis) # Forever
  /\ Becomes(t, Idle)

(* A signal. *)
PollThrows(t) ==
  /\ thread[t].pc = "polling"
  /\ Becomes(t, Idle)

-----------------------------------------------------------------------------
(* receive.  A thread goes through the sockets that it found ready, and may *)
(* ask how much there is; or it receives from any socket.                  *)

(* FIONREAD: the size of the first message (Linux), or of all that wait     *)
(* (Windows), of which the model keeps no more than that it is not less    *)
(* than the first and that each has at most MaxDatagram.                   *)
Fionread(r) ==
  IF queue[r] = <<>> THEN {0}
  ELSE IF platform = "posix" \/ Len(queue[r]) = 1 THEN {Head(queue[r]).len}
  ELSE Head(queue[r]).len..(Len(queue[r]) * MaxDatagram)

(* bytesReady(). *)
BytesReady(t) ==
  /\ thread[t].pc = "idle" /\ thread[t].ready # <<>> /\ ~thread[t].measured
  /\ \E n \in Fionread(Head(thread[t].ready)) :
       Becomes(t, [thread[t] EXCEPT !.measured = TRUE, !.size = n])

Receiving == {"receiving", "receivingFrom"}

ReceiveReady(t, n, pc) ==
  /\ thread[t].pc = "idle" /\ thread[t].ready # <<>>
  /\ IF thread[t].measured THEN n = thread[t].size ELSE n \in Sizes
  /\ Becomes(t, [thread[t] EXCEPT !.pc = pc, !.on = Head(thread[t].ready), !.size = n, !.told = TRUE])

Receive(t, r, n, pc) ==
  /\ SetUp /\ thread[t] = Idle
  /\ Becomes(t, [Idle EXCEPT !.pc = pc, !.on = r, !.size = n])

(* The thread when its receive is over. *)
After(state) ==
  IF Len(state.ready) < 2 THEN Idle
  ELSE [Idle EXCEPT !.ready = Tail(state.ready), !.raced = state.raced \ {state.on}]

(* recv and recvfrom return the beginning of the first message that fits    *)
(* the buffer, and discard the rest of it.                                 *)
CopiedUnsized(m, n) == n

Copied(m, n) == IF m.len < n THEN m.len ELSE n

Take(t, state) ==
  LET r == thread[t].on IN
  /\ HasData(r)
  /\ queue' = [queue EXCEPT ![r] = Tail(@)]
  /\ thread' = [u \in Readers |->
       IF u = t THEN state
       ELSE IF Contains(thread[u].ready, r)
            THEN [thread[u] EXCEPT !.raced = @ \cup {r}] ELSE thread[u]]

ReceiveReturns(t) ==
  LET m == Head(queue[thread[t].on]) IN
  /\ thread[t].pc = "receiving"
  /\ Take(t, After(thread[t]))
  /\ returned' = returned \cup
       {[message |-> m, size |-> Copied(m, thread[t].size),
         form |-> "receive", from |-> NoAddress]}
  /\ UNCHANGED <<settings, sends, net, lost>>

ReceiveFromTakes(t) ==
  /\ thread[t].pc = "receivingFrom"
  /\ Take(t, [thread[t] EXCEPT !.pc = "taken", !.hand = Head(queue[thread[t].on])])
  /\ UNCHANGED <<settings, sends, net, returned, lost>>

(* SO_RCVTIMEO has passed: recv fails, receive throws. *)
ReceiveTimesOut(t) ==
  /\ thread[t].pc \in Receiving /\ ~HasData(thread[t].on)
  /\ wait # Forever
  /\ Becomes(t, After(thread[t]))

(* Any other error: a signal, or the answer to an earlier send that nobody  *)
(* was there.                                                              *)
ReceiveThrows(t) ==
  /\ thread[t].pc \in Receiving
  /\ Becomes(t, After(thread[t]))

ReceivedFrom(t, from) ==
  LET m == thread[t].hand IN
  /\ thread[t].pc = "taken"
  /\ thread' = [thread EXCEPT ![t] = After(@)]
  /\ returned' = returned \cup
       {[message |-> m, size |-> Copied(m, thread[t].size),
         form |-> "receiveFrom", from |-> from]}
  /\ UNCHANGED <<settings, sends, net, queue, lost>>

AddressesLeft == (Senders \ Unnamed) \cup {NoAddress}

(* from = address(addr, addrLen).  recvfrom leaves addr, which is not       *)
(* initialized, as it was if the sender has no address.  What was there    *)
(* may look like no address, or like that of an earlier sender ...         *)
ReceiveFromReturns(t) ==
  /\ thread[t].pc = "taken"
  /\ \E from \in IF thread[t].hand.from \in Unnamed THEN AddressesLeft
                                                    ELSE {thread[t].hand.from} :
       ReceivedFrom(t, from)

(* ... or not, and the constructor throws. *)
ReceiveFromThrows(t) ==
  /\ thread[t].pc = "taken" /\ thread[t].hand.from \in Unnamed
  /\ lost' = lost \cup {thread[t].hand}
  /\ thread' = [thread EXCEPT ![t] = After(@)]
  /\ UNCHANGED <<settings, sends, net, queue, returned>>

-----------------------------------------------------------------------------
Step(t) ==
  \/ PollReturns(t) \/ PollTimesOut(t)
  \/ ReceiveReturns(t) \/ ReceiveFromTakes(t) \/ ReceiveTimesOut(t)
  \/ ReceiveFromReturns(t) \/ ReceiveFromThrows(t)

Next ==
  \/ \E us \in Micros : ReceiveTimeout(us)
  \/ \E value \in BOOLEAN, garbage \in Ints : SocketOption(value, garbage)
  \/ \E value \in Ints : SocketIntOption(value)
  \/ \E s \in Senders, len \in Lens :
       SendNothing(s, len) \/ SendThrows(s, len) \/ \E r \in Sockets : Send(s, r, len)
  \/ \E m \in net : Arrive(m)
  \/ \E t \in Readers :
       \/ \E list \in PollLists, ms \in Millis : ReadReadySockets(t, list, ms)
       \/ BytesReady(t)
       \/ \E n \in Sizes \cup {thread[t].size}, pc \in Receiving : ReceiveReady(t, n, pc)
       \/ \E r \in Direct, n \in Sizes, pc \in Receiving : Receive(t, r, n, pc)
       \/ PollThrows(t) \/ ReceiveThrows(t) \/ Step(t)

Spec == Init /\ [][Next]_vars

(* A thread inside a call goes on; an error is nothing to wait for. *)
FairSpec == Spec /\ \A t \in Readers : WF_vars(Step(t))

-----------------------------------------------------------------------------
(* Properties.                                                             *)

(* The places a message is in: under way (or lost), at a socket,            *)
(* in the hands of one thread, returned, or thrown away.                   *)
Places(m) ==
  {<<"net", x>> : x \in net \cap {m}} \cup {<<"lost", x>> : x \in lost \cap {m}}
  \cup {<<"queue", i>> : i \in {j \in DOMAIN queue[m.to] : queue[m.to][j] = m}}
  \cup {<<"hand", t>> : t \in {u \in Readers : thread[u].hand = m}}
  \cup {<<"returned", x>> : x \in {y \in returned : y.message = m}}

(* A send that sent this message, all of it, has returned. *)
Sent(m) ==
  /\ m.number \in DOMAIN sends[m.from]
  /\ sends[m.from][m.number] = [to |-> m.to, len |-> m.len, how |-> "returned"]

(* A send that returns sends one message if there is data and none if there *)
(* is not, one that throws none; and whatever the threads do, a message is *)
(* in one place, so that it is received once or not at all.  Only          *)
(* receive(address&) throws messages away, and only such whose sender has  *)
(* no address.                                                             *)
SentOnceReceivedOnce ==
  /\ \A m \in Messages :
       IF Sent(m) THEN \E p \in Places(m) : Places(m) = {p} ELSE Places(m) = {}
  /\ \A m \in lost : m.from \in Unnamed

(* A receive after readReadySockets does not block, and a buffer as large   *)
(* as bytesReady said holds the message (and is no larger, but on Windows), *)
(* unless another thread took a message from that socket in between.       *)
ReadyUnlessRaced ==
  \A t \in Readers :
    LET c == thread[t]
    IN  c.pc \in Receiving /\ c.told /\ c.on \notin c.raced =>
          /\ HasData(c.on)
          /\ c.measured => /\ c.size >= Head(queue[c.on]).len
                           /\ platform = "posix" => c.size = Head(queue[c.on]).len

(* A receiveTimeout() after receiveTimeout(us).  In the POSIX build it is   *)
(* us rounded up to the clock, and waiting for ever is what 0 asks for and *)
(* nothing else does.  In the Windows build it is us rounded down to       *)
(* milliseconds, as long as the microseconds fit a DWORD, so that less     *)
(* than a millisecond asks for ever.  Negative times do not wait (POSIX).  *)
TimeoutReadsBack ==
  /\ platform = "posix" =>
       /\ asked >= 0 => GetTimeout("posix", wait) \in asked..(asked + Tick - 1)
       /\ wait = Forever <=> asked = 0
       /\ asked < 0 => wait = 0
  /\ platform = "windows" /\ asked \in 0..(UIntSize - 1) =>
       /\ GetTimeout("windows", wait) = asked - (asked % PerMilli)
       /\ wait = Forever <=> asked < PerMilli

(* What a setter set is what the getter returns, if the length that it      *)
(* passes to getsockopt, which is not initialized, happens to be that of a *)
(* bool, or to cover an int.                                               *)
OptionReadsBack ==
  \A garbage \in Ints, len \in Lengths :
    /\ len = 1 => GetBool(option, garbage, len) = {flag}
    /\ len >= IntBytes => GetInt(number, garbage, len) = number

(* readReadySockets with a time-out that poll's int can hold comes back.   *)
(* (Longer ones may wrap to a negative number, which waits for ever.)      *)
PollEnds ==
  \A t \in Readers :
    thread[t].pc = "polling" /\ thread[t].millis \in 0..MaxInt ~> thread[t].pc # "polling"

(* A receive comes back if a time-out was asked for, of a millisecond at    *)
(* least on Windows, whoever else took the message it was called for.      *)
MayNotBlock ==
  IF platform = "posix" THEN asked # 0 ELSE asked \in PerMilli..(UIntSize * PerMilli - 1)

ReceiveEnds ==
  \A t \in Readers :
    (thread[t].pc \in Receiving /\ MayNotBlock) ~> thread[t].pc \notin Receiving
=============================================================================
