-------------------------------- MODULE Stream --------------------------------
(***************************************************************************)
(* Two connected stream sockets, "a" and "b": the loop of socket::send,    *)
(* socket::receive and the end of a socket, with the kernel between them.  *)
(*                                                                         *)
(* Any number of threads send through the same socket.  One call of ::send *)
(* is one step, and the steps of different threads, the network's and the  *)
(* receiver's come in any order.  A byte is known by the call that sent it *)
(* and its place in that call's data.                                      *)
(***************************************************************************)
EXTENDS Naturals, SequencesExt

CONSTANTS
  Threads,     \* the threads that send: <<end, number>>
  Readers,     \* the ends whose clients keep receiving (for fairness)
  MaxSends,    \* bound: calls of send, for each thread
  Lens,        \* the lengths of the data that each thread's sends are called with
  MaxLen,      \* bound: the longest of them
  Sizes,       \* buffer sizes that receive is called with
  SendRoom,    \* bytes the kernel keeps for transmission
  ReceiveRoom, \* bytes the kernel keeps for receive
  TimedOut,    \* the ends whose sendTimeout was set
  Interrupts   \* TRUE: signals interrupt ::send

Ends == {"a", "b"}

ASSUME StreamAssumption ==
  /\ Threads \subseteq Ends \X Nat
  /\ Readers \subseteq Ends /\ TimedOut \subseteq Ends
  /\ {MaxSends, SendRoom, ReceiveRoom} \subseteq Nat \ {0}
  /\ MaxLen \in Nat /\ Lens \in [Threads -> SUBSET (0..MaxLen)]
  /\ Sizes \subseteq Nat \ {0}
  /\ Interrupts \in BOOLEAN

Peer(e) == IF e = "a" THEN "b" ELSE "a"

End(t) == t[1]

(* Byte i of the k-th call of thread t. *)
Byte(t, k, i) == [thread |-> t, call |-> k, index |-> i]
Bytes == [thread : Threads, call : 1..MaxSends, index : 1..MaxLen]

VARIABLES
  call,     \* the send each thread is in
  result,   \* how each thread's earlier calls of send ended
  handed,   \* all that ::send took at each end
  queue,    \* what each end's kernel has not transmitted yet
  inbox,    \* what has arrived at each end and was not received yet
  got,      \* all that receive returned at each end
  eof,      \* receive has returned size 0 at this end
  shut,     \* this end's socket was destroyed
  reset     \* what this end's kernel knows of a reset of the connection

vars == <<call, result, handed, queue, inbox, got, eof, shut, reset>>

(***************************************************************************)
(* The kernel reports a reset once, to the first send or receive that      *)
(* meets it; from then on receive says size 0.  If the orderly end of the  *)
(* peer's stream came before the reset, receive says size 0 at once.       *)
(***************************************************************************)
Resets == {"none", "pending", "reported", "afterEnd"}

Outcomes == [len : 0..MaxLen, how : {"returned", "thrown"}]

TypeOK ==
  /\ call \in [Threads -> [active : BOOLEAN, len : 0..MaxLen, sent : 0..MaxLen]]
  /\ result \in [Threads -> Seq(Outcomes)]
  /\ \A t \in Threads : Len(result[t]) <= MaxSends /\ call[t].sent <= call[t].len
  /\ {handed, queue, inbox, got} \subseteq [Ends -> Seq(Bytes)]
  /\ \A e \in Ends : Len(queue[e]) <= SendRoom /\ Len(inbox[e]) <= ReceiveRoom
  /\ {eof, shut} \subseteq [Ends -> BOOLEAN]
  /\ reset \in [Ends -> Resets]

NoCall == [active |-> FALSE, len |-> 0, sent |-> 0]

Init ==
  /\ call = [t \in Threads |-> NoCall]
  /\ result = [t \in Threads |-> <<>>]
  /\ handed = [e \in Ends |-> <<>>]
  /\ queue = [e \in Ends |-> <<>>]
  /\ inbox = [e \in Ends |-> <<>>]
  /\ got = [e \in Ends |-> <<>>]
  /\ eof = [e \in Ends |-> FALSE]
  /\ shut = [e \in Ends |-> FALSE]
  /\ reset = [e \in Ends |-> "none"]

Completes(t, how) ==
  /\ result' = [result EXCEPT ![t] = Append(@, [len |-> call[t].len, how |-> how])]
  /\ call' = [call EXCEPT ![t] = NoCall]

-----------------------------------------------------------------------------
(* send(data, len, flags).                                                 *)

Send(t, len) ==
  /\ ~call[t].active /\ ~shut[End(t)]
  /\ Len(result[t]) < MaxSends
  /\ call' = [call EXCEPT ![t] = [active |-> TRUE, len |-> len, sent |-> 0]]
  /\ UNCHANGED <<result, handed, queue, inbox, got, eof, shut, reset>>

(* ::send takes r of the len - sent bytes from data + sent on. *)
PiecesWhole(t) == 1..call[t].len

Pieces(t) == 1..(call[t].len - call[t].sent)

SendSomeFromStart(t, r) ==
  LET e == End(t)
      piece == [i \in 1..r |-> Byte(t, Len(result[t]) + 1, i)]
  IN  /\ call[t].active /\ r \in Pieces(t)
      /\ reset[e] = "none" /\ Len(queue[e]) + r <= SendRoom
      /\ queue' = [queue EXCEPT ![e] = @ \o piece]
      /\ handed' = [handed EXCEPT ![e] = @ \o piece]
      /\ call' = [call EXCEPT ![t].sent = @ + r]
      /\ UNCHANGED <<result, inbox, got, eof, shut, reset>>

SendSome(t, r) ==
  LET e == End(t)
      piece == [i \in 1..r |-> Byte(t, Len(result[t]) + 1, call[t].sent + i)]
  IN  /\ call[t].active /\ r \in Pieces(t)
      /\ reset[e] = "none" /\ Len(queue[e]) + r <= SendRoom
      /\ queue' = [queue EXCEPT ![e] = @ \o piece]
      /\ handed' = [handed EXCEPT ![e] = @ \o piece]
      /\ call' = [call EXCEPT ![t].sent = @ + r]
      /\ UNCHANGED <<result, inbox, got, eof, shut, reset>>

SendReturns(t) ==
  /\ call[t].active /\ call[t].sent = call[t].len
  /\ Completes(t, "returned")
  /\ UNCHANGED <<handed, queue, inbox, got, eof, shut, reset>>

(* ::send fails: the connection was reset, or nothing fits before the      *)
(* time-out.  What earlier rounds of the loop sent stays sent.             *)
Fails(t) ==
  \/ reset[End(t)] # "none"
  \/ End(t) \in TimedOut /\ Len(queue[End(t)]) = SendRoom

Reported(e) == reset' = [reset EXCEPT ![e] = IF @ = "pending" THEN "reported" ELSE @]

SendRetries(t) ==
  /\ call[t].active /\ Pieces(t) # {} /\ reset[End(t)] # "none"
  /\ Completes(t, "thrown") /\ Reported(End(t))
  /\ UNCHANGED <<handed, queue, inbox, got, eof, shut>>

SendThrows(t) ==
  /\ call[t].active /\ Pieces(t) # {} /\ Fails(t)
  /\ Completes(t, "thrown") /\ Reported(End(t))
  /\ UNCHANGED <<handed, queue, inbox, got, eof, shut>>

(* ... or a signal came first. *)
SendInterrupted(t) ==
  /\ Interrupts
  /\ call[t].active /\ Pieces(t) # {} /\ reset[End(t)] = "none"
  /\ Completes(t, "thrown")
  /\ UNCHANGED <<handed, queue, inbox, got, eof, shut, reset>>

-----------------------------------------------------------------------------
(* receive(buf, n, flags).  A receive that times out or is interrupted     *)
(* throws and changes nothing.                                             *)

Take(e, n) ==
  /\ got' = [got EXCEPT ![e] = @ \o SubSeq(inbox[e], 1, n)]
  /\ inbox' = [inbox EXCEPT ![e] = SubSeq(@, n + 1, Len(@))]

ReceiveFull(e, n) ==
  /\ ~shut[e] /\ Len(inbox[e]) > n
  /\ Take(e, n)
  /\ UNCHANGED <<call, result, handed, queue, eof, shut, reset>>

Receive(e, n) ==
  /\ ~shut[e] /\ inbox[e] # <<>>
  /\ Take(e, IF n < Len(inbox[e]) THEN n ELSE Len(inbox[e]))
  /\ UNCHANGED <<call, result, handed, queue, eof, shut, reset>>

(* What has arrived is received first, then the reset is reported. *)
ReceiveThrows(e) ==
  /\ ~shut[e] /\ inbox[e] = <<>>
  /\ reset[e] = "pending"
  /\ Reported(e)
  /\ UNCHANGED <<call, result, handed, queue, inbox, got, eof, shut>>

(* Size 0: the peer's socket is gone and everything it sent was received,  *)
(* or the reset was reported before.                                       *)
EndSeen(e) ==
  \/ reset[e] = "none" /\ shut[Peer(e)] /\ queue[Peer(e)] = <<>>
  \/ reset[e] \in {"reported", "afterEnd"}

ReceiveEndIgnoringErrors(e) ==
  /\ ~shut[e] /\ inbox[e] = <<>>
  /\ EndSeen(e) \/ reset[e] = "pending"
  /\ eof' = [eof EXCEPT ![e] = TRUE]
  /\ UNCHANGED <<call, result, handed, queue, inbox, got, shut, reset>>

ReceiveEnd(e) ==
  /\ ~shut[e] /\ inbox[e] = <<>>
  /\ EndSeen(e)
  /\ eof' = [eof EXCEPT ![e] = TRUE]
  /\ UNCHANGED <<call, result, handed, queue, inbox, got, shut, reset>>

-----------------------------------------------------------------------------
(* The kernel: bytes travel one by one, as the receiving side has room.    *)
(* When data meets a socket that is gone, or a socket goes with data that  *)
(* was not received, the connection is reset: neither side transmits any   *)
(* more.  The end of the peer's stream may have come to e before, if all   *)
(* the peer sent had.                                                      *)

Reset(e) ==
  /\ queue' = [f \in Ends |-> <<>>]
  /\ \E how \in {"pending", "afterEnd"} :
       /\ how = "afterEnd" => queue[Peer(e)] = <<>>
       /\ reset' = [reset EXCEPT ![e] = IF @ = "none" THEN how ELSE @]

Transmit(e) ==
  /\ queue[e] # <<>>
  /\ IF shut[Peer(e)]
     THEN Reset(e) /\ UNCHANGED inbox
     ELSE /\ Len(inbox[Peer(e)]) < ReceiveRoom
          /\ queue' = [queue EXCEPT ![e] = Tail(@)]
          /\ inbox' = [inbox EXCEPT ![Peer(e)] = Append(@, Head(queue[e]))]
          /\ UNCHANGED reset
  /\ UNCHANGED <<call, result, handed, got, eof, shut>>

(* ~socket: shutdown and close, while no thread uses the socket. *)
DestroyDropsQueue(e) ==
  /\ ~shut[e]
  /\ \A t \in Threads : End(t) = e => ~call[t].active
  /\ shut' = [shut EXCEPT ![e] = TRUE]
  /\ inbox' = [inbox EXCEPT ![e] = <<>>]
  /\ Reset(Peer(e))
  /\ UNCHANGED <<call, result, handed, got, eof>>

Destroy(e) ==
  /\ ~shut[e]
  /\ \A t \in Threads : End(t) = e => ~call[t].active
  /\ shut' = [shut EXCEPT ![e] = TRUE]
  /\ inbox' = [inbox EXCEPT ![e] = <<>>]
  /\ IF inbox[e] # <<>> THEN Reset(Peer(e)) ELSE UNCHANGED <<queue, reset>>
  /\ UNCHANGED <<call, result, handed, got, eof>>

Next ==
  \/ \E t \in Threads : \E len \in Lens[t] : Send(t, len)
  \/ \E t \in Threads, r \in 1..MaxLen : SendSome(t, r)
  \/ \E t \in Threads : SendReturns(t) \/ SendThrows(t) \/ SendInterrupted(t)
  \/ \E e \in Ends, n \in Sizes : Receive(e, n)
  \/ \E e \in Ends : ReceiveThrows(e) \/ ReceiveEnd(e)
  \/ \E e \in Ends : Transmit(e) \/ Destroy(e)

Spec == Init /\ [][Next]_vars

(* A thread inside send goes on, its time-out expires if one was set, the  *)
(* network moves, and the clients at Readers keep receiving while there is *)
(* something to receive.  A signal is nothing to wait for.                 *)
Fairness ==
  /\ \A t \in Threads :
       WF_vars((\E r \in 1..MaxLen : SendSome(t, r)) \/ SendReturns(t) \/ SendThrows(t))
  /\ \A e \in Ends : WF_vars(Transmit(e))
  /\ \A e \in Readers : WF_vars(\E n \in Sizes : Receive(e, n))

FairSpec == Spec /\ Fairness

-----------------------------------------------------------------------------
(* Properties.                                                             *)

(* The places in what ::send took that are of one call. *)
PlacesOf(t, k) ==
  {i \in DOMAIN handed[End(t)] : handed[End(t)][i].thread = t /\ handed[End(t)][i].call = k}

(* The first n bytes of a call were taken, each once, in order, and no more. *)
TakenExactly(t, k, n) ==
  LET place == PlacesOf(t, k)
      index(i) == handed[End(t)][i].index
  IN  /\ {index(i) : i \in place} = 1..n
      /\ \A i, j \in place : i < j => index(i) < index(j)

(* However the kernel cuts the data and other threads send between the     *)
(* rounds of the loop: a send that returned handed over all of its data, a *)
(* send that threw or is under way a beginning of it; each byte once, in   *)
(* order.                                                                  *)
SentExactly ==
  \A t \in Threads :
    /\ \A k \in 1..Len(result[t]) :
         IF result[t][k].how = "returned" THEN TakenExactly(t, k, result[t][k].len)
         ELSE \E n \in 0..(result[t][k].len - 1) : TakenExactly(t, k, n)
    /\ call[t].active => TakenExactly(t, Len(result[t]) + 1, call[t].sent)

(* "check if receive returns a vector of size 0": size 0 means that the    *)
(* peer is gone, and that all it sent was received, unless a call at this  *)
(* end has thrown for a reset before.  (That call can be another thread's  *)
(* send: the receiver then sees an end like any other, though data is      *)
(* missing.)                                                               *)
EofIsEnd ==
  \A e \in Ends : eof[e] =>
    shut[Peer(e)] /\ (got[e] = handed[Peer(e)] \/ reset[e] = "reported")

(* "no data is lost unless it is lost while traversing the network": while *)
(* the receiving socket is there, what was sent to it was received, waits  *)
(* there, or is on its way, in order, also after the sender is gone.  That *)
(* is so if the sender has received all that was sent to it; destroyed     *)
(* with data to receive, or coming, it resets the connection and loses     *)
(* what it sent itself.                                                    *)
ClosingLosesNothing ==
  \A e \in Ends : ~shut[Peer(e)] /\ got[e] = handed[Peer(e)] =>
    handed[e] = got[Peer(e)] \o inbox[Peer(e)] \o queue[e]

(* "Send functions block until all data is sent", and not for ever: a send *)
(* ends if the other side keeps receiving, or if a time-out was set, also  *)
(* when the other side is destroyed in the middle, and without a signal.   *)
SendEnds ==
  \A t \in Threads :
    Peer(End(t)) \in Readers \/ End(t) \in TimedOut =>
      (call[t].active ~> ~call[t].active)

(* What was sent arrives, also after the sender is gone, if the receiver   *)
(* stays and receives and does not lose it by a reset.                     *)
SentArrives ==
  \A e \in Ends : Peer(e) \in Readers =>
    \A n \in 1..(Cardinality({t \in Threads : End(t) = e}) * MaxSends * MaxLen) :
      Len(handed[e]) >= n ~> \/ Len(got[Peer(e)]) >= n
                             \/ shut[Peer(e)] \/ reset[Peer(e)] # "none"
=============================================================================
