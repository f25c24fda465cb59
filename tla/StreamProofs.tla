----------------------------- MODULE StreamProofs -----------------------------
(***************************************************************************)
(* Proofs about module Stream, for any number of threads, sends, lengths   *)
(* and buffer sizes.                                                       *)
(***************************************************************************)
EXTENDS Stream, SeqLemmas

-----------------------------------------------------------------------------
(* The inductive invariant.                                                *)

(* A thread is inside a send of a socket that is there, and it is one of   *)
(* those it may make.                                                      *)
Sending ==
  \A t \in Threads : call[t].active => ~shut[End(t)] /\ Len(result[t]) < MaxSends

(* ::send was only called from within a send. *)
Called(b) ==
  \/ b.call <= Len(result[b.thread])
  \/ b.call = Len(result[b.thread]) + 1 /\ call[b.thread].active
CalledBefore == \A e \in Ends : \A b \in ToSet(handed[e]) : Called(b)

(* What was sent to e and not lost, in order. *)
OnTheWay(e) == got[e] \o (inbox[e] \o queue[Peer(e)])

(* Only a reset loses what was sent to a socket that is there, and it      *)
(* loses nothing where the end of the stream had come before it.           *)
Whole(e) == reset[e] \in {"none", "afterEnd"}
Conserved ==
  \A e \in Ends : ~shut[e] /\ Whole(e) => handed[Peer(e)] = OnTheWay(e)

(* Nothing is received that was not sent; and a connection is only reset   *)
(* when the other side is gone, with nothing to transmit any more, and has *)
(* not received everything.                                                *)
NothingAdded ==
  \A e \in Ends : Len(got[e]) + Len(inbox[e]) + Len(queue[Peer(e)]) <= Len(handed[Peer(e)])

ResetByLoss ==
  \A e \in Ends : reset[e] # "none" =>
    shut[Peer(e)] /\ queue[Peer(e)] = <<>> /\ Len(got[Peer(e)]) < Len(handed[e])

(* After the end of the stream nothing can follow. *)
Ended ==
  \A e \in Ends : eof[e] =>
    /\ shut[Peer(e)] /\ inbox[e] = <<>> /\ queue[Peer(e)] = <<>>
    /\ got[e] = handed[Peer(e)] \/ reset[e] = "reported"

StreamInv ==
  /\ TypeOK /\ Sending /\ CalledBefore /\ SentExactly
  /\ Conserved /\ NothingAdded /\ ResetByLoss /\ Ended

-----------------------------------------------------------------------------
(* Types.                                                                  *)

LEMMA PeerIn ==
  ASSUME NEW e \in Ends
  PROVE  Peer(e) \in Ends /\ Peer(e) # e /\ Peer(Peer(e)) = e
  BY DEF Ends, Peer

LEMMA EndIn ==
  ASSUME NEW t \in Threads
  PROVE  End(t) \in Ends
  BY StreamAssumption DEF End

LEMMA CallType ==
  ASSUME TypeOK, NEW t \in Threads
  PROVE  /\ call[t].active \in BOOLEAN /\ call[t].sent <= call[t].len
         /\ call[t].len \in 0..MaxLen /\ call[t].sent \in 0..MaxLen
         /\ MaxLen \in Nat /\ MaxSends \in Nat /\ SendRoom \in Nat /\ ReceiveRoom \in Nat
         /\ result[t] \in Seq(Outcomes) /\ Len(result[t]) \in 0..MaxSends
  BY StreamAssumption, SeqPlaces DEF TypeOK

LEMMA QueueType ==
  ASSUME TypeOK, NEW e \in Ends
  PROVE  /\ handed[e] \in Seq(Bytes) /\ Len(handed[e]) \in Nat
         /\ queue[e] \in Seq(Bytes) /\ Len(queue[e]) \in 0..SendRoom
         /\ inbox[e] \in Seq(Bytes) /\ Len(inbox[e]) \in 0..ReceiveRoom
         /\ got[e] \in Seq(Bytes) /\ Len(got[e]) \in Nat
         /\ SendRoom \in Nat /\ ReceiveRoom \in Nat
<1>1. /\ handed[e] \in Seq(Bytes) /\ queue[e] \in Seq(Bytes)
      /\ inbox[e] \in Seq(Bytes) /\ got[e] \in Seq(Bytes)
      /\ Len(queue[e]) <= SendRoom /\ Len(inbox[e]) <= ReceiveRoom
  BY DEF TypeOK
<1>2. /\ Len(handed[e]) \in Nat /\ Len(queue[e]) \in Nat
      /\ Len(inbox[e]) \in Nat /\ Len(got[e]) \in Nat
  BY <1>1, SeqPlaces
<1> QED
  BY <1>1, <1>2, StreamAssumption

(* What one ::send takes. *)
Piece(t, r) == [i \in 1..r |-> Byte(t, Len(result[t]) + 1, call[t].sent + i)]

LEMMA PieceType ==
  ASSUME TypeOK, Sending, NEW t \in Threads, call[t].active, NEW r \in Pieces(t)
  PROVE  /\ Piece(t, r) \in Seq(Bytes) /\ Len(Piece(t, r)) = r /\ r \in Nat \ {0}
         /\ call[t].sent + r <= call[t].len /\ call[t].sent + r \in 0..MaxLen
<1>1. /\ r \in Nat \ {0} /\ call[t].sent + r <= call[t].len /\ call[t].sent + r \in 0..MaxLen
      /\ \A i \in 1..r : call[t].sent + i \in 1..MaxLen
  <2>1. /\ call[t].sent <= call[t].len /\ call[t].len \in 0..MaxLen /\ call[t].sent \in 0..MaxLen
        /\ MaxLen \in Nat
    BY CallType
  <2>2. r \in 1..(call[t].len - call[t].sent)
    BY DEF Pieces
  <2> QED
    BY <2>1, <2>2
<1>2. Len(result[t]) + 1 \in 1..MaxSends
  <2>1. Len(result[t]) \in 0..MaxSends /\ MaxSends \in Nat
    BY CallType
  <2>2. Len(result[t]) < MaxSends
    BY DEF Sending
  <2> QED
    BY <2>1, <2>2
<1>3. Piece(t, r) \in [1..r -> Bytes]
  BY <1>1, <1>2 DEF Piece, Byte, Bytes
<1> QED
  BY <1>1, <1>3, SeqOfFunction

LEMMA TypeStep ==
  ASSUME TypeOK, Sending, Next
  PROVE  TypeOK'
<1> USE DEF TypeOK
<1>2. ASSUME NEW t \in Threads, NEW len \in Lens[t], Send(t, len)
      PROVE  TypeOK'
  <2>1. len \in 0..MaxLen /\ 0 \in 0..MaxLen /\ 0 <= len
    BY StreamAssumption
  <2> QED
    BY <1>2, <2>1 DEF Send
<1>3. ASSUME NEW t \in Threads, NEW r \in 1..MaxLen, SendSome(t, r)
      PROVE  TypeOK'
  <2> DEFINE e == End(t)
  <2>1. /\ e \in Ends /\ call[t].active /\ r \in Pieces(t) /\ Len(queue[e]) + r <= SendRoom
        /\ queue' = [queue EXCEPT ![e] = @ \o Piece(t, r)]
        /\ handed' = [handed EXCEPT ![e] = @ \o Piece(t, r)]
        /\ call' = [call EXCEPT ![t].sent = @ + r]
        /\ UNCHANGED <<result, inbox, got, eof, shut, reset>>
    BY <1>3, EndIn DEF SendSome, Piece
  <2>2. /\ Piece(t, r) \in Seq(Bytes) /\ Len(Piece(t, r)) = r
        /\ call[t].sent + r <= call[t].len /\ call[t].sent + r \in 0..MaxLen
    BY <2>1, PieceType
  <2> HIDE DEF e
  <2>3. /\ queue[e] \o Piece(t, r) \in Seq(Bytes) /\ handed[e] \o Piece(t, r) \in Seq(Bytes)
        /\ Len(queue[e] \o Piece(t, r)) = Len(queue[e]) + r
    BY <2>1, <2>2, QueueType, SeqJoined
  <2>4. queue' \in [Ends -> Seq(Bytes)] /\ handed' \in [Ends -> Seq(Bytes)]
        /\ \A f \in Ends : Len(queue'[f]) <= SendRoom
    BY <2>1, <2>3
  <2>5. /\ call' \in [Threads -> [active : BOOLEAN, len : 0..MaxLen, sent : 0..MaxLen]]
        /\ \A u \in Threads : call'[u].sent <= call'[u].len
    BY <2>1, <2>2
  <2>7. UNCHANGED <<result, inbox, got, eof, shut, reset>>
    BY <2>1
  <2> QED
    BY <2>4, <2>5, <2>7
<1>4. ASSUME NEW t \in Threads, NEW how \in {"returned", "thrown"}, Len(result[t]) < MaxSends,
             Completes(t, how), UNCHANGED <<handed, queue, inbox, got, eof, shut>>,
             reset' \in [Ends -> Resets]
      PROVE  TypeOK'
  <2> DEFINE o == [len |-> call[t].len, how |-> how]
  <2>1. o \in Outcomes
    BY CallType DEF Outcomes
  <2> HIDE DEF o
  <2>2. Append(result[t], o) \in Seq(Outcomes) /\ Len(Append(result[t], o)) <= MaxSends
    <3>1. Append(result[t], o) \in Seq(Outcomes) /\ Len(Append(result[t], o)) = Len(result[t]) + 1
      BY <2>1, CallType, SeqAppended
    <3>2. Len(result[t]) \in Nat /\ MaxSends \in Nat
      BY CallType
    <3> QED
      BY <1>4, <3>1, <3>2
  <2>3. result' = [result EXCEPT ![t] = Append(@, o)]
    BY <1>4 DEF Completes, o
  <2>4. NoCall \in [active : BOOLEAN, len : 0..MaxLen, sent : 0..MaxLen] /\ NoCall.sent <= NoCall.len
    BY StreamAssumption DEF NoCall
  <2>5. call' = [call EXCEPT ![t] = NoCall]
    BY <1>4 DEF Completes
  <2> QED
    BY <1>4, <2>2, <2>3, <2>4, <2>5
<1>11. ASSUME NEW e \in Ends, Reported(e)
       PROVE  reset' \in [Ends -> Resets]
  BY <1>11 DEF Reported, Resets
<1>5. ASSUME NEW t \in Threads, SendReturns(t) \/ SendThrows(t) \/ SendInterrupted(t)
      PROVE  TypeOK'
  <2>1. Len(result[t]) < MaxSends
    BY <1>5 DEF SendReturns, SendThrows, SendInterrupted, Sending
  <2>2. reset' \in [Ends -> Resets]
    BY <1>5, <1>11, EndIn DEF SendReturns, SendThrows, SendInterrupted
  <2> QED
    BY <1>4, <1>5, <2>1, <2>2 DEF SendReturns, SendThrows, SendInterrupted
<1>6. ASSUME NEW e \in Ends, NEW n \in Sizes, Receive(e, n)
      PROVE  TypeOK'
  <2> DEFINE m == IF n < Len(inbox[e]) THEN n ELSE Len(inbox[e])
  <2>1. m \in 0..Len(inbox[e])
    BY StreamAssumption, QueueType
  <2>2. Take(e, m) /\ UNCHANGED <<call, result, handed, queue, eof, shut, reset>>
    BY <1>6 DEF Receive
  <2> HIDE DEF m
  <2>3. /\ SubSeq(inbox[e], 1, m) \in Seq(Bytes)
        /\ SubSeq(inbox[e], m + 1, Len(inbox[e])) \in Seq(Bytes)
        /\ Len(SubSeq(inbox[e], m + 1, Len(inbox[e]))) = Len(inbox[e]) - m
    BY <2>1, QueueType, SeqSplit
  <2>4. got[e] \o SubSeq(inbox[e], 1, m) \in Seq(Bytes)
    BY <2>3, QueueType, SeqJoined
  <2>5. Len(inbox[e]) - m <= ReceiveRoom
    <3>1. Len(inbox[e]) \in Nat /\ Len(inbox[e]) <= ReceiveRoom /\ ReceiveRoom \in Nat
      BY QueueType
    <3> QED
      BY <2>1, <3>1
  <2>6. got' \in [Ends -> Seq(Bytes)]
    BY <2>2, <2>4 DEF Take
  <2>7. inbox' \in [Ends -> Seq(Bytes)] /\ \A f \in Ends : Len(inbox'[f]) <= ReceiveRoom
    BY <2>2, <2>3, <2>5 DEF Take
  <2>8. UNCHANGED <<call, result, handed, queue, eof, shut, reset>>
    BY <2>2
  <2> QED
    BY <2>6, <2>7, <2>8
<1>7. ASSUME NEW e \in Ends, ReceiveEnd(e)
      PROVE  TypeOK'
  BY <1>7 DEF ReceiveEnd
<1>12. ASSUME NEW e \in Ends, ReceiveThrows(e)
       PROVE  TypeOK'
  BY <1>11, <1>12 DEF ReceiveThrows
<1>8. <<>> \in Seq(Bytes) /\ Len(<<>>) <= ReceiveRoom /\ Len(<<>>) <= SendRoom
  BY StreamAssumption, EmptySeq
<1>0. ASSUME NEW e \in Ends, Reset(e)
      PROVE  /\ queue' \in [Ends -> Seq(Bytes)] /\ reset' \in [Ends -> Resets]
             /\ \A f \in Ends : Len(queue'[f]) <= SendRoom
  BY <1>8, <1>0 DEF Reset, Resets
<1>9. ASSUME NEW e \in Ends, Transmit(e)
      PROVE  TypeOK'
  <2>1. CASE shut[Peer(e)]
    <3>1. Reset(e) /\ UNCHANGED <<inbox, call, result, handed, got, eof, shut>>
      BY <1>9, <2>1 DEF Transmit
    <3> QED
      BY <1>0, <3>1
  <2>2. CASE ~shut[Peer(e)]
    <3>1. /\ Head(queue[e]) \in Bytes /\ Tail(queue[e]) \in Seq(Bytes)
          /\ Len(Tail(queue[e])) = Len(queue[e]) - 1
      BY <1>9, QueueType, SeqTaken DEF Transmit
    <3>2. /\ Append(inbox[Peer(e)], Head(queue[e])) \in Seq(Bytes)
          /\ Len(Append(inbox[Peer(e)], Head(queue[e]))) = Len(inbox[Peer(e)]) + 1
      BY <3>1, QueueType, PeerIn, SeqAppended
    <3>3. Len(queue[e]) - 1 <= SendRoom /\ Len(inbox[Peer(e)]) + 1 <= ReceiveRoom
      <4>1. Len(queue[e]) \in Nat /\ Len(queue[e]) <= SendRoom /\ SendRoom \in Nat
        BY QueueType
      <4>2. Len(inbox[Peer(e)]) \in Nat /\ ReceiveRoom \in Nat
        BY PeerIn, QueueType
      <4>3. Len(inbox[Peer(e)]) < ReceiveRoom
        BY <1>9, <2>2 DEF Transmit
      <4> QED
        BY <4>1, <4>2, <4>3
    <3>4. /\ queue' = [queue EXCEPT ![e] = Tail(@)]
          /\ inbox' = [inbox EXCEPT ![Peer(e)] = Append(@, Head(queue[e]))]
          /\ UNCHANGED <<call, result, handed, got, eof, shut, reset>>
      BY <1>9, <2>2 DEF Transmit
    <3>5. queue' \in [Ends -> Seq(Bytes)] /\ \A f \in Ends : Len(queue'[f]) <= SendRoom
      BY <3>1, <3>3, <3>4
    <3>6. inbox' \in [Ends -> Seq(Bytes)] /\ \A f \in Ends : Len(inbox'[f]) <= ReceiveRoom
      BY <3>2, <3>3, <3>4
    <3>7. UNCHANGED <<call, result, handed, got, eof, shut, reset>>
      BY <3>4
    <3> QED
      BY <3>5, <3>6, <3>7
  <2> QED
    BY <2>1, <2>2
<1>10. ASSUME NEW e \in Ends, Destroy(e)
      PROVE  TypeOK'
  <2>1. CASE inbox[e] # <<>>
    <3>1. /\ Reset(Peer(e)) /\ UNCHANGED <<call, result, handed, got, eof>>
          /\ shut' = [shut EXCEPT ![e] = TRUE] /\ inbox' = [inbox EXCEPT ![e] = <<>>]
      BY <1>10, <2>1 DEF Destroy
    <3>2. /\ queue' \in [Ends -> Seq(Bytes)] /\ reset' \in [Ends -> Resets]
          /\ \A f \in Ends : Len(queue'[f]) <= SendRoom
      BY <1>0, <3>1, PeerIn
    <3>3. shut' \in [Ends -> BOOLEAN] /\ eof' \in [Ends -> BOOLEAN]
      BY <3>1
    <3>4. inbox' \in [Ends -> Seq(Bytes)] /\ \A f \in Ends : Len(inbox'[f]) <= ReceiveRoom
      BY <1>8, <3>1
    <3> QED
      BY <3>1, <3>2, <3>3, <3>4
  <2>2. CASE inbox[e] = <<>>
    BY <1>8, <1>10, <2>2 DEF Destroy
  <2> QED
    BY <2>1, <2>2
<1> QED
  BY <1>2, <1>3, <1>5, <1>6, <1>7, <1>9, <1>10, <1>12 DEF Next

-----------------------------------------------------------------------------
(* Threads inside send.                                                    *)

LEMMA SendSomeDoes ==
  ASSUME TypeOK, Sending, NEW t \in Threads, NEW r, SendSome(t, r)
  PROVE  /\ End(t) \in Ends /\ call[t].active /\ r \in Pieces(t)
         /\ reset[End(t)] = "none" /\ Len(queue[End(t)]) + r <= SendRoom
         /\ Piece(t, r) \in Seq(Bytes) /\ Len(Piece(t, r)) = r
         /\ queue' = [queue EXCEPT ![End(t)] = @ \o Piece(t, r)]
         /\ handed' = [handed EXCEPT ![End(t)] = @ \o Piece(t, r)]
         /\ call' = [call EXCEPT ![t].sent = @ + r]
         /\ UNCHANGED <<result, inbox, got, eof, shut, reset>>
<1>1. call[t].active /\ r \in Pieces(t)
  BY DEF SendSome
<1> QED
  BY <1>1, EndIn, PieceType DEF SendSome, Piece

(* What a report of the reset does to what the kernels know. *)
AtMostReported ==
  \A e \in Ends : \/ reset'[e] = reset[e]
                  \/ reset[e] = "pending" /\ reset'[e] = "reported"

LEMMA ReportedDoes ==
  ASSUME TypeOK, NEW e \in Ends, Reported(e)
  PROVE  AtMostReported
  BY DEF Reported, TypeOK, AtMostReported

LEMMA CompletesDoes ==
  ASSUME TypeOK, Sending, NEW t \in Threads,
         SendReturns(t) \/ SendThrows(t) \/ SendInterrupted(t)
  PROVE  /\ call[t].active /\ ~call'[t].active /\ Len(result[t]) < MaxSends
         /\ result'[t] \in Seq(Outcomes) /\ Len(result'[t]) = Len(result[t]) + 1
         /\ \A k \in 1..Len(result[t]) : result'[t][k] = result[t][k]
         /\ result'[t][Len(result[t]) + 1].len = call[t].len
         /\ IF result'[t][Len(result[t]) + 1].how = "returned"
            THEN call[t].sent = call[t].len ELSE call[t].sent < call[t].len
         /\ \A u \in Threads : u # t => result'[u] = result[u] /\ call'[u] = call[u]
         /\ UNCHANGED <<handed, queue, inbox, got, eof, shut>> /\ AtMostReported
<1>1. PICK how \in {"returned", "thrown"} :
        /\ Completes(t, how)
        /\ IF how = "returned" THEN call[t].sent = call[t].len ELSE Pieces(t) # {}
  BY DEF SendReturns, SendThrows, SendInterrupted
<1> DEFINE o == [len |-> call[t].len, how |-> how]
<1>2. o \in Outcomes /\ o.len = call[t].len /\ o.how = how
  BY CallType DEF Outcomes
<1> HIDE DEF o
<1>3. result' = [result EXCEPT ![t] = Append(@, o)] /\ call' = [call EXCEPT ![t] = NoCall]
  BY <1>1 DEF Completes, o
<1>4. /\ Append(result[t], o) \in Seq(Outcomes) /\ Len(Append(result[t], o)) = Len(result[t]) + 1
      /\ \A k \in 1..Len(result[t]) : Append(result[t], o)[k] = result[t][k]
      /\ Append(result[t], o)[Len(result[t]) + 1] = o
  <2>1. result[t] \in Seq(Outcomes) /\ DOMAIN result[t] = 1..Len(result[t])
    BY CallType, SeqPlaces
  <2> QED
    BY <1>2, <2>1, SeqAppended
<1>5. result'[t] = Append(result[t], o)
  BY <1>3 DEF TypeOK
<1>6. Pieces(t) # {} => call[t].sent < call[t].len
  BY CallType DEF Pieces
<1>7. ~call'[t].active
  BY <1>3 DEF TypeOK, NoCall
<1>8. /\ call[t].active /\ Len(result[t]) < MaxSends
      /\ UNCHANGED <<handed, queue, inbox, got, eof, shut>>
  BY DEF SendReturns, SendThrows, SendInterrupted, Sending
<1>11. AtMostReported
  <2>1. UNCHANGED reset \/ Reported(End(t))
    BY DEF SendReturns, SendThrows, SendInterrupted
  <2> QED
    BY <2>1, EndIn, ReportedDoes DEF AtMostReported
<1>9. \A u \in Threads : u # t => result'[u] = result[u] /\ call'[u] = call[u]
  BY <1>3 DEF TypeOK
<1>10. call[t].sent <= call[t].len
  BY CallType
<1> QED
  BY <1>1, <1>2, <1>4, <1>5, <1>6, <1>7, <1>8, <1>9, <1>10, <1>11

LEMMA SendingStep ==
  ASSUME TypeOK, Sending, Next
  PROVE  Sending'
<1>1. CASE UNCHANGED <<call, result, shut>>
  BY <1>1 DEF Sending
<1>2. ASSUME NEW t \in Threads, NEW len \in Lens[t], Send(t, len)
      PROVE  Sending'
  <2>1. /\ \A u \in Threads : u # t => call'[u] = call[u]
        /\ ~shut[End(t)] /\ Len(result[t]) < MaxSends /\ UNCHANGED <<result, shut>>
    BY <1>2 DEF Send, TypeOK
  <2> QED
    BY <2>1 DEF Sending
<1>3. ASSUME NEW t \in Threads, NEW r \in 1..MaxLen, SendSome(t, r)
      PROVE  Sending'
  <2>1. call' = [call EXCEPT ![t].sent = @ + r] /\ UNCHANGED <<result, shut>>
    BY <1>3, SendSomeDoes
  <2>2. \A u \in Threads : call'[u].active = call[u].active
    BY <2>1 DEF TypeOK
  <2> QED
    BY <2>1, <2>2 DEF Sending
<1>4. ASSUME NEW t \in Threads, SendReturns(t) \/ SendThrows(t) \/ SendInterrupted(t)
      PROVE  Sending'
  <2>1. /\ ~call'[t].active /\ UNCHANGED shut
        /\ \A u \in Threads : u # t => result'[u] = result[u] /\ call'[u] = call[u]
    BY <1>4, CompletesDoes
  <2> QED
    BY <2>1 DEF Sending
<1>5. ASSUME NEW e \in Ends, Destroy(e)
      PROVE  Sending'
  <2>1. /\ \A f \in Ends : f # e => shut'[f] = shut[f]
        /\ \A t \in Threads : End(t) = e => ~call[t].active
        /\ UNCHANGED <<call, result>>
    BY <1>5 DEF Destroy, TypeOK
  <2> QED
    BY <2>1, EndIn DEF Sending
<1> QED
  BY <1>1, <1>2, <1>3, <1>4, <1>5 DEF Next, Receive, ReceiveThrows, ReceiveEnd, Transmit

-----------------------------------------------------------------------------
(* What ::send took of each call.                                          *)

(* TakenExactly, of any sequence. *)
Mine(s, t, k) == {i \in DOMAIN s : s[i].thread = t /\ s[i].call = k}
Exactly(s, t, k, n) ==
  /\ \A i \in Mine(s, t, k) : s[i].index \in 1..n
  /\ \A x \in 1..n : \E i \in Mine(s, t, k) : s[i].index = x
  /\ \A i, j \in Mine(s, t, k) : i < j => s[i].index < s[j].index

LEMMA TakenIsExactly ==
  ASSUME NEW t, NEW k, NEW n
  PROVE  /\ TakenExactly(t, k, n) <=> Exactly(handed[End(t)], t, k, n)
         /\ TakenExactly(t, k, n)' <=> Exactly(handed'[End(t)], t, k, n)
<1>1. ASSUME NEW s, NEW mine
      PROVE  {s[i].index : i \in mine} = 1..n <=>
               /\ \A i \in mine : s[i].index \in 1..n
               /\ \A x \in 1..n : \E i \in mine : s[i].index = x
  OBVIOUS
<1>2. /\ PlacesOf(t, k) = Mine(handed[End(t)], t, k)
      /\ PlacesOf(t, k)' = Mine(handed'[End(t)], t, k)
  BY DEF PlacesOf, Mine
<1>3. TakenExactly(t, k, n) <=> Exactly(handed[End(t)], t, k, n)
  BY <1>1, <1>2 DEF TakenExactly, Exactly
<1>4. TakenExactly(t, k, n)' <=> Exactly(handed'[End(t)], t, k, n)
  BY <1>1, <1>2 DEF TakenExactly, Exactly
<1> QED
  BY <1>3, <1>4

LEMMA ByteType ==
  ASSUME NEW b \in Bytes
  PROVE  b.thread \in Threads /\ b.call \in Nat \ {0} /\ b.index \in Nat \ {0}
  BY StreamAssumption DEF Bytes

LEMMA ExactlyGrows ==
  ASSUME NEW s \in Seq(Bytes), NEW t, NEW k, NEW n \in Nat, NEW r \in Nat,
         NEW p \in Seq(Bytes), Len(p) = r, \A i \in 1..r : p[i] = Byte(t, k, n + i)
  PROVE  /\ Exactly(s, t, k, n) => Exactly(s \o p, t, k, n + r)
         /\ \A u, j, m : ~(u = t /\ j = k) /\ Exactly(s, u, j, m) => Exactly(s \o p, u, j, m)
<1>1. /\ Len(s) \in Nat /\ DOMAIN s = 1..Len(s) /\ DOMAIN p = 1..r
  BY SeqPlaces
<1> DEFINE w == s \o p
<1>2. /\ \A i \in DOMAIN s : i \in DOMAIN w /\ w[i] = s[i]
      /\ \A i \in 1..r : Len(s) + i \in DOMAIN w /\ w[Len(s) + i] = p[i]
      /\ \A i \in DOMAIN w : i \in DOMAIN s \/ \E j \in 1..r : i = Len(s) + j
  <2>1. /\ \A i \in DOMAIN s : i \in DOMAIN w /\ w[i] = s[i]
        /\ \A i \in DOMAIN p : Len(s) + i \in DOMAIN w /\ w[Len(s) + i] = p[i]
        /\ \A i \in DOMAIN w : i \in DOMAIN s \/ \E j \in DOMAIN p : i = Len(s) + j
    BY SeqJoined
  <2> QED
    BY <1>1, <2>1
<1> HIDE DEF w
<1>3. \A i \in 1..r : p[i].thread = t /\ p[i].call = k /\ p[i].index = n + i
  BY DEF Byte
<1>4. ASSUME NEW u, NEW j, NEW m, ~(u = t /\ j = k), Exactly(s, u, j, m)
      PROVE  Exactly(w, u, j, m)
  <2>1. Mine(w, u, j) = Mine(s, u, j)
    <3>1. ASSUME NEW i \in DOMAIN w, w[i].thread = u, w[i].call = j
          PROVE  i \in DOMAIN s
      <4>1. SUFFICES ASSUME i \notin DOMAIN s
                     PROVE  FALSE
        OBVIOUS
      <4>2. PICK y \in 1..r : i = Len(s) + y
        BY <1>2, <4>1
      <4>3. w[i] = p[y] /\ p[y].thread = t /\ p[y].call = k
        BY <1>2, <1>3, <4>2
      <4> QED
        BY <1>4, <3>1, <4>3
    <3> QED
      BY <1>2, <3>1 DEF Mine
  <2>2. \A i \in Mine(s, u, j) : w[i] = s[i]
    BY <1>2 DEF Mine
  <2> QED
    BY <1>4, <2>1, <2>2 DEF Exactly
<1>5. ASSUME Exactly(s, t, k, n)
      PROVE  Exactly(w, t, k, n + r)
  <2>1. /\ \A i \in Mine(s, t, k) : i \in Mine(w, t, k)
        /\ \A i \in 1..r : Len(s) + i \in Mine(w, t, k)
        /\ \A i \in Mine(w, t, k) : i \in Mine(s, t, k) \/ \E j \in 1..r : i = Len(s) + j
    BY <1>2, <1>3 DEF Mine
  <2>2. \A i \in Mine(s, t, k) : w[i] = s[i] /\ i \in 1..Len(s) /\ w[i].index \in 1..n
    BY <1>1, <1>2, <1>5 DEF Mine, Exactly
  <2>3. \A i \in 1..r : w[Len(s) + i].index = n + i
    BY <1>2, <1>3
  <2>4. \A i \in Mine(w, t, k) : w[i].index \in 1..(n + r)
    <3>1. (\A i \in 1..n : i \in 1..(n + r)) /\ (\A i \in 1..r : n + i \in 1..(n + r))
      OBVIOUS
    <3>2. \A i \in Mine(s, t, k) : w[i].index \in 1..(n + r)
      BY <2>2, <3>1
    <3>3. \A j \in 1..r : w[Len(s) + j].index \in 1..(n + r)
      BY <2>3, <3>1
    <3> QED
      BY <2>1, <3>2, <3>3
  <2>5. ASSUME NEW x \in 1..(n + r)
        PROVE  \E i \in Mine(w, t, k) : w[i].index = x
    <3>1. CASE x <= n
      <4>1. x \in 1..n
        BY <3>1
      <4> QED
        BY <1>5, <2>1, <2>2, <4>1 DEF Exactly
    <3>2. CASE x > n
      <4>1. x - n \in 1..r /\ n + (x - n) = x
        BY <3>2
      <4> QED
        BY <2>1, <2>3, <4>1
    <3> QED
      BY <3>1, <3>2
  <2>6. ASSUME NEW i \in Mine(w, t, k), NEW j \in Mine(w, t, k), i < j
        PROVE  w[i].index < w[j].index
    <3>1. CASE i \in Mine(s, t, k) /\ j \in Mine(s, t, k)
      BY <1>5, <2>2, <2>6, <3>1 DEF Exactly
    <3>2. ASSUME i \in Mine(s, t, k), NEW y \in 1..r, j = Len(s) + y
          PROVE  w[i].index < w[j].index
      <4>1. w[j].index = n + y /\ w[i].index \in 1..n
        BY <2>2, <2>3, <3>2
      <4> QED
        BY <4>1
    <3>3. ASSUME NEW x \in 1..r, i = Len(s) + x, NEW y \in 1..r, j = Len(s) + y
          PROVE  w[i].index < w[j].index
      <4>1. w[i].index = n + x /\ w[j].index = n + y
        BY <2>3, <3>3
      <4>2. x < y
        BY <1>1, <2>6, <3>3
      <4> QED
        BY <4>1, <4>2
    <3>4. ASSUME NEW x \in 1..r, i = Len(s) + x, j \in Mine(s, t, k)
          PROVE  FALSE
      BY <1>1, <2>2, <2>6, <3>4
    <3> QED
      BY <2>1, <3>1, <3>2, <3>3, <3>4
  <2> QED
    BY <2>4, <2>5, <2>6 DEF Exactly
<1> QED
  BY <1>4, <1>5 DEF w

LEMMA CalledBeforeStep ==
  ASSUME TypeOK, Sending, CalledBefore, Next
  PROVE  CalledBefore'
<1>0. \A e \in Ends : \A b \in ToSet(handed[e]) : b \in Bytes
  BY QueueType, SeqPlaces DEF ToSet
<1>1. ASSUME \A t \in Threads : \/ Len(result'[t]) = Len(result[t]) /\ (call[t].active => call'[t].active)
                                \/ Len(result'[t]) = Len(result[t]) + 1,
             NEW b \in Bytes, Called(b)
      PROVE  Called(b)'
  <2>1. b.thread \in Threads /\ b.call \in Nat /\ Len(result[b.thread]) \in Nat
    BY ByteType, CallType
  <2>2. \/ Len(result'[b.thread]) = Len(result[b.thread]) /\ (call[b.thread].active => call'[b.thread].active)
        \/ Len(result'[b.thread]) = Len(result[b.thread]) + 1
    BY <1>1, <2>1
  <2>3. \/ b.call <= Len(result[b.thread])
        \/ b.call = Len(result[b.thread]) + 1 /\ call[b.thread].active
    BY <1>1 DEF Called
  <2>4. \/ b.call <= Len(result'[b.thread])
        \/ b.call = Len(result'[b.thread]) + 1 /\ call'[b.thread].active
    BY <2>1, <2>2, <2>3
  <2> QED
    BY <2>4 DEF Called
<1>2. ASSUME NEW t \in Threads, NEW len \in Lens[t], Send(t, len)
      PROVE  CalledBefore'
  <2>1. /\ UNCHANGED <<handed, result>> /\ call'[t].active
        /\ \A u \in Threads : u # t => call'[u] = call[u]
    BY <1>2 DEF Send, TypeOK
  <2> QED
    BY <1>0, <1>1, <2>1 DEF CalledBefore
<1>3. ASSUME NEW t \in Threads, NEW r \in 1..MaxLen, SendSome(t, r)
      PROVE  CalledBefore'
  <2> DEFINE e == End(t)
             p == Piece(t, r)
  <2>1. /\ e \in Ends /\ call[t].active /\ p \in Seq(Bytes) /\ Len(p) = r
        /\ handed' = [handed EXCEPT ![e] = @ \o p]
        /\ call' = [call EXCEPT ![t].sent = @ + r] /\ UNCHANGED result
    BY <1>3, SendSomeDoes
  <2>2. \A b \in ToSet(p) : b.thread = t /\ b.call = Len(result[t]) + 1
    BY DEF Piece, Byte, ToSet
  <2> HIDE DEF e, p
  <2>3. \A u \in Threads : call'[u].active = call[u].active
    BY <2>1 DEF TypeOK
  <2>4. handed'[e] = handed[e] \o p /\ \A f \in Ends : f # e => handed'[f] = handed[f]
    BY <2>1 DEF TypeOK
  <2>5. ToSet(handed[e] \o p) = ToSet(handed[e]) \cup ToSet(p)
    BY <2>1, QueueType, SeqJoinedSet
  <2>6. \A b \in ToSet(p) : Called(b)'
    BY <2>1, <2>2, <2>3 DEF Called
  <2>7. \A f \in Ends : \A b \in ToSet(handed[f]) : Called(b)'
    BY <1>0, <1>1, <2>1, <2>3 DEF CalledBefore
  <2> QED
    BY <2>4, <2>5, <2>6, <2>7 DEF CalledBefore
<1>4. ASSUME NEW t \in Threads, SendReturns(t) \/ SendThrows(t) \/ SendInterrupted(t)
      PROVE  CalledBefore'
  <2>1. /\ Len(result'[t]) = Len(result[t]) + 1 /\ UNCHANGED handed
        /\ \A u \in Threads : u # t => result'[u] = result[u] /\ call'[u] = call[u]
    BY <1>4, CompletesDoes
  <2> QED
    BY <1>0, <1>1, <2>1 DEF CalledBefore
<1>5. CASE UNCHANGED <<handed, call, result>>
  BY <1>5 DEF CalledBefore, Called
<1> QED
  BY <1>2, <1>3, <1>4, <1>5
  DEF Next, Receive, Take, ReceiveThrows, ReceiveEnd, Transmit, Destroy

(* What a call that ended in this way handed over. *)
Kept(s, t, k, o) ==
  IF o.how = "returned" THEN Exactly(s, t, k, o.len)
  ELSE \E n \in 0..(o.len - 1) : Exactly(s, t, k, n)

LEMMA SentExactlyIs ==
  /\ SentExactly <=>
       \A t \in Threads :
         /\ \A k \in 1..Len(result[t]) : Kept(handed[End(t)], t, k, result[t][k])
         /\ call[t].active => Exactly(handed[End(t)], t, Len(result[t]) + 1, call[t].sent)
  /\ SentExactly' <=>
       \A t \in Threads :
         /\ \A k \in 1..Len(result'[t]) : Kept(handed'[End(t)], t, k, result'[t][k])
         /\ call'[t].active => Exactly(handed'[End(t)], t, Len(result'[t]) + 1, call'[t].sent)
<1>1. \A t, k, n : /\ TakenExactly(t, k, n) <=> Exactly(handed[End(t)], t, k, n)
                   /\ TakenExactly(t, k, n)' <=> Exactly(handed'[End(t)], t, k, n)
  BY TakenIsExactly
<1> QED
  BY <1>1 DEF SentExactly, Kept

LEMMA ExactlyNone ==
  ASSUME NEW s, NEW t, NEW k, \A i \in DOMAIN s : ~(s[i].thread = t /\ s[i].call = k)
  PROVE  Exactly(s, t, k, 0)
<1>1. Mine(s, t, k) = {}
  BY DEF Mine
<1> QED
  BY <1>1 DEF Exactly

LEMMA SentExactlyStep ==
  ASSUME TypeOK, Sending, CalledBefore, SentExactly, Next
  PROVE  SentExactly'
<1>0. \A t \in Threads :
        /\ \A k \in 1..Len(result[t]) : Kept(handed[End(t)], t, k, result[t][k])
        /\ call[t].active => Exactly(handed[End(t)], t, Len(result[t]) + 1, call[t].sent)
  BY SentExactlyIs
<1>1. CASE UNCHANGED <<handed, call, result>>
  BY <1>0, <1>1, SentExactlyIs
<1>2. ASSUME NEW t \in Threads, NEW len \in Lens[t], Send(t, len)
      PROVE  SentExactly'
  <2>1. /\ ~call[t].active /\ UNCHANGED <<handed, result>> /\ call'[t].sent = 0
        /\ \A u \in Threads : u # t => call'[u] = call[u]
    BY <1>2 DEF Send, TypeOK
  <2>2. Exactly(handed[End(t)], t, Len(result[t]) + 1, 0)
    <3>1. ASSUME NEW b \in ToSet(handed[End(t)]), b.thread = t, b.call = Len(result[t]) + 1
          PROVE  FALSE
      BY <2>1, <3>1, EndIn, CallType DEF CalledBefore, Called
    <3>2. \A i \in DOMAIN handed[End(t)] : handed[End(t)][i] \in ToSet(handed[End(t)])
      BY DEF ToSet
    <3> QED
      BY <3>1, <3>2, ExactlyNone
  <2> QED
    BY <1>0, <2>1, <2>2, SentExactlyIs
<1>3. ASSUME NEW t \in Threads, NEW r \in 1..MaxLen, SendSome(t, r)
      PROVE  SentExactly'
  <2> DEFINE s == handed[End(t)]
             p == Piece(t, r)
             k == Len(result[t]) + 1
             n == call[t].sent
  <2>1. /\ End(t) \in Ends /\ call[t].active /\ p \in Seq(Bytes) /\ Len(p) = r
        /\ handed' = [handed EXCEPT ![End(t)] = @ \o p]
        /\ call' = [call EXCEPT ![t].sent = @ + r] /\ UNCHANGED result
    BY <1>3, SendSomeDoes
  <2>2. /\ s \in Seq(Bytes) /\ n \in Nat /\ r \in Nat /\ k \in Nat
        /\ \A i \in 1..r : p[i] = Byte(t, k, n + i)
    BY <2>1, QueueType, CallType DEF Piece
  <2>3. /\ handed'[End(t)] = s \o p /\ \A f \in Ends : f # End(t) => handed'[f] = handed[f]
    BY <2>1 DEF TypeOK
  <2>4. call'[t].sent = n + r /\ \A u \in Threads : u # t => call'[u] = call[u]
    BY <2>1 DEF TypeOK
  <2>5. Exactly(s, t, k, n)
    BY <1>0, <2>1
  <2>6. \A u \in Threads : Len(result[u]) \in Nat
    BY CallType
  <2> HIDE DEF s, p, k, n
  <2>7. /\ Exactly(s \o p, t, k, n + r)
        /\ \A u, j, m : ~(u = t /\ j = k) /\ Exactly(s, u, j, m) => Exactly(s \o p, u, j, m)
    BY <2>1, <2>2, <2>5, ExactlyGrows
  <2>8. \A u, j, o : ~(u = t /\ j = k) /\ Kept(s, u, j, o) => Kept(s \o p, u, j, o)
    BY <2>7 DEF Kept
  <2>9. ASSUME NEW u \in Threads, NEW j \in 1..Len(result[u])
        PROVE  Kept(handed'[End(u)], u, j, result'[u][j])
    <3>1. Kept(handed[End(u)], u, j, result[u][j]) /\ End(u) \in Ends /\ result' = result
      BY <1>0, <2>1, EndIn
    <3>2. CASE End(u) = End(t)
      <4>1. ~(u = t /\ j = k)
        BY <2>6 DEF k
      <4>2. Kept(s, u, j, result[u][j])
        BY <3>1, <3>2 DEF s
      <4> QED
        BY <2>3, <2>8, <3>1, <3>2, <4>1, <4>2
    <3> QED
      BY <2>3, <3>1, <3>2
  <2>10. ASSUME NEW u \in Threads, call'[u].active
         PROVE  Exactly(handed'[End(u)], u, Len(result'[u]) + 1, call'[u].sent)
    <3>1. CASE u = t
      BY <2>1, <2>3, <2>4, <2>7, <3>1 DEF k
    <3>2. CASE u # t
      <4>1. Exactly(handed[End(u)], u, Len(result[u]) + 1, call[u].sent) /\ End(u) \in Ends
            /\ result' = result /\ call'[u] = call[u]
        BY <1>0, <2>1, <2>4, <2>10, <3>2, EndIn
      <4>2. CASE End(u) = End(t)
        <5>1. Exactly(s, u, Len(result[u]) + 1, call[u].sent)
          BY <4>1, <4>2 DEF s
        <5> QED
          BY <2>3, <2>7, <3>2, <4>1, <4>2, <5>1
      <4> QED
        BY <2>3, <4>1, <4>2
    <3> QED
      BY <3>1, <3>2
  <2> QED
    BY <2>1, <2>9, <2>10, SentExactlyIs
<1>4. ASSUME NEW t \in Threads, SendReturns(t) \/ SendThrows(t) \/ SendInterrupted(t)
      PROVE  SentExactly'
  <2> DEFINE k == Len(result[t]) + 1
  <2>1. /\ call[t].active /\ ~call'[t].active
        /\ Len(result'[t]) = Len(result[t]) + 1
        /\ \A j \in 1..Len(result[t]) : result'[t][j] = result[t][j]
        /\ result'[t][k].len = call[t].len
        /\ IF result'[t][k].how = "returned"
           THEN call[t].sent = call[t].len ELSE call[t].sent < call[t].len
        /\ \A u \in Threads : u # t => result'[u] = result[u] /\ call'[u] = call[u]
        /\ UNCHANGED handed
    BY <1>4, CompletesDoes
  <2>2. Kept(handed[End(t)], t, k, result'[t][k])
    <3>1. Exactly(handed[End(t)], t, k, call[t].sent)
      BY <1>0, <2>1
    <3>2. call[t].sent < call[t].len => call[t].sent \in 0..(call[t].len - 1)
      BY CallType
    <3> QED
      BY <2>1, <3>1, <3>2 DEF Kept
  <2>3. \A j \in 1..Len(result'[t]) : j \in 1..Len(result[t]) \/ j = k
    BY <2>1, CallType
  <2> HIDE DEF k
  <2>4. \A j \in 1..Len(result'[t]) : Kept(handed[End(t)], t, j, result'[t][j])
    BY <1>0, <2>1, <2>2, <2>3
  <2> QED
    BY <1>0, <2>1, <2>4, SentExactlyIs
<1> QED
  BY <1>1, <1>2, <1>3, <1>4
  DEF Next, Receive, Take, ReceiveThrows, ReceiveEnd, Transmit, Destroy

-----------------------------------------------------------------------------
(* Nothing is lost or added on the way.                                    *)

LEMMA JoinedTwice ==
  \A s, t, u \in Seq(Bytes) : (s \o t) \o u = s \o (t \o u)
BY ConcatAssociative

LEMMA ReceiveDoes ==
  ASSUME TypeOK, NEW e \in Ends, NEW n \in Sizes, Receive(e, n)
  PROVE  /\ ~shut[e] /\ inbox[e] # <<>>
         /\ \A q \in Seq(Bytes) : got'[e] \o (inbox'[e] \o q) = got[e] \o (inbox[e] \o q)
         /\ Len(got'[e]) + Len(inbox'[e]) = Len(got[e]) + Len(inbox[e])
         /\ \A f \in Ends : f # e => got'[f] = got[f] /\ inbox'[f] = inbox[f]
         /\ UNCHANGED <<call, result, handed, queue, eof, shut, reset>>
<1> DEFINE m == IF n < Len(inbox[e]) THEN n ELSE Len(inbox[e])
<1>1. m \in 0..Len(inbox[e])
  BY StreamAssumption, QueueType
<1>2. /\ ~shut[e] /\ inbox[e] # <<>> /\ Take(e, m)
      /\ UNCHANGED <<call, result, handed, queue, eof, shut, reset>>
  BY DEF Receive
<1> HIDE DEF m
<1> DEFINE first == SubSeq(inbox[e], 1, m)
           rest == SubSeq(inbox[e], m + 1, Len(inbox[e]))
<1>3. /\ first \in Seq(Bytes) /\ rest \in Seq(Bytes) /\ first \o rest = inbox[e]
      /\ Len(first) = m /\ Len(rest) = Len(inbox[e]) - m
  BY <1>1, QueueType, SeqSplit
<1>4. got' = [got EXCEPT ![e] = @ \o first] /\ inbox' = [inbox EXCEPT ![e] = rest]
  BY <1>2 DEF Take
<1>5. /\ got'[e] = got[e] \o first /\ inbox'[e] = rest
      /\ \A f \in Ends : f # e => got'[f] = got[f] /\ inbox'[f] = inbox[f]
  BY <1>4 DEF TypeOK
<1> HIDE DEF first, rest
<1>6. got[e] \in Seq(Bytes)
  BY QueueType
<1>7. ASSUME NEW q \in Seq(Bytes)
      PROVE  (got[e] \o first) \o (rest \o q) = got[e] \o (inbox[e] \o q)
  <2>1. rest \o q \in Seq(Bytes)
    BY <1>3, SeqJoined
  <2>2. first \in Seq(Bytes) /\ rest \in Seq(Bytes) /\ first \o rest = inbox[e]
    BY <1>3
  <2>3. (got[e] \o first) \o (rest \o q) = got[e] \o (first \o (rest \o q))
    BY <1>6, <2>1, <2>2, JoinedTwice, Zenon
  <2>4. (first \o rest) \o q = first \o (rest \o q)
    BY <1>7, <2>2, JoinedTwice, Zenon
  <2> QED
    BY <2>2, <2>3, <2>4, Zenon
<1>8. Len(got[e] \o first) = Len(got[e]) + Len(first)
  BY <1>3, <1>6, SeqJoined
<1>9. Len(got[e] \o first) + Len(rest) = Len(got[e]) + Len(inbox[e])
  <2>1. Len(rest) = Len(inbox[e]) - m /\ Len(got[e] \o first) = Len(got[e]) + m
    BY <1>3, <1>8
  <2>2. Len(inbox[e]) \in Nat /\ m \in Nat /\ Len(got[e]) \in Nat
    BY <1>1, QueueType
  <2>3. \A x, y, z \in Nat : (x + z) + (y - z) = x + y
    OBVIOUS
  <2>4. (Len(got[e]) + m) + (Len(inbox[e]) - m) = Len(got[e]) + Len(inbox[e])
    BY <2>2, <2>3
  <2> QED
    BY <2>1, <2>4
<1> QED
  BY <1>2, <1>5, <1>7, <1>9

(* The kernel of e learns of a reset; what it knew already stays. *)
ResetAt(e) ==
  /\ reset'[e] # "none" /\ (reset[e] # "none" => reset'[e] = reset[e])
  /\ reset'[e] = "afterEnd" => reset[e] = "afterEnd" \/ queue[Peer(e)] = <<>>
  /\ \A f \in Ends : f # e => reset'[f] = reset[f]

LEMMA ResetDoes ==
  ASSUME TypeOK, NEW e \in Ends, Reset(e)
  PROVE  ResetAt(e) /\ \A f \in Ends : queue'[f] = <<>>
  BY DEF Reset, ResetAt, TypeOK

LEMMA TransmitDoes ==
  ASSUME TypeOK, NEW e \in Ends, Transmit(e)
  PROVE  /\ queue[e] # <<>> /\ Len(queue[e]) > 0
         /\ UNCHANGED <<call, result, handed, got, eof, shut>>
         /\ shut[Peer(e)] =>
              /\ UNCHANGED inbox /\ \A f \in Ends : queue'[f] = <<>>
              /\ ResetAt(e)
         /\ ~shut[Peer(e)] =>
              /\ inbox'[Peer(e)] \o queue'[e] = inbox[Peer(e)] \o queue[e]
              /\ Len(inbox'[Peer(e)]) + Len(queue'[e]) = Len(inbox[Peer(e)]) + Len(queue[e])
              /\ \A f \in Ends : f # e => queue'[f] = queue[f] /\ inbox'[Peer(f)] = inbox[Peer(f)]
              /\ UNCHANGED reset
<1>1. /\ queue[e] # <<>> /\ UNCHANGED <<call, result, handed, got, eof, shut>>
  BY DEF Transmit
<1>2. Len(queue[e]) > 0
  BY <1>1, QueueType, SeqPlaces
<1>3. CASE shut[Peer(e)]
  <2>1. Reset(e) /\ UNCHANGED inbox
    BY <1>3 DEF Transmit
  <2> QED
    BY <1>1, <1>2, <1>3, <2>1, ResetDoes
<1>4. CASE ~shut[Peer(e)]
  <2> DEFINE p == Peer(e)
  <2>1. /\ queue' = [queue EXCEPT ![e] = Tail(@)]
        /\ inbox' = [inbox EXCEPT ![p] = Append(@, Head(queue[e]))]
        /\ UNCHANGED reset
    BY <1>4 DEF Transmit
  <2>2. p \in Ends /\ p # e /\ \A f \in Ends : f # e => Peer(f) # p /\ Peer(f) \in Ends
    BY PeerIn
  <2> HIDE DEF p
  <2>3. /\ inbox'[p] = Append(inbox[p], Head(queue[e])) /\ queue'[e] = Tail(queue[e])
        /\ \A f \in Ends : /\ f # e => queue'[f] = queue[f]
                           /\ f # p => inbox'[f] = inbox[f]
    BY <2>1, <2>2 DEF TypeOK
  <2>4. inbox[p] \in Seq(Bytes) /\ queue[e] \in Seq(Bytes) /\ Len(inbox[p]) \in Nat /\ Len(queue[e]) \in Nat
    BY <2>2, QueueType
  <2>5. Append(inbox[p], Head(queue[e])) \o Tail(queue[e]) = inbox[p] \o queue[e]
    BY <1>1, <2>4, SeqMovedOver
  <2>6. Head(queue[e]) \in Bytes /\ Len(Tail(queue[e])) = Len(queue[e]) - 1
    BY <1>1, <2>4, SeqTaken
  <2>7. Len(Append(inbox[p], Head(queue[e]))) = Len(inbox[p]) + 1
    BY <2>4, <2>6, SeqAppended
  <2>8. Len(inbox'[p]) + Len(queue'[e]) = Len(inbox[p]) + Len(queue[e])
    <3>1. Len(inbox'[p]) = Len(inbox[p]) + 1 /\ Len(queue'[e]) = Len(queue[e]) - 1
      BY <2>3, <2>6, <2>7
    <3>2. \A x, y \in Nat : (x + 1) + (y - 1) = x + y
      OBVIOUS
    <3>3. Len(inbox[p]) \in Nat /\ Len(queue[e]) \in Nat
      BY <2>4
    <3>4. (Len(inbox[p]) + 1) + (Len(queue[e]) - 1) = Len(inbox[p]) + Len(queue[e])
      BY <3>2, <3>3
    <3> QED
      BY <3>1, <3>4
  <2> QED
    BY <1>1, <1>2, <1>4, <2>1, <2>2, <2>3, <2>5, <2>8 DEF p
<1> QED
  BY <1>3, <1>4

LEMMA DestroyDoes ==
  ASSUME TypeOK, NEW e \in Ends, Destroy(e)
  PROVE  /\ ~shut[e] /\ shut'[e] /\ \A f \in Ends : f # e => shut'[f] = shut[f]
         /\ inbox'[e] = <<>> /\ \A f \in Ends : f # e => inbox'[f] = inbox[f]
         /\ inbox[e] = <<>> => UNCHANGED <<queue, reset>>
         /\ inbox[e] # <<>> =>
              /\ \A f \in Ends : queue'[f] = <<>>
              /\ ResetAt(Peer(e))
         /\ UNCHANGED <<call, result, handed, got, eof>>
<1>1. /\ ~shut[e] /\ UNCHANGED <<call, result, handed, got, eof>>
      /\ shut' = [shut EXCEPT ![e] = TRUE] /\ inbox' = [inbox EXCEPT ![e] = <<>>]
      /\ inbox[e] = <<>> => UNCHANGED <<queue, reset>>
      /\ inbox[e] # <<>> => Reset(Peer(e))
  BY DEF Destroy
<1>2. /\ shut'[e] /\ \A f \in Ends : f # e => shut'[f] = shut[f]
      /\ inbox'[e] = <<>> /\ \A f \in Ends : f # e => inbox'[f] = inbox[f]
  BY <1>1 DEF TypeOK
<1>3. ASSUME inbox[e] # <<>>
      PROVE  /\ \A f \in Ends : queue'[f] = <<>>
             /\ ResetAt(Peer(e))
  BY <1>1, <1>3, PeerIn, ResetDoes
<1> QED
  BY <1>1, <1>2, <1>3

LEMMA ConservedStep ==
  ASSUME TypeOK, Sending, Conserved, ResetByLoss, Next
  PROVE  Conserved'
<1>1. CASE UNCHANGED <<handed, queue, inbox, got, shut>> /\ AtMostReported
  <2>1. \A e \in Ends : Whole(e)' => Whole(e)
    BY <1>1 DEF AtMostReported, Whole
  <2> QED
    BY <1>1, <2>1 DEF Conserved, OnTheWay
<1>2. ASSUME NEW t \in Threads, NEW r \in 1..MaxLen, SendSome(t, r)
      PROVE  Conserved'
  <2> DEFINE f == End(t)
             e == Peer(f)
             p == Piece(t, r)
  <2>1. /\ f \in Ends /\ p \in Seq(Bytes)
        /\ queue' = [queue EXCEPT ![f] = @ \o p] /\ handed' = [handed EXCEPT ![f] = @ \o p]
        /\ UNCHANGED <<inbox, got, shut, reset>>
    BY <1>2, SendSomeDoes
  <2>2. e \in Ends /\ Peer(e) = f /\ \A g \in Ends : g # e => Peer(g) # f /\ Peer(g) \in Ends
    BY <2>1, PeerIn
  <2> HIDE DEF f, e, p
  <2>3. /\ queue'[f] = queue[f] \o p /\ handed'[f] = handed[f] \o p
        /\ \A g \in Ends : g # f => queue'[g] = queue[g] /\ handed'[g] = handed[g]
    BY <2>1 DEF TypeOK
  <2>4. /\ got[e] \in Seq(Bytes) /\ inbox[e] \in Seq(Bytes) /\ queue[f] \in Seq(Bytes)
    BY <2>1, <2>2, QueueType
  <2>5. got[e] \o (inbox[e] \o (queue[f] \o p)) = (got[e] \o (inbox[e] \o queue[f])) \o p
    <3>1. inbox[e] \o (queue[f] \o p) = (inbox[e] \o queue[f]) \o p /\ inbox[e] \o queue[f] \in Seq(Bytes)
      <4>1. inbox[e] \in Seq(Bytes) /\ queue[f] \in Seq(Bytes) /\ p \in Seq(Bytes)
        BY <2>1, <2>4
      <4>2. (inbox[e] \o queue[f]) \o p = inbox[e] \o (queue[f] \o p)
        BY <4>1, JoinedTwice, Zenon
      <4>3. inbox[e] \o queue[f] \in Seq(Bytes)
        BY <4>1, SeqJoined
      <4> QED
        BY <4>2, <4>3, Zenon
    <3>2. (got[e] \o (inbox[e] \o queue[f])) \o p = got[e] \o ((inbox[e] \o queue[f]) \o p)
      <4>1. got[e] \in Seq(Bytes) /\ p \in Seq(Bytes)
        BY <2>1, <2>4
      <4> QED
        BY <3>1, <4>1, JoinedTwice, Zenon
    <3> QED
      BY <3>1, <3>2, Zenon
  <2>6. ~shut[e] /\ Whole(e) => handed[f] = got[e] \o (inbox[e] \o queue[f])
    BY <2>2 DEF Conserved, OnTheWay
  <2>7. ~shut'[e] /\ Whole(e)' => handed'[f] = got'[e] \o (inbox'[e] \o queue'[f])
    BY <2>1, <2>3, <2>5, <2>6 DEF Whole
  <2>8. ASSUME NEW g \in Ends, g # e, ~shut'[g], Whole(g)'
        PROVE  handed'[Peer(g)] = got'[g] \o (inbox'[g] \o queue'[Peer(g)])
    BY <2>1, <2>2, <2>3, <2>8 DEF Conserved, OnTheWay, Whole
  <2> QED
    BY <2>2, <2>7, <2>8 DEF Conserved, OnTheWay
<1>3. ASSUME NEW e \in Ends, NEW n \in Sizes, Receive(e, n)
      PROVE  Conserved'
  <2>1. /\ \A q \in Seq(Bytes) : got'[e] \o (inbox'[e] \o q) = got[e] \o (inbox[e] \o q)
        /\ \A f \in Ends : f # e => got'[f] = got[f] /\ inbox'[f] = inbox[f]
        /\ UNCHANGED <<handed, queue, shut, reset>>
    BY <1>3, ReceiveDoes
  <2>2. queue[Peer(e)] \in Seq(Bytes)
    BY PeerIn, QueueType
  <2>3. got'[e] \o (inbox'[e] \o queue[Peer(e)]) = got[e] \o (inbox[e] \o queue[Peer(e)])
    BY <2>1, <2>2
  <2> QED
    BY <2>1, <2>3 DEF Conserved, OnTheWay, Whole
<1>6. ASSUME NEW e \in Ends, ResetAt(e), queue'[Peer(e)] = <<>>, ~shut[e], Whole(e)',
             UNCHANGED <<handed, got>>, inbox'[e] = inbox[e]
      PROVE  handed'[Peer(e)] = OnTheWay(e)'
  <2>1. queue[Peer(e)] = <<>> /\ Whole(e)
    BY <1>6 DEF ResetAt, Whole, ResetByLoss, TypeOK, Resets
  <2> QED
    BY <1>6, <2>1 DEF Conserved, OnTheWay
<1>4. ASSUME NEW e \in Ends, Transmit(e)
      PROVE  Conserved'
  <2>1. CASE shut[Peer(e)]
    <3>1. /\ UNCHANGED <<handed, inbox, got, shut>> /\ ResetAt(e)
          /\ \A f \in Ends : queue'[f] = <<>>
      BY <1>4, <2>1, TransmitDoes
    <3>2. \A f \in Ends : f = e \/ f = Peer(e)
      BY DEF Ends, Peer
    <3>3. ~shut[e] /\ Whole(e)' => handed'[Peer(e)] = OnTheWay(e)'
      BY <1>6, <3>1, PeerIn
    <3> QED
      BY <2>1, <3>1, <3>2, <3>3 DEF Conserved
  <2>2. CASE ~shut[Peer(e)]
    <3>1. /\ inbox'[Peer(e)] \o queue'[e] = inbox[Peer(e)] \o queue[e]
          /\ \A f \in Ends : f # e => queue'[f] = queue[f] /\ inbox'[Peer(f)] = inbox[Peer(f)]
          /\ UNCHANGED <<handed, got, shut, reset>>
      BY <1>4, <2>2, TransmitDoes
    <3>2. \A f \in Ends : Peer(f) \in Ends /\ Peer(Peer(f)) = f
      BY PeerIn
    <3>3. \A f \in Ends : inbox'[Peer(f)] \o queue'[f] = inbox[Peer(f)] \o queue[f]
      BY <3>1
    <3>4. \A f \in Ends : inbox'[f] \o queue'[Peer(f)] = inbox[f] \o queue[Peer(f)]
      BY <3>2, <3>3
    <3> QED
      BY <3>1, <3>4 DEF Conserved, OnTheWay, Whole
  <2> QED
    BY <2>1, <2>2
<1>5. ASSUME NEW e \in Ends, Destroy(e)
      PROVE  Conserved'
  <2>1. /\ shut'[e] /\ \A f \in Ends : f = e \/ f = Peer(e)
        /\ shut'[Peer(e)] = shut[Peer(e)] /\ inbox'[Peer(e)] = inbox[Peer(e)]
        /\ inbox[e] = <<>> => UNCHANGED <<queue, reset>>
        /\ inbox[e] # <<>> => ResetAt(Peer(e)) /\ queue'[Peer(Peer(e))] = <<>>
        /\ UNCHANGED <<handed, got>>
    BY <1>5, DestroyDoes, PeerIn DEF Ends, Peer
  <2>2. CASE inbox[e] = <<>>
    BY <2>1, <2>2, PeerIn DEF Conserved, OnTheWay, Whole
  <2>3. CASE inbox[e] # <<>>
    <3>1. ~shut[Peer(e)] /\ Whole(Peer(e))' => handed'[Peer(Peer(e))] = OnTheWay(Peer(e))'
      BY <1>6, <2>1, <2>3, PeerIn
    <3> QED
      BY <2>1, <3>1 DEF Conserved
  <2> QED
    BY <2>2, <2>3
<1> QED
  <2>1. ASSUME NEW e \in Ends, ReceiveThrows(e)
        PROVE  UNCHANGED <<handed, queue, inbox, got, shut>> /\ AtMostReported
    BY <2>1, ReportedDoes DEF ReceiveThrows
  <2>2. UNCHANGED reset => AtMostReported
    BY DEF AtMostReported
  <2> QED
    BY <1>1, <1>2, <1>3, <1>4, <1>5, <2>1, <2>2, CompletesDoes
    DEF Next, Send, ReceiveEnd

LEMMA NothingAddedStep ==
  ASSUME TypeOK, Sending, NothingAdded, Next
  PROVE  NothingAdded'
<1>0. \A e \in Ends : /\ Len(handed[e]) \in Nat /\ Len(queue[e]) \in Nat /\ Len(inbox[e]) \in Nat
                      /\ Len(got[e]) \in Nat /\ Peer(e) \in Ends /\ Peer(Peer(e)) = e /\ Peer(e) # e
  BY QueueType, PeerIn
<1>1. CASE UNCHANGED <<handed, queue, inbox, got>>
  BY <1>1 DEF NothingAdded
<1>2. ASSUME NEW t \in Threads, NEW r \in 1..MaxLen, SendSome(t, r)
      PROVE  NothingAdded'
  <2> DEFINE f == End(t)
             p == Piece(t, r)
  <2>1. /\ f \in Ends /\ p \in Seq(Bytes) /\ Len(p) = r
        /\ queue' = [queue EXCEPT ![f] = @ \o p] /\ handed' = [handed EXCEPT ![f] = @ \o p]
        /\ UNCHANGED <<inbox, got>>
    BY <1>2, SendSomeDoes
  <2>2. /\ queue'[f] = queue[f] \o p /\ handed'[f] = handed[f] \o p
        /\ \A g \in Ends : g # f => queue'[g] = queue[g] /\ handed'[g] = handed[g]
    BY <2>1 DEF TypeOK
  <2>3. Len(queue[f] \o p) = Len(queue[f]) + r /\ Len(handed[f] \o p) = Len(handed[f]) + r
    <3>1. queue[f] \in Seq(Bytes) /\ handed[f] \in Seq(Bytes)
      BY <2>1, QueueType
    <3>2. Len(queue[f] \o p) = Len(queue[f]) + Len(p)
      BY <2>1, <3>1, SeqJoined
    <3>3. Len(handed[f] \o p) = Len(handed[f]) + Len(p)
      BY <2>1, <3>1, SeqJoined
    <3> QED
      BY <2>1, <3>2, <3>3
  <2>4. \A x, y, q, h \in Nat : x + y + q <= h => x + y + (q + r) <= h + r
    OBVIOUS
  <2> HIDE DEF f, p
  <2>5. ASSUME NEW e \in Ends
        PROVE  Len(got'[e]) + Len(inbox'[e]) + Len(queue'[Peer(e)]) <= Len(handed'[Peer(e)])
    <3>1. Len(got[e]) + Len(inbox[e]) + Len(queue[Peer(e)]) <= Len(handed[Peer(e)])
      BY DEF NothingAdded
    <3>2. CASE Peer(e) = f
      <4>1. /\ Len(got[e]) \in Nat /\ Len(inbox[e]) \in Nat /\ Len(queue[f]) \in Nat
            /\ Len(handed[f]) \in Nat /\ Len(got[e]) + Len(inbox[e]) + Len(queue[f]) <= Len(handed[f])
        BY <1>0, <3>1, <3>2
      <4>2. Len(got[e]) + Len(inbox[e]) + (Len(queue[f]) + r) <= Len(handed[f]) + r
        BY <2>4, <4>1
      <4> QED
        BY <2>1, <2>2, <2>3, <3>2, <4>2
    <3>3. CASE Peer(e) # f
      BY <1>0, <2>1, <2>2, <3>1, <3>3
    <3> QED
      BY <3>2, <3>3
  <2> QED
    BY <2>5 DEF NothingAdded
<1>3. ASSUME NEW e \in Ends, NEW n \in Sizes, Receive(e, n)
      PROVE  NothingAdded'
  <2>1. /\ Len(got'[e]) + Len(inbox'[e]) = Len(got[e]) + Len(inbox[e])
        /\ \A f \in Ends : f # e => got'[f] = got[f] /\ inbox'[f] = inbox[f]
        /\ UNCHANGED <<handed, queue>>
    BY <1>3, ReceiveDoes
  <2>2. \A f \in Ends : Len(got'[f]) + Len(inbox'[f]) = Len(got[f]) + Len(inbox[f])
    BY <2>1
  <2> QED
    BY <2>1, <2>2 DEF NothingAdded
<1>4. ASSUME \A f \in Ends : \/ queue'[f] = queue[f] \/ queue'[f] = <<>>,
             \A f \in Ends : \/ inbox'[f] = inbox[f] \/ inbox'[f] = <<>>,
             UNCHANGED <<got, handed>>
      PROVE  NothingAdded'
  <2>1. Len(<<>>) = 0
    OBVIOUS
  <2>2. ASSUME NEW f \in Ends
        PROVE  Len(got'[f]) + Len(inbox'[f]) + Len(queue'[Peer(f)]) <= Len(handed'[Peer(f)])
    <3>1. /\ Len(queue'[Peer(f)]) = Len(queue[Peer(f)]) \/ Len(queue'[Peer(f)]) = 0
          /\ Len(inbox'[f]) = Len(inbox[f]) \/ Len(inbox'[f]) = 0
          /\ got' = got /\ handed' = handed
      BY <1>0, <1>4, <2>1
    <3>2. Len(got[f]) + Len(inbox[f]) + Len(queue[Peer(f)]) <= Len(handed[Peer(f)])
      BY DEF NothingAdded
    <3>3. \A x, i, q, j, k, h \in Nat :
            x + i + q <= h /\ (j = i \/ j = 0) /\ (k = q \/ k = 0) => x + j + k <= h
      OBVIOUS
    <3>4. /\ Len(got[f]) \in Nat /\ Len(inbox[f]) \in Nat /\ Len(queue[Peer(f)]) \in Nat
          /\ Len(handed[Peer(f)]) \in Nat
          /\ Len(inbox'[f]) \in Nat /\ Len(queue'[Peer(f)]) \in Nat
      BY <1>0, <3>1
    <3>5. Len(got[f]) + Len(inbox'[f]) + Len(queue'[Peer(f)]) <= Len(handed[Peer(f)])
      <4> DEFINE x == Len(got[f])
                 i == Len(inbox[f])
                 q == Len(queue[Peer(f)])
                 j == Len(inbox'[f])
                 k == Len(queue'[Peer(f)])
                 h == Len(handed[Peer(f)])
      <4>1. /\ {x, i, q, j, k, h} \subseteq Nat
            /\ x + i + q <= h /\ (j = i \/ j = 0) /\ (k = q \/ k = 0)
        BY <3>1, <3>2, <3>4
      <4> HIDE DEF x, i, q, j, k, h
      <4>2. x + j + k <= h
        BY <3>3, <4>1
      <4> QED
        BY <4>2 DEF x, i, q, j, k, h
    <3> QED
      BY <3>1, <3>5
  <2> QED
    BY <2>2 DEF NothingAdded
<1>5. ASSUME NEW e \in Ends, Transmit(e)
      PROVE  NothingAdded'
  <2>1. CASE shut[Peer(e)]
    <3>1. UNCHANGED <<inbox, got, handed>> /\ \A f \in Ends : queue'[f] = <<>>
      BY <1>5, <2>1, TransmitDoes
    <3> QED
      BY <1>4, <3>1
  <2>2. CASE ~shut[Peer(e)]
    <3>1. /\ Len(inbox'[Peer(e)]) + Len(queue'[e]) = Len(inbox[Peer(e)]) + Len(queue[e])
          /\ \A f \in Ends : f # e => queue'[f] = queue[f] /\ inbox'[Peer(f)] = inbox[Peer(f)]
          /\ UNCHANGED <<handed, got>>
      BY <1>5, <2>2, TransmitDoes
    <3>2. /\ TypeOK' /\ \A f \in Ends : Len(inbox'[f]) \in Nat /\ Len(queue'[f]) \in Nat
      <4>1. TypeOK'
        BY TypeStep
      <4>2. \A f \in Ends : inbox'[f] \in Seq(Bytes) /\ queue'[f] \in Seq(Bytes)
        BY <4>1 DEF TypeOK
      <4> QED
        BY <4>1, <4>2, SeqPlaces
    <3>3. \A f \in Ends : Len(inbox'[Peer(f)]) + Len(queue'[f]) = Len(inbox[Peer(f)]) + Len(queue[f])
      BY <3>1
    <3>4. ASSUME NEW f \in Ends
          PROVE  Len(got'[f]) + Len(inbox'[f]) + Len(queue'[Peer(f)]) <= Len(handed'[Peer(f)])
      <4>1. Len(inbox'[f]) + Len(queue'[Peer(f)]) = Len(inbox[f]) + Len(queue[Peer(f)])
        BY <1>0, <3>3
      <4>2. Len(got[f]) + Len(inbox[f]) + Len(queue[Peer(f)]) <= Len(handed[Peer(f)])
        BY DEF NothingAdded
      <4>3. \A x, i, q, j, k, h \in Nat : x + i + q <= h /\ j + k = i + q => x + j + k <= h
        OBVIOUS
      <4>4. Len(got[f]) + Len(inbox'[f]) + Len(queue'[Peer(f)]) <= Len(handed[Peer(f)])
        BY <1>0, <3>2, <4>1, <4>2, <4>3
      <4> QED
        BY <3>1, <4>4
    <3> QED
      BY <3>4 DEF NothingAdded
  <2> QED
    BY <2>1, <2>2
<1>6. ASSUME NEW e \in Ends, Destroy(e)
      PROVE  NothingAdded'
  <2>1. /\ inbox'[e] = <<>> /\ \A f \in Ends : f # e => inbox'[f] = inbox[f]
        /\ inbox[e] = <<>> => UNCHANGED <<queue, reset>>
        /\ inbox[e] # <<>> => \A f \in Ends : queue'[f] = <<>>
        /\ UNCHANGED <<handed, got>>
    BY <1>6, DestroyDoes
  <2>2. \A f \in Ends : inbox'[f] = inbox[f] \/ inbox'[f] = <<>>
    BY <2>1
  <2>3. \A f \in Ends : queue'[f] = queue[f] \/ queue'[f] = <<>>
    BY <2>1
  <2> QED
    BY <1>4, <2>1, <2>2, <2>3
<1> QED
  BY <1>1, <1>2, <1>3, <1>5, <1>6, CompletesDoes
  DEF Next, Send, ReceiveThrows, ReceiveEnd

LEMMA ResetByLossStep ==
  ASSUME TypeOK, Sending, NothingAdded, ResetByLoss, Next
  PROVE  ResetByLoss'
<1>0. \A e \in Ends : /\ Len(handed[e]) \in Nat /\ Len(queue[e]) \in Nat /\ Len(inbox[e]) \in Nat
                      /\ Len(got[e]) \in Nat /\ Peer(e) \in Ends /\ Peer(Peer(e)) = e /\ Peer(e) # e
  BY QueueType, PeerIn
<1>1. CASE UNCHANGED <<handed, queue, got, shut>> /\ AtMostReported
  BY <1>1 DEF ResetByLoss, AtMostReported
<1>2. ASSUME NEW t \in Threads, NEW r \in 1..MaxLen, SendSome(t, r)
      PROVE  ResetByLoss'
  <2> DEFINE f == End(t)
             p == Piece(t, r)
  <2>1. /\ f \in Ends /\ reset[f] = "none" /\ ~shut[f]
        /\ handed' = [handed EXCEPT ![f] = @ \o p] /\ queue' = [queue EXCEPT ![f] = @ \o p]
        /\ UNCHANGED <<got, shut, reset>>
    BY <1>2, SendSomeDoes DEF Sending
  <2> HIDE DEF f, p
  <2>2. \A g \in Ends : g # f => handed'[g] = handed[g] /\ queue'[g] = queue[g]
    BY <2>1 DEF TypeOK
  <2>3. \A g \in Ends : reset[g] # "none" => Peer(g) # f /\ g # f
    BY <2>1 DEF ResetByLoss
  <2> QED
    BY <1>0, <2>1, <2>2, <2>3 DEF ResetByLoss
<1>3. ASSUME NEW e \in Ends, NEW n \in Sizes, Receive(e, n)
      PROVE  ResetByLoss'
  <2>1. /\ ~shut[e] /\ \A f \in Ends : f # e => got'[f] = got[f]
        /\ UNCHANGED <<handed, queue, shut, reset>>
    BY <1>3, ReceiveDoes
  <2>2. \A f \in Ends : reset[f] # "none" => Peer(f) # e
    BY <2>1 DEF ResetByLoss
  <2> QED
    BY <1>0, <2>1, <2>2 DEF ResetByLoss
<1>4. ASSUME NEW e \in Ends, Transmit(e)
      PROVE  ResetByLoss'
  <2>1. /\ Len(queue[e]) > 0 /\ UNCHANGED <<handed, got, shut>>
        /\ shut[Peer(e)] => ResetAt(e) /\ \A f \in Ends : queue'[f] = <<>>
        /\ ~shut[Peer(e)] => UNCHANGED reset /\ \A f \in Ends : f # e => queue'[f] = queue[f]
    BY <1>4, TransmitDoes
  <2>2. Len(got[Peer(e)]) < Len(handed[e])
    <3>1. Len(got[Peer(e)]) + Len(inbox[Peer(e)]) + Len(queue[e]) <= Len(handed[e])
      BY <1>0 DEF NothingAdded
    <3>2. /\ Len(got[Peer(e)]) \in Nat /\ Len(inbox[Peer(e)]) \in Nat /\ Len(queue[e]) \in Nat
          /\ Len(handed[e]) \in Nat
      BY <1>0
    <3>3. \A x, i, q, h \in Nat : x + i + q <= h /\ q > 0 => x < h
      OBVIOUS
    <3> QED
      BY <2>1, <3>1, <3>2, <3>3
  <2>3. CASE shut[Peer(e)]
    BY <1>0, <2>1, <2>2, <2>3 DEF ResetByLoss, ResetAt
  <2>4. CASE ~shut[Peer(e)]
    <3>1. \A f \in Ends : reset[f] # "none" => Peer(f) # e
      BY <2>1 DEF ResetByLoss
    <3> QED
      BY <1>0, <2>1, <2>4, <3>1 DEF ResetByLoss
  <2> QED
    BY <2>3, <2>4
<1>5. ASSUME NEW e \in Ends, Destroy(e)
      PROVE  ResetByLoss'
  <2>1. /\ shut'[e] /\ \A f \in Ends : f # e => shut'[f] = shut[f]
        /\ inbox[e] = <<>> => UNCHANGED <<queue, reset>>
        /\ inbox[e] # <<>> => reset'[e] = reset[e] /\ \A f \in Ends : queue'[f] = <<>>
        /\ UNCHANGED <<handed, got>>
    BY <1>0, <1>5, DestroyDoes DEF ResetAt
  <2>2. inbox[e] # <<>> => Len(got[e]) < Len(handed[Peer(e)])
    <3>1. Len(got[e]) + Len(inbox[e]) + Len(queue[Peer(e)]) <= Len(handed[Peer(e)])
      BY DEF NothingAdded
    <3>2. inbox[e] # <<>> => Len(inbox[e]) # 0
      BY QueueType, SeqPlaces
    <3>3. /\ Len(got[e]) \in Nat /\ Len(inbox[e]) \in Nat /\ Len(queue[Peer(e)]) \in Nat
          /\ Len(handed[Peer(e)]) \in Nat
      BY <1>0
    <3>4. \A x, i, q, h \in Nat : x + i + q <= h /\ i # 0 => x < h
      OBVIOUS
    <3> QED
      BY <3>1, <3>2, <3>3, <3>4
  <2>3. \A f \in Ends : f = e \/ f = Peer(e)
    BY DEF Ends, Peer
  <2>4. ASSUME NEW f \in Ends, reset'[f] # "none"
        PROVE  shut'[Peer(f)] /\ queue'[Peer(f)] = <<>> /\ Len(got[Peer(f)]) < Len(handed[f])
    <3>1. CASE reset[f] # "none"
      BY <1>0, <2>1, <3>1 DEF ResetByLoss
    <3>2. CASE reset[f] = "none"
      BY <1>0, <2>1, <2>2, <2>3, <2>4, <3>2
    <3> QED
      BY <3>1, <3>2
  <2> QED
    BY <2>1, <2>4 DEF ResetByLoss
<1> QED
  <2>1. ASSUME NEW e \in Ends, ReceiveThrows(e)
        PROVE  UNCHANGED <<handed, queue, got, shut>> /\ AtMostReported
    BY <2>1, ReportedDoes DEF ReceiveThrows
  <2>2. UNCHANGED reset => AtMostReported
    BY DEF AtMostReported
  <2> QED
    BY <1>1, <1>2, <1>3, <1>4, <1>5, <2>1, <2>2, CompletesDoes
    DEF Next, Send, ReceiveEnd

LEMMA EndedStep ==
  ASSUME TypeOK, Sending, Conserved, ResetByLoss, Ended, Next
  PROVE  Ended'
<1>0. \A e \in Ends : Peer(e) \in Ends /\ Peer(Peer(e)) = e /\ Peer(e) # e
  BY PeerIn
<1>1. CASE UNCHANGED <<handed, queue, inbox, got, eof, shut>> /\ AtMostReported
  BY <1>1 DEF Ended, AtMostReported
<1>2. ASSUME NEW t \in Threads, NEW r \in 1..MaxLen, SendSome(t, r)
      PROVE  Ended'
  <2> DEFINE f == End(t)
             p == Piece(t, r)
  <2>1. /\ f \in Ends /\ ~shut[f]
        /\ queue' = [queue EXCEPT ![f] = @ \o p] /\ handed' = [handed EXCEPT ![f] = @ \o p]
        /\ UNCHANGED <<inbox, got, eof, shut, reset>>
    BY <1>2, SendSomeDoes DEF Sending
  <2> HIDE DEF f, p
  <2>2. \A g \in Ends : g # f => queue'[g] = queue[g] /\ handed'[g] = handed[g]
    BY <2>1 DEF TypeOK
  <2>3. \A e \in Ends : eof[e] => Peer(e) # f
    BY <2>1 DEF Ended
  <2> QED
    BY <1>0, <2>1, <2>2, <2>3 DEF Ended
<1>3. ASSUME NEW e \in Ends, NEW n \in Sizes, Receive(e, n)
      PROVE  Ended'
  <2>1. /\ inbox[e] # <<>> /\ \A f \in Ends : f # e => got'[f] = got[f] /\ inbox'[f] = inbox[f]
        /\ UNCHANGED <<handed, queue, eof, shut, reset>>
    BY <1>3, ReceiveDoes
  <2>2. ~eof[e]
    BY <2>1 DEF Ended
  <2> QED
    BY <2>1, <2>2 DEF Ended
<1>4. ASSUME NEW e \in Ends, ReceiveEnd(e)
      PROVE  Ended'
  <2>1. /\ ~shut[e]
        /\ Whole(e) \/ reset[e] = "reported"
        /\ inbox[e] = <<>> /\ shut[Peer(e)] /\ queue[Peer(e)] = <<>>
        /\ eof' = [eof EXCEPT ![e] = TRUE]
        /\ UNCHANGED <<handed, queue, inbox, got, shut, reset>>
    BY <1>4 DEF ReceiveEnd, EndSeen, ResetByLoss, Whole
  <2>2. got[e] = handed[Peer(e)] \/ reset[e] = "reported"
    <3> SUFFICES ASSUME reset[e] # "reported" PROVE got[e] = handed[Peer(e)]
      OBVIOUS
    <3>1. handed[Peer(e)] = got[e] \o (<<>> \o <<>>)
      BY <2>1 DEF Conserved, OnTheWay
    <3>2. <<>> \o <<>> = <<>> /\ got[e] \o <<>> = got[e]
      BY QueueType, EmptySeq, ConcatEmptySeq
    <3> QED
      BY <3>1, <3>2
  <2>3. \A f \in Ends : f # e => eof'[f] = eof[f]
    BY <2>1 DEF TypeOK
  <2> QED
    BY <2>1, <2>2, <2>3 DEF Ended
<1>5. ASSUME NEW e \in Ends, Transmit(e)
      PROVE  Ended'
  <2>1. queue[e] # <<>> /\ UNCHANGED <<handed, got, eof, shut>>
    BY <1>5, TransmitDoes
  <2>2. CASE shut[Peer(e)]
    <3>1. /\ UNCHANGED inbox /\ \A f \in Ends : queue'[f] = <<>>
          /\ \A f \in Ends : reset[f] = "reported" => reset'[f] = "reported"
      BY <1>5, <2>2, TransmitDoes DEF ResetAt
    <3> QED
      BY <1>0, <2>1, <3>1 DEF Ended
  <2>3. CASE ~shut[Peer(e)]
    <3>1. /\ \A f \in Ends : f # e => queue'[f] = queue[f] /\ inbox'[Peer(f)] = inbox[Peer(f)]
          /\ UNCHANGED reset
      BY <1>5, <2>3, TransmitDoes
    <3>2. ~eof[Peer(e)]
      BY <1>0, <2>1 DEF Ended
    <3>3. \A f \in Ends : eof[f] => queue'[Peer(f)] = queue[Peer(f)] /\ inbox'[f] = inbox[f]
      BY <1>0, <3>1, <3>2
    <3> QED
      BY <2>1, <3>1, <3>3 DEF Ended
  <2> QED
    BY <2>2, <2>3
<1>6. ASSUME NEW e \in Ends, Destroy(e)
      PROVE  Ended'
  <2>1. /\ shut'[e] /\ \A f \in Ends : f # e => shut'[f] = shut[f]
        /\ inbox'[e] = <<>> /\ \A f \in Ends : f # e => inbox'[f] = inbox[f]
        /\ \A f \in Ends : queue'[f] = queue[f] \/ queue'[f] = <<>>
        /\ \A f \in Ends : reset[f] = "reported" => reset'[f] = "reported"
        /\ UNCHANGED <<handed, got, eof>>
    BY <1>0, <1>6, DestroyDoes DEF ResetAt
  <2> QED
    BY <1>0, <2>1 DEF Ended
<1> QED
  <2>1. ASSUME NEW e \in Ends, ReceiveThrows(e)
        PROVE  UNCHANGED <<handed, queue, inbox, got, eof, shut>> /\ AtMostReported
    BY <2>1, ReportedDoes DEF ReceiveThrows
  <2>2. UNCHANGED reset => AtMostReported
    BY DEF AtMostReported
  <2> QED
    BY <1>1, <1>2, <1>3, <1>4, <1>5, <1>6, <2>1, <2>2, CompletesDoes
    DEF Next, Send

-----------------------------------------------------------------------------
(* The invariant.                                                          *)

LEMMA StreamInit == Init => StreamInv
<1> SUFFICES ASSUME Init PROVE StreamInv
  OBVIOUS
<1>0. /\ \A e \in Ends : /\ handed[e] = <<>> /\ queue[e] = <<>> /\ inbox[e] = <<>> /\ got[e] = <<>>
                         /\ ~eof[e] /\ ~shut[e] /\ reset[e] = "none"
      /\ \A t \in Threads : ~call[t].active /\ result[t] = <<>>
      /\ \A e \in Ends : Peer(e) \in Ends
  BY PeerIn DEF Init, NoCall
<1>1. TypeOK
  <2>1. NoCall \in [active : BOOLEAN, len : 0..MaxLen, sent : 0..MaxLen]
    BY StreamAssumption DEF NoCall
  <2>2. call \in [Threads -> [active : BOOLEAN, len : 0..MaxLen, sent : 0..MaxLen]]
    BY <2>1 DEF Init
  <2>3. \A t \in Threads : Len(result[t]) <= MaxSends /\ call[t].sent <= call[t].len
    BY StreamAssumption DEF Init, NoCall
  <2>4. {handed, queue, inbox, got} \subseteq [Ends -> Seq(Bytes)]
    <3>1. <<>> \in Seq(Bytes)
      BY EmptySeq
    <3> QED
      BY <3>1 DEF Init
  <2>5. \A e \in Ends : Len(queue[e]) <= SendRoom /\ Len(inbox[e]) <= ReceiveRoom
    BY <1>0, StreamAssumption
  <2>6. result \in [Threads -> Seq(Outcomes)]
    <3>1. <<>> \in Seq(Outcomes)
      BY EmptySeq
    <3> QED
      BY <3>1 DEF Init
  <2>7. {eof, shut} \subseteq [Ends -> BOOLEAN] /\ reset \in [Ends -> Resets]
    BY DEF Init, Resets
  <2> QED
    BY <2>2, <2>3, <2>4, <2>5, <2>6, <2>7 DEF TypeOK
<1>2. Sending /\ ResetByLoss /\ Ended
  BY <1>0 DEF Sending, ResetByLoss, Ended
<1>3. CalledBefore
  BY <1>0 DEF CalledBefore, ToSet
<1>4. SentExactly
  <2>1. \A t \in Threads : 1..Len(result[t]) = {} /\ ~call[t].active
    BY <1>0
  <2> QED
    BY <2>1 DEF SentExactly
<1>5. Conserved
  <2>1. <<>> \o <<>> = <<>>
    BY EmptySeq, ConcatEmptySeq
  <2> QED
    BY <1>0, <2>1 DEF Conserved, OnTheWay
<1>6. NothingAdded
  <2>1. \A e \in Ends : /\ Len(got[e]) = 0 /\ Len(inbox[e]) = 0
                        /\ Len(queue[Peer(e)]) = 0 /\ Len(handed[Peer(e)]) = 0
    BY <1>0
  <2>2. 0 + 0 + 0 <= 0
    OBVIOUS
  <2>3. \A e \in Ends : Len(got[e]) + Len(inbox[e]) + Len(queue[Peer(e)]) <= Len(handed[Peer(e)])
    BY <2>1, <2>2, Zenon
  <2> QED
    BY <2>3 DEF NothingAdded
<1> QED
  BY <1>1, <1>2, <1>3, <1>4, <1>5, <1>6 DEF StreamInv

LEMMA StreamStep == StreamInv /\ [Next]_vars => StreamInv'
<1> SUFFICES ASSUME StreamInv, [Next]_vars PROVE StreamInv'
  OBVIOUS
<1>1. CASE Next
  BY <1>1, TypeStep, SendingStep, CalledBeforeStep, SentExactlyStep,
     ConservedStep, NothingAddedStep, ResetByLossStep, EndedStep DEF StreamInv
<1>2. CASE UNCHANGED vars
  <2> USE <1>2 DEF vars, StreamInv
  <2>1. TypeOK' /\ Sending'
    BY DEF TypeOK, Sending
  <2>2. CalledBefore'
    BY DEF CalledBefore, Called
  <2>3. SentExactly'
    BY SentExactlyIs
  <2>5. Conserved' /\ NothingAdded'
    BY DEF Conserved, Whole, OnTheWay, NothingAdded
  <2>6. ResetByLoss' /\ Ended'
    BY DEF ResetByLoss, Ended
  <2> QED
    BY <2>1, <2>2, <2>3, <2>5, <2>6
<1> QED
  BY <1>1, <1>2

-----------------------------------------------------------------------------
(* The theorems.                                                           *)

(* All of the invariant: the loop of socket::send, socket::receive and     *)
(* ~socket, with any other threads and the kernel in between.              *)
THEOREM StreamInvariant == Spec => []StreamInv
  BY StreamInit, StreamStep, PTL DEF Spec

(* The loop variable of socket::send never leaves the data it was given,   *)
(* and neither kernel buffer is ever overrun.                              *)
THEOREM StreamTypes == Spec => []TypeOK
<1>1. StreamInv => TypeOK
  BY DEF StreamInv
<1> QED
  BY <1>1, StreamInvariant, PTL

(* socket::send hands each byte over once and in order: all of the data    *)
(* when it returned, a proper beginning of it when it threw, whatever      *)
(* other threads send between the rounds of its loop.                      *)
THEOREM SentExactlyOnce == Spec => []SentExactly
<1>1. StreamInv => SentExactly
  BY DEF StreamInv
<1> QED
  BY <1>1, StreamInvariant, PTL

(* socket::receive returns size 0 only when the peer is gone, and all that *)
(* it sent was received or a call at this end has thrown for the reset: it *)
(* is no answer to an error, a time-out, or a reset nobody was told of.    *)
THEOREM EofOnlyAtEnd == Spec => []EofIsEnd
<1>1. StreamInv => EofIsEnd
  BY DEF StreamInv, Ended, EofIsEnd
<1> QED
  BY <1>1, StreamInvariant, PTL

(* ~socket of a socket that received all that was sent to it loses nothing *)
(* of what was sent through it: the peer received it, or has it coming.    *)
THEOREM NothingLostByClosing == Spec => []ClosingLosesNothing
<1>1. ASSUME StreamInv, NEW e \in Ends, ~shut[Peer(e)], got[e] = handed[Peer(e)]
      PROVE  handed[e] = got[Peer(e)] \o inbox[Peer(e)] \o queue[e]
  <2>1. Peer(e) \in Ends /\ Peer(Peer(e)) = e
    BY PeerIn
  <2>2. TypeOK
    BY <1>1 DEF StreamInv
  <2>3. reset[Peer(e)] = "none"
    <3>1. Len(got[e]) = Len(handed[Peer(e)]) /\ Len(handed[Peer(e)]) \in Nat
      BY <1>1, <2>1, <2>2, QueueType
    <3>2. reset[Peer(e)] # "none" => Len(got[e]) < Len(handed[Peer(e)])
      BY <1>1, <2>1 DEF StreamInv, ResetByLoss
    <3> QED
      BY <3>1, <3>2
  <2>4. handed[e] = got[Peer(e)] \o (inbox[Peer(e)] \o queue[e])
    BY <1>1, <2>1, <2>3 DEF StreamInv, Conserved, Whole, OnTheWay
  <2>5. got[Peer(e)] \in Seq(Bytes) /\ inbox[Peer(e)] \in Seq(Bytes) /\ queue[e] \in Seq(Bytes)
    BY <2>1, <2>2, QueueType
  <2>6. (got[Peer(e)] \o inbox[Peer(e)]) \o queue[e]
          = got[Peer(e)] \o (inbox[Peer(e)] \o queue[e])
    BY <2>5, JoinedTwice, Zenon
  <2> QED
    BY <2>4, <2>6, Zenon
<1>2. StreamInv => ClosingLosesNothing
  BY <1>1 DEF ClosingLosesNothing
<1> QED
  BY <1>2, StreamInvariant, PTL

=============================================================================
