---------------------------- MODULE DatagramProofs ----------------------------
(***************************************************************************)
(* Proofs about modules Options and Datagram, for any number of senders,   *)
(* sockets and threads, any messages, and integers of any width.           *)
(***************************************************************************)
EXTENDS Datagram, SeqLemmas

-----------------------------------------------------------------------------
(* Arithmetic.                                                             *)

LEMMA DivisionOf ==
  ASSUME NEW a \in Int, NEW b \in Nat \ {0}
  PROVE  /\ a \div b \in Int /\ a % b \in 0..(b - 1)
         /\ a = b * (a \div b) + (a % b)
  OBVIOUS

(* The quotient is the only number that leaves a remainder in range. *)
LEMMA DivisionIs ==
  ASSUME NEW a \in Int, NEW b \in Nat \ {0}, NEW q \in Int, NEW r \in 0..(b - 1), a = b * q + r
  PROVE  a \div b = q /\ a % b = r
  OBVIOUS

LEMMA FitsUnchanged ==
  ASSUME NEW b \in Nat \ {0}, NEW n \in 0..(b - 1)
  PROVE  n % b = n
  OBVIOUS

LEMMA UnitsArePositive ==
  /\ PerMilli \in Nat \ {0} /\ PerSecond \in Nat \ {0} /\ Tick \in Nat \ {0}
  /\ UIntSize \in Nat \ {0} /\ IntBytes \in Nat \ {0}
  BY OptionsAssumption

LEMMA TimevalOf ==
  ASSUME NEW us \in Nat
  PROVE  /\ microsecondsToTimeval(us).tv_sec \in Nat
         /\ microsecondsToTimeval(us).tv_usec \in 0..(PerSecond - 1)
         /\ timevalToMicroseconds(microsecondsToTimeval(us)) = us
<1> DEFINE q == us \div PerSecond
<1>1. q \in Nat /\ us = PerSecond * q + (us % PerSecond) /\ us % PerSecond \in 0..(PerSecond - 1)
  <2>1. q \in Int /\ us = PerSecond * q + (us % PerSecond) /\ us % PerSecond \in 0..(PerSecond - 1)
    BY UnitsArePositive, DivisionOf
  <2> QED
    BY <2>1, UnitsArePositive
<1>2. us - PerSecond * q = us % PerSecond
  BY <1>1, UnitsArePositive
<1>3. (us - PerSecond * q) + q * PerSecond = us
  BY <1>1, UnitsArePositive
<1> QED
  BY <1>1, <1>2, <1>3
  DEF microsecondsToTimeval, timevalToMicroseconds, Quotient, Remainder

(* The clock's ticks: rounded up, by less than a tick. *)
LEMMA RoundedUp ==
  ASSUME NEW n \in Nat
  PROVE  ((n + Tick - 1) \div Tick) * Tick \in n..(n + Tick - 1)
<1> DEFINE q == (n + Tick - 1) \div Tick
           r == (n + Tick - 1) % Tick
<1>1. n + Tick - 1 = Tick * q + r /\ r \in 0..(Tick - 1) /\ q \in Int
  <2>1. n + Tick - 1 \in Int
    BY UnitsArePositive
  <2> QED
    BY <2>1, UnitsArePositive, DivisionOf
<1> HIDE DEF q, r
<1>2. q * Tick = n + Tick - 1 - r
  BY <1>1, UnitsArePositive
<1>3. n + Tick - 1 - r \in n..(n + Tick - 1)
  BY <1>1, UnitsArePositive
<1> QED
  BY <1>2, <1>3 DEF q

(* socket::receiveTimeout(us) and what receiveTimeout() then returns, in   *)
(* the POSIX build.                                                        *)
LEMMA PosixTimeout ==
  ASSUME NEW us \in Int, SetTimeout("posix", us) # Rejected
  PROVE  LET w == SetTimeout("posix", us)
         IN  /\ w \in Nat \cup {Forever}
             /\ us >= 0 => GetTimeout("posix", w) \in us..(us + Tick - 1)
             /\ w = Forever <=> us = 0
             /\ us < 0 => w = 0
<1> DEFINE w == SetTimeout("posix", us)
           tv == microsecondsToTimeval(us)
<1>1. /\ w = TimevalOption(tv) /\ w # Rejected
      /\ tv.tv_usec \in 0..(PerSecond - 1)
  <2>1. w = TimevalOption(tv)
    BY DEF SetTimeout
  <2> HIDE DEF tv
  <2>2. tv.tv_usec \notin 0..(PerSecond - 1) => TimevalOption(tv) = Rejected
    BY DEF TimevalOption
  <2> QED
    BY <2>1, <2>2
<1>2. CASE us < 0
  <2> DEFINE q == (-us) \div PerSecond
  <2>1. -us = PerSecond * q + ((-us) % PerSecond) /\ (-us) % PerSecond \in Nat /\ q \in Int
    BY UnitsArePositive, DivisionOf
  <2>2. tv.tv_sec = -q /\ tv.tv_usec = us - PerSecond * (-q)
    BY <1>2 DEF microsecondsToTimeval, Quotient, Remainder
  <2> HIDE DEF q
  <2>3. PerSecond * (-q) = -(PerSecond * q)
    BY <2>1, UnitsArePositive
  <2>4. us - PerSecond * (-q) \in Nat
    BY <1>1, <2>2, UnitsArePositive
  <2>5. PerSecond * q > 0
    BY <1>2, <2>1, <2>3, <2>4, UnitsArePositive
  <2>6. q > 0
    BY <2>1, <2>5, UnitsArePositive
  <2>7. tv.tv_sec < 0
    BY <2>1, <2>2, <2>6
  <2>8. w = 0
    BY <1>1, <2>7 DEF TimevalOption
  <2> QED
    BY <1>2, <2>8 DEF Forever
<1>3. CASE us = 0
  <2>1. tv.tv_sec = 0 /\ tv.tv_usec = 0
    <3>1. 0 \div PerSecond = 0
      BY UnitsArePositive, DivisionIs
    <3> QED
      BY <1>3, <3>1, UnitsArePositive DEF microsecondsToTimeval, Quotient, Remainder
  <2>2. w = Forever
    BY <1>1, <2>1 DEF TimevalOption
  <2>3. GetTimeout("posix", w) = 0
    BY <2>2, TimevalOf DEF GetTimeout, OptionTimeval
  <2>4. 0 \in 0..(0 + Tick - 1)
    BY UnitsArePositive
  <2> QED
    BY <1>3, <2>2, <2>3, <2>4
<1>4. CASE us > 0
  <2>1. us \in Nat
    BY <1>4
  <2>2. /\ tv.tv_sec \in Nat /\ timevalToMicroseconds(tv) = us
    BY <2>1, TimevalOf
  <2>3. ~(tv.tv_sec = 0 /\ tv.tv_usec = 0)
    <3>1. tv.tv_sec = 0 /\ tv.tv_usec = 0 => us = 0 + 0 * PerSecond
      BY <2>2 DEF timevalToMicroseconds
    <3>2. 0 + 0 * PerSecond = 0
      BY UnitsArePositive
    <3> QED
      BY <1>4, <3>1, <3>2
  <2>4. w = ((us + Tick - 1) \div Tick) * Tick
    <3>1. ~(tv.tv_sec < 0)
      BY <2>2
    <3> QED
      BY <1>1, <2>2, <2>3, <3>1 DEF TimevalOption
  <2>5. w \in us..(us + Tick - 1)
    BY <2>1, <2>4, RoundedUp
  <2> HIDE DEF w
  <2>6. w \in Nat /\ w # Forever
    BY <2>1, <2>5, UnitsArePositive DEF Forever
  <2>7. GetTimeout("posix", w) = w
    BY <2>6, TimevalOf DEF GetTimeout, OptionTimeval
  <2> QED
    BY <1>4, <2>5, <2>6, <2>7 DEF w
<1> QED
  BY <1>2, <1>3, <1>4

(* The same in the Windows build.  Only these times fit a DWORD.           *)
LEMMA WindowsTimeout ==
  ASSUME NEW us \in Int
  PROVE  LET w == SetTimeout("windows", us)
         IN  /\ w \in Nat \cup {Forever} /\ w # Rejected
             /\ us \in 0..(UIntSize - 1) =>
                  /\ GetTimeout("windows", w) = us - (us % PerMilli)
                  /\ w = Forever <=> us < PerMilli
<1> DEFINE w == SetTimeout("windows", us)
           ms == microsecondsToDWord(us)
<1>1. w = DWordOption(ms)
  BY DEF SetTimeout
<1>2. ms \in 0..(UIntSize - 1)
  <2>1. Quotient(us, PerMilli) \in Int
    BY UnitsArePositive, DivisionOf DEF Quotient
  <2> QED
    BY <2>1, UnitsArePositive, DivisionOf DEF microsecondsToDWord, ToDWord
<1> HIDE DEF ms
<1>3. w \in Nat \cup {Forever} /\ w # Rejected
  <2>1. ms * PerMilli \in Nat
    BY <1>2, UnitsArePositive
  <2> QED
    BY <1>1, <2>1 DEF DWordOption, Forever, Rejected
<1>4. ASSUME us \in 0..(UIntSize - 1)
      PROVE  GetTimeout("windows", w) = us - (us % PerMilli) /\ (w = Forever <=> us < PerMilli)
  <2> DEFINE q == us \div PerMilli
             r == us % PerMilli
  <2>1. us \in Nat /\ q \in Int /\ r \in 0..(PerMilli - 1) /\ us = PerMilli * q + r
    BY <1>4, UnitsArePositive, DivisionOf
  <2>2. q \in 0..us
    BY <2>1, UnitsArePositive
  <2>3. ms = q
    <3>1. q \in 0..(UIntSize - 1)
      BY <1>4, <2>2, UnitsArePositive
    <3>2. q % UIntSize = q
      BY <3>1, UnitsArePositive, FitsUnchanged
    <3>3. us >= 0
      BY <2>1
    <3> QED
      BY <3>2, <3>3 DEF ms, microsecondsToDWord, ToDWord, Quotient
  <2> HIDE DEF q, r
  <2>4. q * PerMilli = us - r /\ us - r \in 0..(UIntSize - 1)
    <3>1. q * PerMilli = PerMilli * q
      BY <2>1, UnitsArePositive
    <3>2. PerMilli * q >= 0
      BY <2>2, UnitsArePositive
    <3> QED
      BY <1>4, <2>1, <3>1, <3>2, UnitsArePositive
  <2>5. ToDWord(q * PerMilli) = q * PerMilli
    <3> DEFINE n == us - r
    <3>1. n \in 0..(UIntSize - 1)
      BY <2>4, UnitsArePositive
    <3> HIDE DEF n
    <3>2. n % UIntSize = n
      BY <3>1, UnitsArePositive, FitsUnchanged
    <3> QED
      BY <2>4, <3>2 DEF ToDWord, n
  <2>6. q = 0 <=> us < PerMilli
    BY <2>1, <2>2, UnitsArePositive
  <2>7. CASE q = 0
    <3>1. w = Forever
      BY <1>1, <2>3, <2>7 DEF DWordOption
    <3>2. GetTimeout("windows", w) = ToDWord(q * PerMilli)
      BY <2>7, <3>1 DEF GetTimeout, OptionDWord, dwordToMicroseconds
    <3> QED
      BY <2>4, <2>5, <2>6, <2>7, <3>1, <3>2 DEF r
  <2>8. CASE q # 0
    <3>1. w = q * PerMilli
      BY <1>1, <2>3, <2>8 DEF DWordOption
    <3>2. w # Forever
      BY <2>4, <3>1 DEF Forever
    <3>3. (q * PerMilli) \div PerMilli = q
      BY <2>1, UnitsArePositive, DivisionIs
    <3>4. GetTimeout("windows", w) = ToDWord(q * PerMilli)
      BY <3>1, <3>2, <3>3 DEF GetTimeout, OptionDWord, dwordToMicroseconds
    <3> QED
      BY <2>4, <2>5, <2>6, <2>8, <3>2, <3>4 DEF r
  <2> QED
    BY <2>7, <2>8
<1> QED
  BY <1>3, <1>4

-----------------------------------------------------------------------------
(* The inductive invariant.                                                *)

(* What the kernel keeps is what the last setter asked for. *)
SettingsKept ==
  /\ wait = SetTimeout(platform, asked) /\ wait # Rejected
  /\ \A i \in 1..IntBytes : option[i] = IF i = 1 /\ flag THEN 1 ELSE 0

(* A message is in at most one place, and in one if it was sent. *)
Queued(m, i) == i \in DOMAIN queue[m.to] /\ queue[m.to][i] = m
Held(m, t) == t \in Readers /\ thread[t].hand = m
Back(m, x) == x \in returned /\ x.message = m

InOnePlace(m) ==
  /\ m \in net => m \notin lost
  /\ \A i : Queued(m, i) => m \notin net /\ m \notin lost /\ \A j : Queued(m, j) => i = j
  /\ \A t : Held(m, t) =>
       m \notin net /\ m \notin lost /\ (\A i : ~Queued(m, i)) /\ \A u : Held(m, u) => t = u
  /\ \A x : Back(m, x) =>
       /\ m \notin net /\ m \notin lost /\ \A i : ~Queued(m, i)
       /\ (\A t : ~Held(m, t)) /\ \A y : Back(m, y) => x = y

Somewhere(m) ==
  \/ m \in net \/ m \in lost \/ \E i : Queued(m, i)
  \/ \E t : Held(m, t) \/ \E x : Back(m, x)

Placed == \A m \in Messages : InOnePlace(m) /\ (Sent(m) <=> Somewhere(m))

(* A thread receives from the first of the sockets it found ready, or from *)
(* one it did not ask about.                                               *)
AtFirst(c) ==
  c.pc \in Receiving \cup {"taken"} =>
    /\ c.on \in Sockets
    /\ IF c.told THEN c.ready # <<>> /\ c.on = c.ready[1] ELSE c.ready = <<>>

(* n is what bytesReady may say before the message m is received. *)
Measures(n, m) == n >= m.len /\ (platform = "posix" => n = m.len)

(* What a thread found ready is so until another takes a message there; of *)
(* the socket that it received from itself it knows no more.               *)
FoundOnce(c) == \A i, j \in DOMAIN c.ready : c.ready[i] = c.ready[j] => i = j
StillReady(c) ==
  \A i \in DOMAIN c.ready :
    (c.pc = "taken" => i # 1) => c.ready[i] \in c.raced \/ HasData(c.ready[i])
StillMeasured(c) ==
  c.measured =>
    /\ c.ready # <<>>
    /\ c.pc # "taken" /\ c.ready[1] \notin c.raced => Measures(c.size, Head(queue[c.ready[1]]))

Positions == \A t \in Readers : AtFirst(thread[t])
Readiness ==
  \A t \in Readers : FoundOnce(thread[t]) /\ StillReady(thread[t]) /\ StillMeasured(thread[t])

(* A message waits where it was sent to. *)
Delivered == \A r \in Sockets : \A i \in DOMAIN queue[r] : queue[r][i].to = r

LostUnnamed == \A m \in lost : m.from \in Unnamed

DatagramInv ==
  /\ TypeOK /\ SettingsKept /\ Positions
  /\ Delivered /\ Placed /\ LostUnnamed

-----------------------------------------------------------------------------
(* The states of a thread.                                                 *)

ThreadOK(c) == c \in ThreadStates /\ (c.pc = "taken" <=> c.hand # NoMessage)

LEMMA MessageType ==
  ASSUME NEW m \in Messages
  PROVE  /\ m.from \in Senders /\ m.to \in Sockets /\ m.number \in 1..MaxSends
         /\ m.len \in 1..MaxDatagram /\ m # NoMessage
         /\ MaxSends \in Nat \ {0} /\ MaxDatagram \in Nat \ {0}
  BY DatagramAssumption, NoMessageAssumption DEF Messages

LEMMA IdleType ==
  /\ ThreadOK(Idle) /\ Idle.pc = "idle" /\ Idle.hand = NoMessage /\ Idle.ready = <<>>
  /\ ~Idle.measured /\ ~Idle.told /\ Idle.raced = {}
<1>1. 0 \in Nat
  OBVIOUS
<1>2. <<>> \in Seq(Sockets)
  BY EmptySeq
<1> QED
  BY <1>1, <1>2 DEF Idle, ThreadOK, ThreadStates

LEMMA StateType ==
  ASSUME NEW c \in ThreadStates
  PROVE  /\ c.ready \in Seq(Sockets) /\ Len(c.ready) \in Nat /\ DOMAIN c.ready = 1..Len(c.ready)
         /\ c.ready = <<>> <=> Len(c.ready) = 0
         /\ \A i \in DOMAIN c.ready : i \in Nat \ {0} /\ c.ready[i] \in Sockets
         /\ c.on \in Sockets \cup {NoSocket} /\ c.size \in Nat /\ c.raced \in SUBSET Sockets
         /\ c.told \in BOOLEAN /\ c.measured \in BOOLEAN
         /\ c.polled \in Seq(Sockets) /\ c.polled \in PollLists \cup {<<>>}
         /\ c.hand \in Messages \cup {NoMessage} /\ c.millis \in Int
<1>1. /\ c.ready \in Seq(Sockets) /\ c.polled \in PollLists \cup {<<>>}
      /\ c.on \in Sockets \cup {NoSocket} /\ c.size \in Nat
      /\ c.raced \in SUBSET Sockets /\ c.told \in BOOLEAN /\ c.measured \in BOOLEAN
      /\ c.hand \in Messages \cup {NoMessage} /\ c.millis \in Millis \cup {0}
  BY DEF ThreadStates
<1>2. c.polled \in Seq(Sockets) /\ c.size \in Nat /\ c.millis \in Int
  <2>1. <<>> \in Seq(Sockets)
    BY EmptySeq
  <2>2. /\ \A list \in PollLists : list \in Seq(Sockets)
        /\ Millis \subseteq Int
    BY DatagramAssumption
  <2>3. c.polled \in Seq(Sockets)
    BY <1>1, <2>1, <2>2
  <2>4. c.millis \in Int
    <3>1. c.millis \in Millis \cup {0} /\ Millis \subseteq Int
      BY <1>1, <2>2
    <3>2. \A x \in Millis \cup {0} : x \in Int
      BY <3>1
    <3> QED
      BY <3>1, <3>2
  <2> QED
    BY <1>1, <2>3, <2>4
<1>3. /\ Len(c.ready) \in Nat /\ DOMAIN c.ready = 1..Len(c.ready)
      /\ c.ready = <<>> <=> Len(c.ready) = 0
      /\ \A i \in DOMAIN c.ready : i \in Nat \ {0} /\ c.ready[i] \in Sockets
  BY <1>1, SeqPlaces
<1> QED
  BY <1>1, <1>2, <1>3

LEMMA AfterType ==
  ASSUME NEW c \in ThreadStates
  PROVE  /\ ThreadOK(After(c)) /\ After(c).pc = "idle" /\ After(c).hand = NoMessage
         /\ ~After(c).measured /\ ~After(c).told
         /\ Len(c.ready) < 2 => After(c) = Idle
         /\ Len(c.ready) >= 2 =>
              After(c).ready = Tail(c.ready) /\ After(c).raced = c.raced \ {c.on}
<1>1. CASE Len(c.ready) < 2
  <2>1. After(c) = Idle
    BY <1>1 DEF After
  <2> QED
    BY <1>1, <2>1, StateType, IdleType
<1>2. CASE ~(Len(c.ready) < 2)
  <2>1. After(c) = [Idle EXCEPT !.ready = Tail(c.ready), !.raced = c.raced \ {c.on}]
    BY <1>2 DEF After
  <2>2. c.ready # <<>> /\ c.ready \in Seq(Sockets)
    BY <1>2, StateType
  <2>3. Tail(c.ready) \in Seq(Sockets) /\ c.raced \ {c.on} \in SUBSET Sockets
    BY <2>2, StateType, SeqTaken
  <2>4. /\ After(c).pc = "idle" /\ After(c).hand = NoMessage
        /\ ~After(c).measured /\ ~After(c).told
        /\ After(c).ready = Tail(c.ready) /\ After(c).raced = c.raced \ {c.on}
    BY <2>1 DEF Idle
  <2>5. After(c) \in ThreadStates
    BY <2>1, <2>3, IdleType DEF ThreadOK, ThreadStates
  <2>6. ThreadOK(After(c))
    BY <2>4, <2>5 DEF ThreadOK
  <2> QED
    BY <1>2, <2>4, <2>6
<1> QED
  BY <1>1, <1>2

LEMMA QueueType ==
  ASSUME TypeOK, NEW r \in Sockets
  PROVE  /\ queue[r] \in Seq(Messages) /\ DOMAIN queue[r] = 1..Len(queue[r])
         /\ Len(queue[r]) \in Nat
         /\ \A i \in DOMAIN queue[r] : queue[r][i] \in Messages
         /\ queue[r] # <<>> =>
              /\ Head(queue[r]) = queue[r][1] /\ 1 \in DOMAIN queue[r] /\ Head(queue[r]) \in Messages
              /\ Tail(queue[r]) \in Seq(Messages)
<1>1. queue[r] \in Seq(Messages)
  BY DEF TypeOK
<1>2. /\ DOMAIN queue[r] = 1..Len(queue[r]) /\ Len(queue[r]) \in Nat
      /\ \A i \in DOMAIN queue[r] : queue[r][i] \in Messages
  BY <1>1, SeqPlaces
<1>3. queue[r] # <<>> =>
         /\ Head(queue[r]) = queue[r][1] /\ 1 \in DOMAIN queue[r] /\ Head(queue[r]) \in Messages
         /\ Tail(queue[r]) \in Seq(Messages)
  BY <1>1, SeqTaken
<1> QED
  BY <1>1, <1>2, <1>3

-----------------------------------------------------------------------------
(* What the steps of a thread do.                                          *)

LEMMA ThreadType ==
  ASSUME TypeOK, NEW t \in Readers
  PROVE  thread[t] \in ThreadStates /\ ThreadOK(thread[t])
  BY DEF TypeOK, ThreadOK

LEMMA BecomesDoes ==
  ASSUME TypeOK, NEW t \in Readers, NEW c, ThreadOK(c), Becomes(t, c)
  PROVE  /\ TypeOK' /\ thread'[t] = c
         /\ \A u \in Readers : u # t => thread'[u] = thread[u]
         /\ UNCHANGED <<settings, sends, net, queue, returned, lost>>
<1>1. thread' = [thread EXCEPT ![t] = c] /\ UNCHANGED <<settings, sends, net, queue, returned, lost>>
  BY DEF Becomes
<1>2. thread'[t] = c /\ \A u \in Readers : u # t => thread'[u] = thread[u]
  BY <1>1 DEF TypeOK
<1>3. thread' \in [Readers -> ThreadStates]
  BY <1>1 DEF TypeOK, ThreadOK
<1>4. \A u \in Readers : thread'[u].pc = "taken" <=> thread'[u].hand # NoMessage
  BY <1>2 DEF TypeOK, ThreadOK
<1>5. TypeOK'
  BY <1>1, <1>3, <1>4 DEF TypeOK, settings
<1> QED
  BY <1>1, <1>2, <1>5

(* A call begins, a poll ends, a receive times out, bytesReady: no message *)
(* moves.                                                                  *)
Moves ==
  \E t \in Readers :
    \/ \E list \in PollLists, ms \in Millis : ReadReadySockets(t, list, ms)
    \/ BytesReady(t)
    \/ \E n \in Sizes \cup {thread[t].size}, pc \in Receiving : ReceiveReady(t, n, pc)
    \/ \E r \in Direct, n \in Sizes, pc \in Receiving : Receive(t, r, n, pc)
    \/ PollReturns(t) \/ PollTimesOut(t) \/ PollThrows(t)
    \/ ReceiveTimesOut(t) \/ ReceiveThrows(t)

LEMMA ReadReadyDoes ==
  ASSUME TypeOK, NEW t \in Readers, NEW list \in PollLists, NEW ms \in Millis,
         ReadReadySockets(t, list, ms)
  PROVE  \E c : /\ ThreadOK(c) /\ Becomes(t, c) /\ thread[t].hand = NoMessage
                /\ c.hand = NoMessage /\ c.pc = "polling" /\ c.ready = <<>> /\ ~c.measured
<1> DEFINE c == [Idle EXCEPT !.pc = "polling", !.polled = list, !.millis = ms]
<1>1. Becomes(t, c) /\ thread[t] = Idle
  BY DEF ReadReadySockets
<1>2. ThreadOK(c) /\ c.pc = "polling" /\ c.ready = <<>> /\ ~c.measured /\ c.hand = NoMessage
  BY IdleType DEF Idle, ThreadOK, ThreadStates
<1> QED
  BY <1>1, <1>2, IdleType

LEMMA FionreadMeasures ==
  ASSUME TypeOK, NEW r \in Sockets, NEW n \in Fionread(r)
  PROVE  n \in Nat /\ (HasData(r) => Measures(n, Head(queue[r])))
<1>1. CASE queue[r] = <<>>
  BY <1>1 DEF Fionread, HasData
<1>2. CASE queue[r] # <<>>
  <2>1. Head(queue[r]).len \in Nat /\ Len(queue[r]) \in Nat /\ MaxDatagram \in Nat
    BY <1>2, QueueType, MessageType
  <2>2. Len(queue[r]) * MaxDatagram \in Nat
    BY <2>1
  <2>3. \/ n = Head(queue[r]).len
        \/ platform # "posix" /\ n \in Head(queue[r]).len..(Len(queue[r]) * MaxDatagram)
    BY <1>2 DEF Fionread
  <2> QED
    BY <2>1, <2>2, <2>3 DEF Measures
<1> QED
  BY <1>1, <1>2

LEMMA BytesReadyDoes ==
  ASSUME TypeOK, NEW t \in Readers, BytesReady(t)
  PROVE  \E c : /\ ThreadOK(c) /\ Becomes(t, c) /\ thread[t].hand = NoMessage
                /\ c.hand = NoMessage /\ c.pc = "idle" /\ c.ready = thread[t].ready
                /\ c.ready # <<>> /\ c.raced = thread[t].raced
                /\ HasData(c.ready[1]) => Measures(c.size, Head(queue[c.ready[1]]))
<1> DEFINE b == thread[t]
           r == Head(b.ready)
<1>1. PICK n \in Fionread(r) : Becomes(t, [b EXCEPT !.measured = TRUE, !.size = n])
  BY DEF BytesReady
<1>2. b \in ThreadStates /\ ThreadOK(b) /\ b.pc = "idle" /\ b.ready # <<>>
  BY ThreadType DEF BytesReady
<1>3. r = b.ready[1] /\ r \in Sockets
  <2>1. b.ready \in Seq(Sockets)
    BY <1>2, StateType
  <2> QED
    BY <1>2, <2>1, SeqTaken
<1>4. n \in Nat /\ (HasData(r) => Measures(n, Head(queue[r])))
  BY <1>1, <1>3, FionreadMeasures
<1> HIDE DEF b, r
<1> DEFINE c == [b EXCEPT !.measured = TRUE, !.size = n]
<1>5. ThreadOK(c) /\ c.hand = b.hand /\ c.pc = b.pc /\ c.ready = b.ready /\ c.raced = b.raced
      /\ c.size = n
  BY <1>2, <1>4 DEF ThreadOK, ThreadStates
<1>6. b.hand = NoMessage
  BY <1>2 DEF ThreadOK
<1>7. Becomes(t, c)
  BY <1>1
<1> HIDE DEF c
<1>8. HasData(c.ready[1]) => Measures(c.size, Head(queue[c.ready[1]]))
  BY <1>3, <1>4, <1>5
<1>9. /\ ThreadOK(c) /\ Becomes(t, c) /\ b.hand = NoMessage
      /\ c.hand = NoMessage /\ c.pc = "idle" /\ c.ready = b.ready
      /\ c.ready # <<>> /\ c.raced = b.raced
  BY <1>2, <1>5, <1>6, <1>7
<1> QED
  BY <1>8, <1>9 DEF b

LEMMA ReceiveReadyDoes ==
  ASSUME TypeOK, NEW t \in Readers, NEW n \in Sizes \cup {thread[t].size}, NEW pc \in Receiving,
         ReceiveReady(t, n, pc)
  PROVE  \E c : /\ ThreadOK(c) /\ Becomes(t, c) /\ thread[t].hand = NoMessage
                /\ c.hand = NoMessage /\ c.pc = pc /\ c.told /\ c.ready = thread[t].ready
                /\ c.ready # <<>> /\ c.on = c.ready[1] /\ c.on \in Sockets
                /\ c.raced = thread[t].raced /\ thread[t].pc = "idle"
                /\ c.measured => thread[t].measured /\ c.size = thread[t].size
<1> DEFINE b == thread[t]
           c == [b EXCEPT !.pc = pc, !.on = Head(b.ready), !.size = n, !.told = TRUE]
<1>1. /\ Becomes(t, c) /\ b.pc = "idle" /\ b.ready # <<>>
      /\ IF b.measured THEN n = b.size ELSE n \in Sizes
  BY DEF ReceiveReady
<1>2. b \in ThreadStates /\ ThreadOK(b)
  BY ThreadType
<1>3. Head(b.ready) = b.ready[1] /\ Head(b.ready) \in Sockets
  <2>1. b.ready \in Seq(Sockets)
    BY <1>2, StateType
  <2> QED
    BY <1>1, <2>1, SeqTaken
<1>4. b.hand = NoMessage
  BY <1>1, <1>2 DEF ThreadOK
<1> HIDE DEF b
<1>5. c.hand = NoMessage /\ c.pc = pc /\ c.told /\ c.ready = b.ready /\ c.on = Head(b.ready)
      /\ c.raced = b.raced /\ c.measured = b.measured /\ c.size = n
  BY <1>2, <1>4 DEF ThreadStates
<1>6. pc # "taken" /\ pc \in {"receiving", "receivingFrom"}
  BY DEF Receiving
<1>7. c \in ThreadStates
  <2>1. n \in Nat
    BY <1>2, DatagramAssumption, StateType DEF b
  <2> QED
    BY <1>2, <1>3, <1>6, <2>1 DEF ThreadStates
<1>8. ThreadOK(c)
  BY <1>5, <1>6, <1>7 DEF ThreadOK
<1> HIDE DEF c
<1> QED
  BY <1>1, <1>3, <1>4, <1>5, <1>8 DEF b

LEMMA ReceiveDoes ==
  ASSUME TypeOK, NEW t \in Readers, NEW r \in Direct, NEW n \in Sizes, NEW pc \in Receiving,
         Receive(t, r, n, pc)
  PROVE  \E c : /\ ThreadOK(c) /\ Becomes(t, c) /\ thread[t].hand = NoMessage
                /\ c.hand = NoMessage /\ c.pc = pc /\ ~c.told /\ ~c.measured
                /\ c.ready = <<>> /\ c.on \in Sockets
<1> DEFINE c == [Idle EXCEPT !.pc = pc, !.on = r, !.size = n]
<1>1. Becomes(t, c) /\ thread[t] = Idle
  BY DEF Receive
<1>2. r \in Sockets /\ n \in Nat /\ pc \in {"receiving", "receivingFrom"}
  BY DatagramAssumption DEF Receiving
<1>3. ThreadOK(c) /\ c.pc = pc /\ c.ready = <<>> /\ ~c.measured /\ ~c.told
      /\ c.hand = NoMessage /\ c.on = r
  BY <1>2, IdleType DEF Idle, ThreadOK, ThreadStates
<1> QED
  BY <1>1, <1>2, <1>3, IdleType

LEMMA PollReturnsDoes ==
  ASSUME TypeOK, NEW t \in Readers, PollReturns(t)
  PROVE  \E c : /\ ThreadOK(c) /\ Becomes(t, c) /\ thread[t].hand = NoMessage
                /\ c.hand = NoMessage /\ c.pc = "idle" /\ ~c.measured
                /\ \A i \in DOMAIN c.ready : HasData(c.ready[i])
                /\ \A i, j \in DOMAIN c.ready : c.ready[i] = c.ready[j] =>
                     i = j \/ \E x, y \in DOMAIN thread[t].polled :
                                x # y /\ thread[t].polled[x] = thread[t].polled[y]
<1> DEFINE list == thread[t].polled
           found == Found(list)
           n == Cardinality(found)
<1>0. thread[t].pc = "polling"
  BY DEF PollReturns
<1>1. PICK place \in [1..n -> found] :
        /\ \A i, j \in DOMAIN place : i < j => place[i] < place[j]
        /\ Becomes(t, [Idle EXCEPT !.ready = [i \in DOMAIN place |-> list[place[i]]]])
  BY DEF PollReturns
<1>2. list \in Seq(Sockets)
  BY ThreadType, StateType
<1>3. found \subseteq 1..Len(list) /\ Len(list) \in Nat /\ \A i \in found : i \in DOMAIN list
  BY <1>2, SeqPlaces DEF Found
<1>4. n \in Nat
  <2>1. IsFiniteSet(1..Len(list))
    BY <1>3, FS_Interval
  <2>2. IsFiniteSet(found)
    BY <1>3, <2>1, FS_Subset
  <2> QED
    BY <2>2, FS_CardinalityType
<1>5. \A i \in found : list[i] \in Sockets /\ HasData(list[i]) /\ i \in Nat
  BY <1>2, <1>3, SeqPlaces DEF Found
<1> HIDE DEF list, found, n
<1> DEFINE ready == [i \in 1..n |-> list[place[i]]]
           c == [Idle EXCEPT !.ready = ready]
<1>6. ready \in [1..n -> Sockets]
  BY <1>5
<1>7. ready \in Seq(Sockets)
  BY <1>4, <1>6, SeqOfFunction
<1>8. DOMAIN ready = 1..n /\ \A i \in 1..n : ready[i] = list[place[i]] /\ place[i] \in found
  OBVIOUS
<1> HIDE DEF ready
<1>9. DOMAIN place = 1..n /\ Becomes(t, c)
  BY <1>1 DEF ready
<1>10. ThreadOK(c) /\ c.ready = ready /\ c.hand = NoMessage /\ c.pc = "idle" /\ ~c.measured
  BY <1>7, IdleType DEF Idle, ThreadOK, ThreadStates
<1>11. thread[t].hand = NoMessage
  BY <1>0, ThreadType DEF ThreadOK
<1>12. \A i \in 1..n : HasData(ready[i])
  BY <1>5, <1>8
<1>13. ASSUME NEW i \in 1..n, NEW j \in 1..n, ready[i] = ready[j], i # j
       PROVE  \E x, y \in DOMAIN list : x # y /\ list[x] = list[y]
  <2>1. place[i] \in found /\ place[j] \in found /\ list[place[i]] = list[place[j]]
    BY <1>8, <1>13
  <2>2. place[i] \in Nat /\ place[j] \in Nat /\ place[i] \in DOMAIN list /\ place[j] \in DOMAIN list
    BY <1>3, <1>5, <2>1
  <2>3. i < j \/ j < i
    BY <1>4, <1>13
  <2>4. place[i] # place[j]
    BY <1>1, <1>9, <2>2, <2>3
  <2> QED
    BY <2>1, <2>2, <2>4
<1> HIDE DEF c
<1>14. DOMAIN c.ready = 1..n /\ \A i \in DOMAIN c.ready : HasData(c.ready[i])
  BY <1>8, <1>10, <1>12
<1>15. \A i, j \in DOMAIN c.ready : c.ready[i] = c.ready[j] =>
         i = j \/ \E x, y \in DOMAIN list : x # y /\ list[x] = list[y]
  BY <1>8, <1>10, <1>13
<1>16. /\ ThreadOK(c) /\ Becomes(t, c) /\ thread[t].hand = NoMessage
       /\ c.hand = NoMessage /\ c.pc = "idle" /\ ~c.measured
  BY <1>9, <1>10, <1>11
<1> QED
  BY <1>14, <1>15, <1>16 DEF list

LEMMA PollTimesOutDoes ==
  ASSUME TypeOK, NEW t \in Readers, PollTimesOut(t) \/ PollThrows(t)
  PROVE  Becomes(t, Idle) /\ thread[t].hand = NoMessage
<1>1. Becomes(t, Idle) /\ thread[t].pc = "polling"
  BY DEF PollTimesOut, PollThrows
<1> QED
  BY <1>1, ThreadType DEF ThreadOK

LEMMA ReceiveTimesOutDoes ==
  ASSUME TypeOK, NEW t \in Readers, ReceiveTimesOut(t) \/ ReceiveThrows(t)
  PROVE  Becomes(t, After(thread[t])) /\ thread[t].hand = NoMessage /\ thread[t].pc \in Receiving
<1>1. Becomes(t, After(thread[t])) /\ thread[t].pc \in Receiving
  BY DEF ReceiveTimesOut, ReceiveThrows
<1> QED
  BY <1>1, ThreadType DEF ThreadOK, Receiving

LEMMA TakeDoes ==
  ASSUME TypeOK, NEW t \in Readers, thread[t].on \in Sockets, NEW c, ThreadOK(c), Take(t, c)
  PROVE  LET r == thread[t].on IN
         /\ queue[r] # <<>> /\ Head(queue[r]) \in Messages
         /\ queue' \in [Sockets -> Seq(Messages)] /\ queue'[r] = Tail(queue[r])
         /\ \A s \in Sockets : s # r => queue'[s] = queue[s]
         /\ thread' \in [Readers -> ThreadStates] /\ \A u \in Readers : ThreadOK(thread'[u])
         /\ thread'[t] = c
         /\ \A u \in Readers : u # t =>
              /\ thread'[u].pc = thread[u].pc /\ thread'[u].ready = thread[u].ready
              /\ thread'[u].on = thread[u].on /\ thread'[u].told = thread[u].told
              /\ thread'[u].measured = thread[u].measured /\ thread'[u].size = thread[u].size
              /\ thread'[u].hand = thread[u].hand
              /\ thread[u].raced \subseteq thread'[u].raced
              /\ (\E i \in DOMAIN thread[u].ready : thread[u].ready[i] = r) => r \in thread'[u].raced
<1> DEFINE r == thread[t].on
           other(u) == IF Contains(thread[u].ready, r)
                       THEN [thread[u] EXCEPT !.raced = @ \cup {r}] ELSE thread[u]
<1>1. /\ queue[r] # <<>> /\ queue' = [queue EXCEPT ![r] = Tail(@)]
      /\ thread' = [u \in Readers |-> IF u = t THEN c ELSE other(u)]
  BY DEF Take, HasData
<1>2. Head(queue[r]) \in Messages /\ Tail(queue[r]) \in Seq(Messages)
  BY <1>1, QueueType
<1>3. /\ queue' \in [Sockets -> Seq(Messages)] /\ queue'[r] = Tail(queue[r])
      /\ \A s \in Sockets : s # r => queue'[s] = queue[s]
  BY <1>1, <1>2 DEF TypeOK
<1>4. ASSUME NEW u \in Readers
      PROVE  /\ ThreadOK(other(u)) /\ other(u).pc = thread[u].pc /\ other(u).ready = thread[u].ready
             /\ other(u).on = thread[u].on /\ other(u).told = thread[u].told
             /\ other(u).measured = thread[u].measured /\ other(u).size = thread[u].size
             /\ other(u).hand = thread[u].hand /\ thread[u].raced \subseteq other(u).raced
             /\ (\E i \in DOMAIN thread[u].ready : thread[u].ready[i] = r) => r \in other(u).raced
  <2>1. ThreadOK(thread[u]) /\ thread[u] \in ThreadStates
    BY ThreadType
  <2>2. (\E i \in DOMAIN thread[u].ready : thread[u].ready[i] = r) => Contains(thread[u].ready, r)
    BY <2>1, StateType DEF Contains
  <2>3. CASE Contains(thread[u].ready, r)
    <3>1. other(u) = [thread[u] EXCEPT !.raced = @ \cup {r}]
      BY <2>3
    <3>2. thread[u].raced \cup {r} \in SUBSET Sockets
      BY <2>1, StateType
    <3> HIDE DEF other, r
    <3>3. /\ other(u) \in ThreadStates /\ other(u).pc = thread[u].pc
          /\ other(u).ready = thread[u].ready /\ other(u).on = thread[u].on
          /\ other(u).told = thread[u].told /\ other(u).measured = thread[u].measured
          /\ other(u).size = thread[u].size /\ other(u).hand = thread[u].hand
          /\ other(u).polled = thread[u].polled /\ other(u).millis = thread[u].millis
          /\ other(u).raced = thread[u].raced \cup {r}
      BY <2>1, <3>1, <3>2 DEF ThreadStates
    <3>4. ThreadOK(other(u))
      BY <2>1, <3>3 DEF ThreadOK
    <3>5. r \in other(u).raced /\ thread[u].raced \subseteq other(u).raced
      BY <3>3
    <3> QED
      BY <3>3, <3>4, <3>5
  <2>4. CASE ~Contains(thread[u].ready, r)
    BY <2>1, <2>2, <2>4
  <2> QED
    BY <2>3, <2>4
<1> HIDE DEF other
<1>5. thread'[t] = c /\ \A u \in Readers : u # t => thread'[u] = other(u)
  BY <1>1
<1>6. \A u \in Readers : ThreadOK(thread'[u])
  BY <1>4, <1>5
<1>7. thread' \in [Readers -> ThreadStates]
  <2>1. \A u \in Readers : (IF u = t THEN c ELSE other(u)) \in ThreadStates
    BY <1>4 DEF ThreadOK
  <2> QED
    BY <1>1, <2>1
<1> QED
  BY <1>1, <1>2, <1>3, <1>4, <1>5, <1>6, <1>7

LEMMA CopiedType ==
  ASSUME NEW m \in Messages, NEW n \in Nat
  PROVE  Copied(m, n) \in 0..MaxDatagram
<1>1. m.len \in 1..MaxDatagram /\ MaxDatagram \in Nat
  BY MessageType
<1> QED
  BY <1>1 DEF Copied

Returns ==
  [message : Messages, size : 0..MaxDatagram,
   form : {"receive", "receiveFrom"}, from : Senders \cup {NoAddress}]

LEMMA ReceiveReturnsDoes ==
  ASSUME TypeOK, Positions, NEW t \in Readers, ReceiveReturns(t)
  PROVE  /\ TypeOK' /\ thread[t].on \in Sockets /\ thread[t].pc \in Receiving
         /\ Take(t, After(thread[t])) /\ ThreadOK(After(thread[t]))
         /\ thread[t].hand = NoMessage
         /\ \E x \in Returns : /\ x.message = Head(queue[thread[t].on]) /\ x.form = "receive"
                               /\ returned' = returned \cup {x}
         /\ UNCHANGED <<settings, sends, net, lost>>
<1> DEFINE r == thread[t].on
           m == Head(queue[r])
           x == [message |-> m, size |-> Copied(m, thread[t].size), form |-> "receive", from |-> NoAddress]
<1>1. /\ thread[t].pc = "receiving" /\ Take(t, After(thread[t]))
      /\ returned' = returned \cup {x} /\ UNCHANGED <<settings, sends, net, lost>>
  BY DEF ReceiveReturns
<1>2. r \in Sockets /\ thread[t].pc \in Receiving
  BY <1>1 DEF Positions, AtFirst, Receiving
<1>3. thread[t] \in ThreadStates /\ thread[t].hand = NoMessage /\ ThreadOK(After(thread[t]))
  BY <1>1, ThreadType, AfterType DEF ThreadOK
<1>4. /\ m \in Messages /\ queue' \in [Sockets -> Seq(Messages)]
      /\ thread' \in [Readers -> ThreadStates] /\ \A u \in Readers : ThreadOK(thread'[u])
  BY <1>1, <1>2, <1>3, TakeDoes
<1>5. x \in Returns
  <2>1. Copied(m, thread[t].size) \in 0..MaxDatagram
    BY <1>3, <1>4, StateType, CopiedType
  <2> HIDE DEF m
  <2> QED
    BY <1>4, <2>1 DEF Returns, m
<1>6. x.message = m /\ x.form = "receive"
  OBVIOUS
<1> HIDE DEF x
<1>7. TypeOK'
  BY <1>1, <1>4, <1>5 DEF TypeOK, settings, ThreadOK, Returns
<1> QED
  BY <1>1, <1>2, <1>3, <1>5, <1>6, <1>7

LEMMA ReceiveFromTakesDoes ==
  ASSUME TypeOK, Positions, NEW t \in Readers, ReceiveFromTakes(t)
  PROVE  /\ TypeOK' /\ thread[t].on \in Sockets /\ thread[t].pc \in Receiving
         /\ thread[t].hand = NoMessage
         /\ \E c : /\ ThreadOK(c) /\ Take(t, c) /\ c.hand = Head(queue[thread[t].on])
                   /\ c.pc = "taken" /\ c.on = thread[t].on /\ c.ready = thread[t].ready
                   /\ c.told = thread[t].told /\ c.raced = thread[t].raced
                   /\ c.measured = thread[t].measured
         /\ UNCHANGED <<settings, sends, net, returned, lost>>
<1> DEFINE r == thread[t].on
           m == Head(queue[r])
           c == [thread[t] EXCEPT !.pc = "taken", !.hand = m]
<1>1. /\ thread[t].pc = "receivingFrom" /\ Take(t, c)
      /\ UNCHANGED <<settings, sends, net, returned, lost>>
  BY DEF ReceiveFromTakes
<1>2. r \in Sockets /\ thread[t].pc \in Receiving
  BY <1>1 DEF Positions, AtFirst, Receiving
<1>3. thread[t] \in ThreadStates /\ thread[t].hand = NoMessage
  BY <1>1, ThreadType DEF ThreadOK
<1>4. m \in Messages /\ m # NoMessage
  BY <1>1, <1>2, QueueType, MessageType DEF Take, HasData
<1> HIDE DEF m, r
<1>5. /\ ThreadOK(c) /\ c.hand = m /\ c.pc = "taken" /\ c.on = thread[t].on
      /\ c.ready = thread[t].ready /\ c.told = thread[t].told /\ c.raced = thread[t].raced
      /\ c.measured = thread[t].measured
  BY <1>3, <1>4 DEF ThreadOK, ThreadStates
<1> HIDE DEF c
<1>6. /\ queue' \in [Sockets -> Seq(Messages)]
      /\ thread' \in [Readers -> ThreadStates] /\ \A u \in Readers : ThreadOK(thread'[u])
  BY <1>1, <1>2, <1>5, TakeDoes DEF r
<1>7. TypeOK'
  BY <1>1, <1>6 DEF TypeOK, settings, ThreadOK
<1> QED
  BY <1>1, <1>2, <1>3, <1>5, <1>7 DEF r, m

LEMMA ReceivedFromDoes ==
  ASSUME TypeOK, NEW t \in Readers, ReceiveFromReturns(t)
  PROVE  /\ TypeOK' /\ thread[t].pc = "taken" /\ thread[t].hand \in Messages
         /\ thread'[t] = After(thread[t]) /\ \A u \in Readers : u # t => thread'[u] = thread[u]
         /\ \E x \in Returns : x.message = thread[t].hand /\ returned' = returned \cup {x}
         /\ UNCHANGED <<settings, sends, net, queue, lost>>
<1> DEFINE m == thread[t].hand
<1>1. thread[t].pc = "taken" /\ thread[t] \in ThreadStates /\ ThreadOK(thread[t])
  BY ThreadType DEF ReceiveFromReturns
<1>2. m \in Messages
  BY <1>1, StateType DEF ThreadOK
<1>3. PICK from \in IF m.from \in Unnamed THEN AddressesLeft ELSE {m.from} : ReceivedFrom(t, from)
  BY DEF ReceiveFromReturns
<1> DEFINE x == [message |-> m, size |-> Copied(m, thread[t].size), form |-> "receiveFrom", from |-> from]
<1>4. /\ thread' = [thread EXCEPT ![t] = After(@)] /\ returned' = returned \cup {x}
      /\ UNCHANGED <<settings, sends, net, queue, lost>>
  BY <1>3 DEF ReceivedFrom
<1>5. from \in Senders \cup {NoAddress}
  <2>1. m.from \in Senders
    BY <1>2, MessageType
  <2> QED
    BY <1>3, <2>1 DEF AddressesLeft
<1>6. Copied(m, thread[t].size) \in 0..MaxDatagram
  BY <1>1, <1>2, StateType, CopiedType
<1> HIDE DEF m
<1>7. x \in Returns /\ x.message = m
  BY <1>2, <1>5, <1>6 DEF Returns
<1> HIDE DEF x
<1>8. /\ thread'[t] = After(thread[t]) /\ \A u \in Readers : u # t => thread'[u] = thread[u]
      /\ thread' \in [Readers -> ThreadStates]
  BY <1>1, <1>4, AfterType DEF TypeOK, ThreadOK
<1>9. \A u \in Readers : thread'[u].pc = "taken" <=> thread'[u].hand # NoMessage
  BY <1>1, <1>8, AfterType DEF TypeOK
<1>10. TypeOK'
  BY <1>4, <1>7, <1>8, <1>9 DEF TypeOK, settings, Returns
<1> QED
  BY <1>1, <1>2, <1>4, <1>7, <1>8, <1>10 DEF m

LEMMA ThrowsDoes ==
  ASSUME TypeOK, NEW t \in Readers, ReceiveFromThrows(t)
  PROVE  /\ TypeOK' /\ thread[t].pc = "taken" /\ thread[t].hand \in Messages
         /\ thread[t].hand.from \in Unnamed /\ lost' = lost \cup {thread[t].hand}
         /\ thread'[t] = After(thread[t]) /\ \A u \in Readers : u # t => thread'[u] = thread[u]
         /\ UNCHANGED <<settings, sends, net, queue, returned>>
<1>1. thread[t].pc = "taken" /\ thread[t] \in ThreadStates /\ ThreadOK(thread[t])
  BY ThreadType DEF ReceiveFromThrows
<1>2. thread[t].hand \in Messages
  BY <1>1, StateType DEF ThreadOK
<1>3. /\ thread' = [thread EXCEPT ![t] = After(@)] /\ lost' = lost \cup {thread[t].hand}
      /\ thread[t].hand.from \in Unnamed
      /\ UNCHANGED <<settings, sends, net, queue, returned>>
  BY DEF ReceiveFromThrows
<1>4. /\ thread'[t] = After(thread[t]) /\ \A u \in Readers : u # t => thread'[u] = thread[u]
      /\ thread' \in [Readers -> ThreadStates]
  BY <1>1, <1>3, AfterType DEF TypeOK, ThreadOK
<1>5. \A u \in Readers : thread'[u].pc = "taken" <=> thread'[u].hand # NoMessage
  BY <1>1, <1>4, AfterType DEF TypeOK
<1>6. TypeOK'
  BY <1>2, <1>3, <1>4, <1>5 DEF TypeOK, settings
<1> QED
  BY <1>1, <1>2, <1>3, <1>4, <1>6

-----------------------------------------------------------------------------
(* Sending and the network.                                                *)

LEMMA CalledDoes ==
  ASSUME TypeOK, NEW s \in Senders, NEW r \in Sockets \cup {NoSocket}, NEW len \in Lens,
         NEW how \in {"returned", "thrown"}, Called(s, r, len, how)
  PROVE  /\ sends' \in [Senders -> Seq(Calls)] /\ \A u \in Senders : Len(sends'[u]) <= MaxSends
         /\ Len(sends[s]) + 1 \in 1..MaxSends
         /\ \A m \in Messages :
              /\ Sent(m)' <=>
                   \/ Sent(m)
                   \/ /\ m.from = s /\ m.number = Len(sends[s]) + 1
                      /\ m.to = r /\ m.len = len /\ how = "returned"
              /\ m.from = s /\ m.number = Len(sends[s]) + 1 => ~Sent(m)
         /\ UNCHANGED <<settings, queue, thread, returned, lost>>
<1> DEFINE o == [to |-> r, len |-> len, how |-> how]
           q == sends[s]
<1>1. /\ Len(q) < MaxSends /\ sends' = [sends EXCEPT ![s] = Append(@, o)]
      /\ UNCHANGED <<settings, queue, thread, returned, lost>>
  BY DEF Called
<1>2. q \in Seq(Calls) /\ Len(q) \in Nat /\ DOMAIN q = 1..Len(q)
  <2>1. q \in Seq(Calls)
    BY DEF TypeOK
  <2> QED
    BY <2>1, SeqPlaces
<1>3. o \in Calls /\ o.to = r /\ o.len = len /\ o.how = how
  BY DEF Calls
<1>4. \A to, l : [to |-> to, len |-> l, how |-> "returned"] = o <=> to = r /\ l = len /\ how = "returned"
  OBVIOUS
<1> HIDE DEF o
<1>5. /\ Append(q, o) \in Seq(Calls) /\ Len(Append(q, o)) = Len(q) + 1
      /\ DOMAIN Append(q, o) = DOMAIN q \cup {Len(q) + 1}
      /\ \A i \in DOMAIN q : i # Len(q) + 1 /\ Append(q, o)[i] = q[i]
      /\ Append(q, o)[Len(q) + 1] = o
  BY <1>2, <1>3, SeqAppended
<1>6. sends'[s] = Append(q, o) /\ \A u \in Senders : u # s => sends'[u] = sends[u]
  BY <1>1 DEF TypeOK
<1>7. MaxSends \in Nat /\ Len(q) + 1 \in 1..MaxSends
  <2>1. MaxSends \in Nat
    BY DatagramAssumption
  <2> QED
    BY <1>1, <1>2, <2>1
<1>8. sends' \in [Senders -> Seq(Calls)]
  BY <1>1, <1>5 DEF TypeOK
<1>9. \A u \in Senders : Len(sends'[u]) <= MaxSends
  <2>1. Len(sends'[s]) = Len(q) + 1
    BY <1>5, <1>6
  <2>2. Len(q) + 1 <= MaxSends
    BY <1>7
  <2>3. \A u \in Senders : Len(sends[u]) <= MaxSends
    BY DEF TypeOK
  <2> QED
    BY <1>6, <2>1, <2>2, <2>3
<1> HIDE DEF q
<1>10. ASSUME NEW m \in Messages
       PROVE  /\ Sent(m)' <=>
                   \/ Sent(m)
                   \/ /\ m.from = s /\ m.number = Len(q) + 1
                      /\ m.to = r /\ m.len = len /\ how = "returned"
              /\ m.from = s /\ m.number = Len(q) + 1 => ~Sent(m)
  <2>1. m.from \in Senders
    BY MessageType
  <2>2. CASE m.from # s
    BY <1>6, <2>1, <2>2 DEF Sent
  <2>3. CASE m.from = s
    <3> DEFINE x == [to |-> m.to, len |-> m.len, how |-> "returned"]
               k == m.number
    <3>1. x = o <=> m.to = r /\ m.len = len /\ how = "returned"
      BY <1>4
    <3> HIDE DEF x
    <3>2. /\ Sent(m) <=> k \in DOMAIN q /\ q[k] = x
          /\ Sent(m)' <=> k \in DOMAIN Append(q, o) /\ Append(q, o)[k] = x
      BY <1>6, <2>3 DEF Sent, x, q
    <3> HIDE DEF k
    <3>3. CASE k = Len(q) + 1
      <4>1. k \notin DOMAIN q
        BY <1>5, <3>3
      <4>2. Append(q, o)[k] = o /\ k \in DOMAIN Append(q, o)
        BY <1>5, <3>3
      <4> QED
        BY <2>3, <3>1, <3>2, <3>3, <4>1, <4>2 DEF k
    <3>4. CASE k # Len(q) + 1
      BY <1>5, <2>3, <3>2, <3>4 DEF k
    <3> QED
      BY <3>3, <3>4
  <2> QED
    BY <2>2, <2>3
<1> QED
  BY <1>1, <1>7, <1>8, <1>9, <1>10 DEF q

LEMMA SendDoes ==
  ASSUME TypeOK, NEW s \in Senders, NEW r \in Sockets, NEW len \in Lens, Send(s, r, len)
  PROVE  /\ TypeOK' /\ UNCHANGED <<settings, queue, thread, returned, lost>>
         /\ \E m \in Messages :
              /\ net' = net \cup {m} /\ ~Sent(m)
              /\ \A x \in Messages : Sent(x)' <=> Sent(x) \/ x = m
<1> DEFINE m == Message(s, r, len)
<1>1. len \in 1..MaxDatagram /\ net' = net \cup {m} /\ Called(s, r, len, "returned")
  BY DEF Send
<1>2. /\ sends' \in [Senders -> Seq(Calls)] /\ \A u \in Senders : Len(sends'[u]) <= MaxSends
      /\ Len(sends[s]) + 1 \in 1..MaxSends
      /\ \A x \in Messages :
           /\ Sent(x)' <=>
                \/ Sent(x)
                \/ x.from = s /\ x.number = Len(sends[s]) + 1 /\ x.to = r /\ x.len = len
           /\ x.from = s /\ x.number = Len(sends[s]) + 1 => ~Sent(x)
      /\ UNCHANGED <<settings, queue, thread, returned, lost>>
  BY <1>1, CalledDoes
<1>3. /\ m \in Messages /\ m.from = s /\ m.number = Len(sends[s]) + 1
      /\ \A x \in Messages :
           x = m <=> x.from = s /\ x.number = Len(sends[s]) + 1 /\ x.to = r /\ x.len = len
  BY <1>1, <1>2 DEF Message, Messages
<1> HIDE DEF m
<1>4. TypeOK'
  BY <1>1, <1>2, <1>3 DEF TypeOK, settings
<1> QED
  BY <1>1, <1>2, <1>3, <1>4

LEMMA NothingSentDoes ==
  ASSUME TypeOK, NEW s \in Senders, NEW len \in Lens, SendNothing(s, len) \/ SendThrows(s, len)
  PROVE  /\ TypeOK' /\ UNCHANGED <<settings, net, queue, thread, returned, lost>>
         /\ \A m \in Messages : Sent(m)' <=> Sent(m)
<1>1. PICK how \in {"returned", "thrown"} : Called(s, NoSocket, len, how) /\ UNCHANGED net
  BY DEF SendNothing, SendThrows
<1>2. /\ sends' \in [Senders -> Seq(Calls)] /\ \A u \in Senders : Len(sends'[u]) <= MaxSends
      /\ \A m \in Messages : (Sent(m)' <=> Sent(m)) \/ m.to = NoSocket
      /\ UNCHANGED <<settings, queue, thread, returned, lost>>
  BY <1>1, CalledDoes
<1>3. \A m \in Messages : m.to # NoSocket
  BY MessageType, DatagramAssumption
<1>4. TypeOK'
  BY <1>1, <1>2 DEF TypeOK, settings
<1> QED
  BY <1>1, <1>2, <1>3, <1>4

LEMMA ArriveDoes ==
  ASSUME TypeOK, NEW m \in net, Arrive(m)
  PROVE  /\ TypeOK' /\ m \in Messages /\ net' = net \ {m}
         /\ queue'[m.to] = Append(queue[m.to], m)
         /\ \A r \in Sockets : r # m.to => queue'[r] = queue[r]
         /\ UNCHANGED <<settings, sends, thread, returned, lost>>
<1>1. /\ net' = net \ {m} /\ queue' = [queue EXCEPT ![m.to] = Append(@, m)]
      /\ UNCHANGED <<settings, sends, thread, returned, lost>>
  BY DEF Arrive
<1>2. m \in Messages /\ m.to \in Sockets
  <2>1. m \in Messages
    BY DEF TypeOK
  <2> QED
    BY <2>1, MessageType
<1>3. Append(queue[m.to], m) \in Seq(Messages)
  BY <1>2, QueueType, SeqAppended
<1>4. /\ queue' \in [Sockets -> Seq(Messages)] /\ queue'[m.to] = Append(queue[m.to], m)
      /\ \A r \in Sockets : r # m.to => queue'[r] = queue[r]
  BY <1>1, <1>2, <1>3 DEF TypeOK
<1>5. TypeOK'
  BY <1>1, <1>4 DEF TypeOK, settings
<1> QED
  BY <1>1, <1>2, <1>4, <1>5

-----------------------------------------------------------------------------
(* Options.                                                                *)

SetsUp ==
  \/ \E us \in Micros : ReceiveTimeout(us)
  \/ \E value \in BOOLEAN, garbage \in Ints : SocketOption(value, garbage)
  \/ \E value \in Ints : SocketIntOption(value)

LEMMA PlatformIs ==
  ASSUME TypeOK
  PROVE  platform \in {"posix", "windows"} /\ asked \in Int /\ asked \in Micros \cup {0}
<1>1. platform \in Platforms /\ asked \in Micros \cup {0}
  BY DEF TypeOK
<1> QED
  BY <1>1, DatagramAssumption

LEMMA TimeoutType ==
  ASSUME NEW p \in {"posix", "windows"}, NEW us \in Int, SetTimeout(p, us) # Rejected
  PROVE  SetTimeout(p, us) \in Nat \cup {Forever}
  BY PosixTimeout, WindowsTimeout

LEMMA BoolOptionIs ==
  ASSUME NEW value \in BOOLEAN, NEW garbage
  PROVE  LET o == BoolOption(IntOfBool(value, garbage))
         IN  o \in Ints /\ \A i \in 1..IntBytes : o[i] = IF i = 1 /\ value THEN 1 ELSE 0
<1> DEFINE int == IntOfBool(value, garbage)
<1>1. \A i \in 1..IntBytes : int[i] = IF i = 1 /\ value THEN 1 ELSE 0
  BY DEF IntOfBool
<1>2. 1 \in 1..IntBytes
  BY UnitsArePositive
<1>3. (\E j \in 1..IntBytes : int[j] # 0) <=> value
  BY <1>1, <1>2
<1> HIDE DEF int
<1>4. 0 \in Byte /\ 1 \in Byte
  BY OptionsAssumption
<1> QED
  BY <1>3, <1>4 DEF BoolOption, Ints, int

LEMMA SetsUpDoes ==
  ASSUME TypeOK, SettingsKept, SetsUp
  PROVE  TypeOK' /\ SettingsKept' /\ UNCHANGED <<platform, sends, net, queue, thread, returned, lost>>
<1>1. ASSUME NEW us \in Micros, ReceiveTimeout(us)
      PROVE  TypeOK' /\ SettingsKept'
  <2>1. /\ SetTimeout(platform, us) # Rejected /\ asked' = us /\ wait' = SetTimeout(platform, us)
        /\ UNCHANGED <<platform, flag, option, number, sends, net, queue, thread, returned, lost>>
    BY <1>1 DEF ReceiveTimeout
  <2>2. us \in Int /\ platform \in {"posix", "windows"}
    BY DatagramAssumption, PlatformIs
  <2>3. SetTimeout(platform, us) \in Nat \cup {Forever}
    BY <2>1, <2>2, TimeoutType
  <2>4. TypeOK'
    BY <2>1, <2>3 DEF TypeOK
  <2> QED
    BY <2>1, <2>4 DEF SettingsKept
<1>2. ASSUME NEW value \in BOOLEAN, NEW garbage \in Ints, SocketOption(value, garbage)
      PROVE  TypeOK' /\ SettingsKept'
  <2> DEFINE o == BoolOption(IntOfBool(value, garbage))
  <2>1. /\ flag' = value /\ option' = o
        /\ UNCHANGED <<platform, asked, wait, number, sends, net, queue, thread, returned, lost>>
    BY <1>2 DEF SocketOption
  <2>2. o \in Ints /\ \A i \in 1..IntBytes : o[i] = IF i = 1 /\ value THEN 1 ELSE 0
    BY BoolOptionIs
  <2> HIDE DEF o
  <2>3. TypeOK'
    BY <2>1, <2>2 DEF TypeOK
  <2> QED
    BY <2>1, <2>2, <2>3 DEF SettingsKept
<1>3. ASSUME NEW value \in Ints, SocketIntOption(value)
      PROVE  TypeOK' /\ SettingsKept'
  BY <1>3 DEF SocketIntOption, TypeOK, SettingsKept
<1>4. UNCHANGED <<platform, sends, net, queue, thread, returned, lost>>
  BY DEF SetsUp, ReceiveTimeout, SocketOption, SocketIntOption
<1> QED
  BY <1>1, <1>2, <1>3, <1>4 DEF SetsUp

-----------------------------------------------------------------------------
(* Each message is in one place.                                           *)

LEMMA MovesDoes ==
  ASSUME TypeOK, Moves
  PROVE  /\ TypeOK' /\ UNCHANGED <<settings, sends, net, queue, returned, lost>>
         /\ \A u \in Readers : thread'[u].hand = thread[u].hand
<1>1. PICK t \in Readers :
        \/ \E list \in PollLists, ms \in Millis : ReadReadySockets(t, list, ms)
        \/ BytesReady(t)
        \/ \E n \in Sizes \cup {thread[t].size}, pc \in Receiving : ReceiveReady(t, n, pc)
        \/ \E r \in Direct, n \in Sizes, pc \in Receiving : Receive(t, r, n, pc)
        \/ PollReturns(t) \/ PollTimesOut(t) \/ PollThrows(t)
        \/ ReceiveTimesOut(t) \/ ReceiveThrows(t)
  BY DEF Moves
<1>2. \E c : ThreadOK(c) /\ Becomes(t, c) /\ thread[t].hand = NoMessage /\ c.hand = NoMessage
  <2>1. CASE \E list \in PollLists, ms \in Millis : ReadReadySockets(t, list, ms)
    BY <2>1, ReadReadyDoes
  <2>2. CASE BytesReady(t)
    BY <2>2, BytesReadyDoes
  <2>3. CASE \E n \in Sizes \cup {thread[t].size}, pc \in Receiving : ReceiveReady(t, n, pc)
    BY <2>3, ReceiveReadyDoes
  <2>4. CASE \E r \in Direct, n \in Sizes, pc \in Receiving : Receive(t, r, n, pc)
    BY <2>4, ReceiveDoes
  <2>5. CASE PollReturns(t)
    BY <2>5, PollReturnsDoes
  <2>6. CASE PollTimesOut(t) \/ PollThrows(t)
    BY <2>6, PollTimesOutDoes, IdleType
  <2>7. CASE ReceiveTimesOut(t) \/ ReceiveThrows(t)
    BY <2>7, ReceiveTimesOutDoes, ThreadType, AfterType
  <2> QED
    BY <1>1, <2>1, <2>2, <2>3, <2>4, <2>5, <2>6, <2>7
<1>3. PICK c : ThreadOK(c) /\ Becomes(t, c) /\ thread[t].hand = NoMessage /\ c.hand = NoMessage
  BY <1>2
<1>4. /\ TypeOK' /\ thread'[t] = c /\ \A u \in Readers : u # t => thread'[u] = thread[u]
      /\ UNCHANGED <<settings, sends, net, queue, returned, lost>>
  BY <1>3, BecomesDoes
<1> QED
  BY <1>3, <1>4

LEMMA QueuedIs ==
  ASSUME TypeOK, Delivered, NEW m \in Messages, NEW r \in Sockets
  PROVE  (\E i \in DOMAIN queue[r] : queue[r][i] = m) => m.to = r
  BY DEF Delivered

(* The first message of a queue is taken. *)
LEMMA TakenMoves ==
  ASSUME TypeOK, Delivered, Placed, NEW r \in Sockets, queue[r] # <<>>,
         queue' \in [Sockets -> Seq(Messages)], queue'[r] = Tail(queue[r]),
         \A s \in Sockets : s # r => queue'[s] = queue[s],
         NEW h, h = Head(queue[r])
  PROVE  /\ Delivered' /\ Queued(h, 1) /\ \A i : ~Queued(h, i)'
         /\ \A m \in Messages : m # h =>
              /\ (\E i : Queued(m, i)') <=> (\E i : Queued(m, i))
              /\ (\A i, j : Queued(m, i) /\ Queued(m, j) => i = j) =>
                   \A i, j : Queued(m, i)' /\ Queued(m, j)' => i = j
<1> DEFINE q == queue[r]
<1>1. /\ q \in Seq(Messages) /\ Len(q) \in Nat \ {0} /\ DOMAIN q = 1..Len(q)
      /\ h = q[1] /\ 1 \in DOMAIN q /\ h \in Messages
  BY QueueType, SeqPlaces
<1>2. /\ Len(Tail(q)) = Len(q) - 1 /\ Tail(q) \in Seq(Messages)
      /\ \A i \in DOMAIN Tail(q) : i + 1 \in DOMAIN q /\ Tail(q)[i] = q[i + 1]
  BY <1>1, SeqTaken
<1>3. DOMAIN Tail(q) = 1..(Len(q) - 1)
  BY <1>2, SeqPlaces
<1>4. h.to = r /\ Queued(h, 1)
  BY <1>1 DEF Delivered, Queued
<1>5. \A i \in DOMAIN q : q[i].to = r
  BY DEF Delivered
<1>6. \A m \in Messages : m.to \in Sockets
  BY MessageType
<1> HIDE DEF q
<1>7. queue[r] = q /\ queue'[r] = Tail(q)
  BY DEF q
<1>8. Delivered'
  <2>1. \A i \in DOMAIN Tail(q) : Tail(q)[i].to = r
    BY <1>2, <1>5
  <2> QED
    BY <1>7, <2>1 DEF Delivered
<1>9. \A m \in Messages : \A i : m.to # r => (Queued(m, i)' <=> Queued(m, i))
  BY <1>6 DEF Queued
<1>10. \A m \in Messages : \A i : m.to = r =>
         /\ Queued(m, i)' <=> i \in 1..(Len(q) - 1) /\ q[i + 1] = m
         /\ Queued(m, i) <=> i \in 1..Len(q) /\ q[i] = m
  BY <1>1, <1>2, <1>3, <1>7 DEF Queued
<1>11. \A i : ~Queued(h, i)'
  <2>1. \A i, j : Queued(h, i) /\ Queued(h, j) => i = j
    BY <1>1 DEF Placed, InOnePlace
  <2>2. ASSUME NEW i, Queued(h, i)'
        PROVE  FALSE
    <3>1. i \in 1..(Len(q) - 1) /\ q[i + 1] = h
      BY <1>1, <1>4, <1>10, <2>2
    <3>2. i + 1 \in 1..Len(q) /\ i + 1 # 1
      BY <1>1, <3>1
    <3>3. Queued(h, i + 1)
      BY <1>1, <1>4, <1>10, <3>1, <3>2
    <3> QED
      BY <1>4, <2>1, <3>2, <3>3
  <2> QED
    BY <2>2
<1>12. ASSUME NEW m \in Messages, m # h, m.to = r
       PROVE  /\ \A i : Queued(m, i)' => i \in Nat /\ Queued(m, i + 1)
              /\ \A i : Queued(m, i) => i - 1 \in Nat /\ Queued(m, i - 1)'
  <2>1. ASSUME NEW i, Queued(m, i)'
        PROVE  i \in Nat /\ Queued(m, i + 1)
    <3>1. i \in 1..(Len(q) - 1) /\ q[i + 1] = m
      BY <1>10, <1>12, <2>1
    <3>2. i + 1 \in 1..Len(q) /\ i \in Nat
      BY <1>1, <3>1
    <3> QED
      BY <1>10, <1>12, <3>1, <3>2
  <2>2. ASSUME NEW i, Queued(m, i)
        PROVE  i - 1 \in Nat /\ Queued(m, i - 1)'
    <3>1. i \in 1..Len(q) /\ q[i] = m
      BY <1>10, <1>12, <2>2
    <3>2. i # 1
      BY <1>1, <1>12, <3>1
    <3>3. i - 1 \in 1..(Len(q) - 1) /\ i - 1 + 1 = i
      BY <1>1, <3>1, <3>2
    <3> QED
      BY <1>10, <1>12, <3>1, <3>3
  <2> QED
    BY <2>1, <2>2
<1>13. ASSUME NEW m \in Messages, m # h
       PROVE  /\ (\E i : Queued(m, i)') <=> (\E i : Queued(m, i))
              /\ (\A i, j : Queued(m, i) /\ Queued(m, j) => i = j) =>
                   \A i, j : Queued(m, i)' /\ Queued(m, j)' => i = j
  <2>1. CASE m.to # r
    BY <1>9, <2>1
  <2>2. CASE m.to = r
    <3>1. (\E i : Queued(m, i)') <=> (\E i : Queued(m, i))
      BY <1>12, <1>13, <2>2
    <3>2. ASSUME \A i, j : Queued(m, i) /\ Queued(m, j) => i = j,
                 NEW i, NEW j, Queued(m, i)', Queued(m, j)'
          PROVE  i = j
      <4>1. i \in Nat /\ j \in Nat /\ Queued(m, i + 1) /\ Queued(m, j + 1)
        BY <1>12, <1>13, <2>2, <3>2
      <4>2. i + 1 = j + 1
        BY <3>2, <4>1
      <4> QED
        BY <4>1, <4>2
    <3> QED
      BY <3>1, <3>2
  <2> QED
    BY <2>1, <2>2
<1> QED
  BY <1>4, <1>8, <1>11, <1>13

LEMMA SamePlaces ==
  ASSUME Placed, UNCHANGED <<net, queue, returned, lost>>,
         \A u \in Readers : thread'[u].hand = thread[u].hand,
         \A m \in Messages : Sent(m)' <=> Sent(m)
  PROVE  Placed'
<1>1. ASSUME NEW m \in Messages
      PROVE  InOnePlace(m)' /\ (Sent(m)' <=> Somewhere(m)')
  <2>1. InOnePlace(m) /\ (Sent(m) <=> Somewhere(m)) /\ (Sent(m)' <=> Sent(m))
    BY DEF Placed
  <2>2. /\ \A i : Queued(m, i)' <=> Queued(m, i)
        /\ \A t : Held(m, t)' <=> Held(m, t)
        /\ \A x : Back(m, x)' <=> Back(m, x)
    BY DEF Queued, Held, Back
  <2>3. InOnePlace(m)'
    BY <2>1, <2>2 DEF InOnePlace
  <2>4. Somewhere(m)' <=> Somewhere(m)
    BY <2>2 DEF Somewhere
  <2> QED
    BY <2>1, <2>3, <2>4
<1> QED
  BY <1>1 DEF Placed

LEMMA SameSent ==
  ASSUME UNCHANGED sends
  PROVE  \A m \in Messages : Sent(m)' <=> Sent(m)
  BY DEF Sent

LEMMA PlacedBySend ==
  ASSUME TypeOK, Placed, NEW s \in Senders, NEW r \in Sockets, NEW len \in Lens, Send(s, r, len)
  PROVE  Placed'
<1>1. PICK h \in Messages :
        net' = net \cup {h} /\ ~Sent(h) /\ \A x \in Messages : Sent(x)' <=> Sent(x) \/ x = h
  BY SendDoes
<1>2. UNCHANGED <<queue, thread, returned, lost>>
  BY SendDoes
<1>3. ASSUME NEW m \in Messages
      PROVE  InOnePlace(m)' /\ (Sent(m)' <=> Somewhere(m)')
  <2>1. InOnePlace(m) /\ (Sent(m) <=> Somewhere(m))
    BY DEF Placed
  <2>2. /\ \A i : Queued(m, i)' <=> Queued(m, i)
        /\ \A t : Held(m, t)' <=> Held(m, t)
        /\ \A x : Back(m, x)' <=> Back(m, x)
    BY <1>2 DEF Queued, Held, Back
  <2>3. /\ m \in net' <=> m \in net \/ m = h
        /\ m \in lost' <=> m \in lost
        /\ Sent(m)' <=> Sent(m) \/ m = h
    BY <1>1, <1>2
  <2>4. m = h => ~Somewhere(m)
    BY <1>1, <2>1
  <2>5. Somewhere(m)' <=> Somewhere(m) \/ m = h
    BY <2>2, <2>3 DEF Somewhere
  <2>6. InOnePlace(m)'
    <3>1. CASE m = h
      BY <2>2, <2>3, <2>4, <3>1 DEF InOnePlace, Somewhere
    <3>2. CASE m # h
      BY <2>1, <2>2, <2>3, <3>2 DEF InOnePlace
    <3> QED
      BY <3>1, <3>2
  <2> QED
    BY <2>1, <2>3, <2>5, <2>6
<1> QED
  BY <1>3 DEF Placed

LEMMA PlacedByArrive ==
  ASSUME TypeOK, Delivered, Placed, NEW h \in net, Arrive(h)
  PROVE  Placed' /\ Delivered'
<1> DEFINE q == queue[h.to]
<1>1. /\ h \in Messages /\ net' = net \ {h} /\ queue'[h.to] = Append(q, h)
      /\ \A r \in Sockets : r # h.to => queue'[r] = queue[r]
      /\ UNCHANGED <<sends, thread, returned, lost>>
  BY ArriveDoes
<1>2. q \in Seq(Messages) /\ h.to \in Sockets
  BY <1>1, MessageType, QueueType
<1>3. /\ DOMAIN Append(q, h) = DOMAIN q \cup {Len(q) + 1}
      /\ \A i \in DOMAIN q : i # Len(q) + 1 /\ Append(q, h)[i] = q[i]
      /\ Append(q, h)[Len(q) + 1] = h
  BY <1>1, <1>2, SeqAppended
<1>4. PICK k : k = Len(q) + 1
  OBVIOUS
<1>5. Delivered'
  <2>1. \A i \in DOMAIN Append(q, h) : Append(q, h)[i].to = h.to
    BY <1>2, <1>3 DEF Delivered
  <2> QED
    BY <1>1, <2>1 DEF Delivered
<1>6. ASSUME NEW m \in Messages
      PROVE  InOnePlace(m)' /\ (Sent(m)' <=> Somewhere(m)')
  <2>0. InOnePlace(m) /\ (Sent(m) <=> Somewhere(m)) /\ (Sent(m)' <=> Sent(m)) /\ m.to \in Sockets
    BY <1>1, SameSent, MessageType DEF Placed
  <2>1. /\ \A t : Held(m, t)' <=> Held(m, t)
        /\ \A x : Back(m, x)' <=> Back(m, x)
        /\ m \in net' <=> m \in net /\ m # h
        /\ m \in lost' <=> m \in lost
    BY <1>1 DEF Held, Back
  <2>2. \A i : Queued(m, i)' <=> Queued(m, i) \/ (m = h /\ i = k)
    <3>1. CASE m.to = h.to
      BY <1>1, <1>3, <1>4, <3>1 DEF Queued
    <3>2. CASE m.to # h.to
      BY <1>1, <2>0, <3>2 DEF Queued
    <3> QED
      BY <3>1, <3>2
  <2>3. CASE m = h
    <3>1. /\ m \in net /\ m \notin lost /\ \A i : ~Queued(m, i)
          /\ (\A t : ~Held(m, t)) /\ \A x : ~Back(m, x)
      BY <2>0, <2>3 DEF InOnePlace
    <3>2. Sent(m)' /\ Somewhere(m)'
      BY <2>0, <2>2, <2>3, <3>1 DEF Somewhere
    <3>3. InOnePlace(m)'
      BY <2>1, <2>2, <2>3, <3>1 DEF InOnePlace
    <3> QED
      BY <3>2, <3>3
  <2>4. CASE m # h
    <3>1. \A i : Queued(m, i)' <=> Queued(m, i)
      BY <2>2, <2>4
    <3>2. Somewhere(m)' <=> Somewhere(m)
      BY <2>1, <2>4, <3>1 DEF Somewhere
    <3>3. InOnePlace(m)'
      BY <2>0, <2>1, <2>4, <3>1 DEF InOnePlace
    <3> QED
      BY <2>0, <3>2, <3>3
  <2> QED
    BY <2>3, <2>4
<1> QED
  BY <1>5, <1>6 DEF Placed

LEMMA PlacedByReceiveReturns ==
  ASSUME TypeOK, Positions, Delivered, Placed, NEW t \in Readers, ReceiveReturns(t)
  PROVE  Placed' /\ Delivered'
<1>1. PICK r \in Sockets, x \in Returns, c \in ThreadStates :
        /\ r = thread[t].on /\ c = After(thread[t]) /\ ThreadOK(c) /\ Take(t, c)
        /\ x.message = Head(queue[r]) /\ returned' = returned \cup {x}
  BY ReceiveReturnsDoes DEF ThreadOK
<1>2. UNCHANGED <<sends, net, lost>> /\ thread[t].hand = NoMessage /\ thread[t] \in ThreadStates
  BY ReceiveReturnsDoes, ThreadType
<1>3. /\ queue[r] # <<>> /\ queue' \in [Sockets -> Seq(Messages)] /\ queue'[r] = Tail(queue[r])
      /\ \A s \in Sockets : s # r => queue'[s] = queue[s]
      /\ thread'[t] = c /\ \A u \in Readers : u # t => thread'[u].hand = thread[u].hand
      /\ x.message \in Messages
  BY <1>1, TakeDoes
<1> DEFINE h == x.message
<1>4. /\ Delivered' /\ Queued(h, 1) /\ \A i : ~Queued(h, i)'
      /\ \A m \in Messages : m # h =>
           /\ (\E i : Queued(m, i)') <=> (\E i : Queued(m, i))
           /\ (\A i, j : Queued(m, i) /\ Queued(m, j) => i = j) =>
                \A i, j : Queued(m, i)' /\ Queued(m, j)' => i = j
  BY <1>1, <1>3, TakenMoves
<1>5. \A u \in Readers : thread'[u].hand = thread[u].hand
  BY <1>1, <1>2, <1>3, AfterType
<1>6. ASSUME NEW m \in Messages
      PROVE  InOnePlace(m)' /\ (Sent(m)' <=> Somewhere(m)')
  <2>0. InOnePlace(m) /\ (Sent(m) <=> Somewhere(m)) /\ (Sent(m)' <=> Sent(m))
    BY <1>2, SameSent DEF Placed
  <2>1. /\ \A u : Held(m, u)' <=> Held(m, u)
        /\ \A y : Back(m, y)' <=> Back(m, y) \/ (m = h /\ y = x)
        /\ m \in net' <=> m \in net
        /\ m \in lost' <=> m \in lost
    BY <1>1, <1>2, <1>5 DEF Held, Back
  <2>2. CASE m = h
    <3>1. /\ m \notin net /\ m \notin lost /\ (\A u : ~Held(m, u)) /\ \A y : ~Back(m, y)
      BY <1>4, <2>0, <2>2 DEF InOnePlace
    <3>2. Somewhere(m) /\ Somewhere(m)'
      BY <1>4, <2>1, <2>2 DEF Somewhere
    <3>3. \A i : ~Queued(m, i)'
      BY <1>4, <2>2
    <3>4. InOnePlace(m)'
      BY <2>1, <2>2, <3>1, <3>3 DEF InOnePlace
    <3> QED
      BY <2>0, <3>2, <3>4
  <2>3. CASE m # h
    <3>1. \A y : Back(m, y)' <=> Back(m, y)
      BY <2>1, <2>3
    <3>2. (\E i : Queued(m, i)') <=> (\E i : Queued(m, i))
      BY <1>4, <2>3
    <3>3. \A i, j : Queued(m, i) /\ Queued(m, j) => i = j
      BY <2>0 DEF InOnePlace
    <3>4. \A i, j : Queued(m, i)' /\ Queued(m, j)' => i = j
      BY <1>4, <2>3, <3>3
    <3>5. Somewhere(m)' <=> Somewhere(m)
      BY <2>1, <3>1, <3>2 DEF Somewhere
    <3>6. InOnePlace(m)'
      BY <2>0, <2>1, <3>1, <3>2, <3>4 DEF InOnePlace
    <3> QED
      BY <2>0, <3>5, <3>6
  <2> QED
    BY <2>2, <2>3
<1> QED
  BY <1>4, <1>6 DEF Placed

LEMMA PlacedByReceiveFromTakes ==
  ASSUME TypeOK, Positions, Delivered, Placed, NEW t \in Readers, ReceiveFromTakes(t)
  PROVE  Placed' /\ Delivered'
<1>1. PICK r \in Sockets, c \in ThreadStates :
        r = thread[t].on /\ ThreadOK(c) /\ Take(t, c) /\ c.hand = Head(queue[r])
  BY ReceiveFromTakesDoes DEF ThreadOK
<1>2. UNCHANGED <<sends, net, returned, lost>> /\ thread[t].hand = NoMessage
  BY ReceiveFromTakesDoes
<1>3. /\ queue[r] # <<>> /\ queue' \in [Sockets -> Seq(Messages)] /\ queue'[r] = Tail(queue[r])
      /\ \A s \in Sockets : s # r => queue'[s] = queue[s]
      /\ thread'[t] = c /\ \A u \in Readers : u # t => thread'[u].hand = thread[u].hand
      /\ c.hand \in Messages
  BY <1>1, TakeDoes
<1> DEFINE h == c.hand
<1>4. /\ Delivered' /\ Queued(h, 1) /\ \A i : ~Queued(h, i)'
      /\ \A m \in Messages : m # h =>
           /\ (\E i : Queued(m, i)') <=> (\E i : Queued(m, i))
           /\ (\A i, j : Queued(m, i) /\ Queued(m, j) => i = j) =>
                \A i, j : Queued(m, i)' /\ Queued(m, j)' => i = j
  BY <1>1, <1>3, TakenMoves
<1>5. ASSUME NEW m \in Messages
      PROVE  InOnePlace(m)' /\ (Sent(m)' <=> Somewhere(m)')
  <2>0. /\ InOnePlace(m) /\ (Sent(m) <=> Somewhere(m)) /\ (Sent(m)' <=> Sent(m))
        /\ m # NoMessage
    BY <1>2, SameSent, MessageType DEF Placed
  <2>1. /\ \A u : Held(m, u)' <=> Held(m, u) \/ (m = h /\ u = t)
        /\ \A y : Back(m, y)' <=> Back(m, y)
        /\ m \in net' <=> m \in net
        /\ m \in lost' <=> m \in lost
    BY <1>2, <1>3, <2>0 DEF Held, Back
  <2>2. CASE m = h
    <3>1. /\ m \notin net /\ m \notin lost /\ (\A u : ~Held(m, u)) /\ \A y : ~Back(m, y)
      BY <1>4, <2>0, <2>2 DEF InOnePlace
    <3>2. Somewhere(m) /\ Somewhere(m)'
      BY <1>4, <2>1, <2>2 DEF Somewhere
    <3>3. \A i : ~Queued(m, i)'
      BY <1>4, <2>2
    <3>4. InOnePlace(m)'
      BY <2>1, <2>2, <3>1, <3>3 DEF InOnePlace
    <3> QED
      BY <2>0, <3>2, <3>4
  <2>3. CASE m # h
    <3>1. \A u : Held(m, u)' <=> Held(m, u)
      BY <2>1, <2>3
    <3>2. (\E i : Queued(m, i)') <=> (\E i : Queued(m, i))
      BY <1>4, <2>3
    <3>3. \A i, j : Queued(m, i) /\ Queued(m, j) => i = j
      BY <2>0 DEF InOnePlace
    <3>4. \A i, j : Queued(m, i)' /\ Queued(m, j)' => i = j
      BY <1>4, <2>3, <3>3
    <3>5. Somewhere(m)' <=> Somewhere(m)
      BY <2>1, <3>1, <3>2 DEF Somewhere
    <3>6. InOnePlace(m)'
      BY <2>0, <2>1, <3>1, <3>2, <3>4 DEF InOnePlace
    <3> QED
      BY <2>0, <3>5, <3>6
  <2> QED
    BY <2>2, <2>3
<1> QED
  BY <1>4, <1>5 DEF Placed

(* The message that a thread took is returned, or lost. *)
LEMMA PlacedByHandOver ==
  ASSUME TypeOK, Placed, NEW t \in Readers,
         NEW h \in Messages, h = thread[t].hand, thread'[t].hand = NoMessage,
         \A u \in Readers : u # t => thread'[u] = thread[u],
         UNCHANGED <<sends, net, queue>>,
         \/ \E x : x.message = h /\ returned' = returned \cup {x} /\ lost' = lost
         \/ lost' = lost \cup {h} /\ returned' = returned
  PROVE  Placed'
<1>1. Held(h, t)
  BY DEF Held
<1>2. ASSUME NEW m \in Messages
      PROVE  InOnePlace(m)' /\ (Sent(m)' <=> Somewhere(m)')
  <2>0. /\ InOnePlace(m) /\ (Sent(m) <=> Somewhere(m)) /\ (Sent(m)' <=> Sent(m))
        /\ m # NoMessage
    BY SameSent, MessageType DEF Placed
  <2>1. /\ \A u : Held(m, u)' <=> Held(m, u) /\ u # t
        /\ \A i : Queued(m, i)' <=> Queued(m, i)
        /\ m \in net' <=> m \in net
    BY <2>0 DEF Held, Queued
  <2>2. CASE m = h
    <3>1. /\ m \notin net /\ m \notin lost /\ (\A i : ~Queued(m, i))
          /\ (\A y : ~Back(m, y)) /\ \A u : Held(m, u) => u = t
      BY <1>1, <2>0, <2>2 DEF InOnePlace
    <3>2. \A u : ~Held(m, u)'
      BY <2>1, <3>1
    <3>3. ASSUME NEW x, x.message = h, returned' = returned \cup {x}, lost' = lost
          PROVE  InOnePlace(m)' /\ Somewhere(m)'
      <4>1. \A y : Back(m, y)' <=> y = x
        BY <2>2, <3>1, <3>3 DEF Back
      <4> QED
        BY <2>1, <3>1, <3>2, <3>3, <4>1 DEF InOnePlace, Somewhere
    <3>4. ASSUME lost' = lost \cup {h}, returned' = returned
          PROVE  InOnePlace(m)' /\ Somewhere(m)'
      <4>1. \A y : ~Back(m, y)'
        BY <3>1, <3>4 DEF Back
      <4> QED
        BY <2>1, <2>2, <3>1, <3>2, <3>4, <4>1 DEF InOnePlace, Somewhere
    <3>5. Somewhere(m)
      BY <1>1, <2>2 DEF Somewhere
    <3> QED
      BY <2>0, <3>3, <3>4, <3>5
  <2>3. CASE m # h
    <3>1. ~Held(m, t)
      BY <2>3 DEF Held
    <3>2. \A u : Held(m, u)' <=> Held(m, u)
      BY <2>1, <3>1
    <3>3. \A y : Back(m, y)' <=> Back(m, y)
      BY <2>3 DEF Back
    <3>4. m \in lost' <=> m \in lost
      BY <2>3
    <3>5. InOnePlace(m)' /\ (Somewhere(m)' <=> Somewhere(m))
      BY <2>0, <2>1, <3>2, <3>3, <3>4 DEF InOnePlace, Somewhere
    <3> QED
      BY <2>0, <3>5
  <2> QED
    BY <2>2, <2>3
<1> QED
  BY <1>2 DEF Placed

-----------------------------------------------------------------------------
(* What a thread found ready.                                              *)

(* When a receive is over, what is known of the other sockets stays known. *)
LEMMA AfterKeeps ==
  ASSUME NEW c \in ThreadStates, AtFirst(c), FoundOnce(c), c.pc \in Receiving \cup {"taken"},
         NEW D, \A i \in DOMAIN c.ready : i # 1 => c.ready[i] \in c.raced \/ c.ready[i] \in D
  PROVE  /\ AtFirst(After(c)) /\ FoundOnce(After(c))
         /\ \A i \in DOMAIN After(c).ready :
              After(c).ready[i] \in After(c).raced \/ After(c).ready[i] \in D
<1>1. AtFirst(After(c))
  BY AfterType DEF AtFirst, Receiving
<1>2. CASE Len(c.ready) < 2
  <2>1. DOMAIN After(c).ready = {}
    BY <1>2, AfterType, IdleType
  <2> QED
    BY <1>1, <2>1 DEF FoundOnce
<1>3. CASE ~(Len(c.ready) < 2)
  <2>1. c.ready \in Seq(Sockets) /\ c.ready # <<>> /\ Len(c.ready) \in Nat /\ Len(c.ready) >= 2
    BY <1>3, StateType
  <2>2. After(c).ready = Tail(c.ready) /\ After(c).raced = c.raced \ {c.on}
    BY <2>1, AfterType
  <2>3. /\ 1 \in DOMAIN c.ready /\ Tail(c.ready) \in Seq(Sockets)
        /\ \A i \in DOMAIN Tail(c.ready) : i + 1 \in DOMAIN c.ready /\ Tail(c.ready)[i] = c.ready[i + 1]
    BY <2>1, SeqTaken
  <2>4. \A i \in DOMAIN Tail(c.ready) : i \in Nat \ {0}
    BY <2>3, SeqPlaces
  <2>5. c.on = c.ready[1]
    BY <2>1 DEF AtFirst
  <2>6. \A i \in DOMAIN Tail(c.ready) :
          c.ready[i + 1] # c.on /\ (c.ready[i + 1] \in c.raced \/ c.ready[i + 1] \in D)
    <3>1. ASSUME NEW i \in DOMAIN Tail(c.ready)
          PROVE  i + 1 # 1 /\ i + 1 \in DOMAIN c.ready
      BY <2>3, <2>4
    <3> QED
      BY <2>3, <2>5, <3>1 DEF FoundOnce
  <2>7. ASSUME NEW i \in DOMAIN Tail(c.ready), NEW j \in DOMAIN Tail(c.ready),
               Tail(c.ready)[i] = Tail(c.ready)[j]
        PROVE  i = j
    <3>1. i + 1 = j + 1
      BY <2>3, <2>7 DEF FoundOnce
    <3> QED
      BY <2>4, <3>1
  <2>8. FoundOnce(After(c))
    BY <2>2, <2>7 DEF FoundOnce
  <2> QED
    BY <1>1, <2>2, <2>3, <2>6, <2>8
<1> QED
  BY <1>2, <1>3

LEMMA PositionsStep ==
  ASSUME TypeOK, Positions, Next
  PROVE  Positions'
<1>1. CASE UNCHANGED thread
  BY <1>1 DEF Positions
<1>2. ASSUME NEW t \in Readers, NEW c, ThreadOK(c), Becomes(t, c), AtFirst(c)
      PROVE  Positions'
  BY <1>2, BecomesDoes DEF Positions
<1>3. ASSUME NEW t \in Readers, NEW c, ThreadOK(c), AtFirst(c), thread[t].on \in Sockets, Take(t, c)
      PROVE  Positions'
  <2>1. /\ thread'[t] = c
        /\ \A u \in Readers : u # t =>
             /\ thread'[u].pc = thread[u].pc /\ thread'[u].ready = thread[u].ready
             /\ thread'[u].on = thread[u].on /\ thread'[u].told = thread[u].told
    BY <1>3, TakeDoes
  <2> QED
    BY <1>3, <2>1 DEF Positions, AtFirst
<1>4. ASSUME NEW t \in Readers
      PROVE  AtFirst(After(thread[t])) /\ ThreadOK(After(thread[t]))
  <2>1. After(thread[t]).pc = "idle" /\ ThreadOK(After(thread[t]))
    BY ThreadType, AfterType
  <2> QED
    BY <2>1 DEF AtFirst, Receiving
<1>5. ASSUME NEW t \in Readers, NEW list \in PollLists, NEW ms \in Millis, ReadReadySockets(t, list, ms)
      PROVE  Positions'
  <2>1. PICK c : ThreadOK(c) /\ Becomes(t, c) /\ c.pc = "polling"
    BY <1>5, ReadReadyDoes
  <2> QED
    BY <1>2, <2>1 DEF AtFirst, Receiving
<1>6. ASSUME NEW t \in Readers, BytesReady(t)
      PROVE  Positions'
  <2>1. PICK c : ThreadOK(c) /\ Becomes(t, c) /\ c.pc = "idle"
    BY <1>6, BytesReadyDoes
  <2> QED
    BY <1>2, <2>1 DEF AtFirst, Receiving
<1>7. ASSUME NEW t \in Readers, NEW n \in Sizes \cup {thread[t].size}, NEW pc \in Receiving,
             ReceiveReady(t, n, pc)
      PROVE  Positions'
  <2>1. PICK c : /\ ThreadOK(c) /\ Becomes(t, c)
                 /\ c.told /\ c.ready # <<>> /\ c.on = c.ready[1] /\ c.on \in Sockets
    BY <1>7, ReceiveReadyDoes
  <2> QED
    BY <1>2, <2>1 DEF AtFirst
<1>8. ASSUME NEW t \in Readers, NEW r \in Direct, NEW n \in Sizes, NEW pc \in Receiving,
             Receive(t, r, n, pc)
      PROVE  Positions'
  <2>1. PICK c : ThreadOK(c) /\ Becomes(t, c) /\ ~c.told /\ c.ready = <<>> /\ c.on \in Sockets
    BY <1>8, ReceiveDoes
  <2> QED
    BY <1>2, <2>1 DEF AtFirst
<1>9. ASSUME NEW t \in Readers, PollReturns(t)
      PROVE  Positions'
  <2>1. PICK c : ThreadOK(c) /\ Becomes(t, c) /\ c.pc = "idle"
    BY <1>9, PollReturnsDoes
  <2> QED
    BY <1>2, <2>1 DEF AtFirst, Receiving
<1>10. ASSUME NEW t \in Readers,
              PollTimesOut(t) \/ PollThrows(t) \/ ReceiveTimesOut(t) \/ ReceiveThrows(t)
       PROVE  Positions'
  <2>1. PICK c : Becomes(t, c) /\ (c = Idle \/ c = After(thread[t]))
    BY <1>10, PollTimesOutDoes, ReceiveTimesOutDoes
  <2>2. ThreadOK(c) /\ AtFirst(c)
    BY <1>4, <2>1, IdleType DEF AtFirst, Receiving
  <2> QED
    BY <1>2, <2>1, <2>2
<1>11. ASSUME NEW t \in Readers, ReceiveReturns(t)
       PROVE  Positions'
  <2>1. PICK c : c = After(thread[t]) /\ Take(t, c) /\ thread[t].on \in Sockets
    BY <1>11, ReceiveReturnsDoes
  <2> QED
    BY <1>3, <1>4, <2>1
<1>12. ASSUME NEW t \in Readers, ReceiveFromTakes(t)
       PROVE  Positions'
  <2>1. PICK c : /\ ThreadOK(c) /\ Take(t, c) /\ thread[t].on \in Sockets /\ thread[t].pc \in Receiving
                 /\ c.on = thread[t].on /\ c.ready = thread[t].ready /\ c.told = thread[t].told
    BY <1>12, ReceiveFromTakesDoes
  <2>2. AtFirst(c)
    BY <2>1 DEF Positions, AtFirst
  <2> QED
    BY <1>3, <2>1, <2>2
<1>13. ASSUME NEW t \in Readers, ReceiveFromReturns(t) \/ ReceiveFromThrows(t)
       PROVE  Positions'
  <2>1. thread'[t] = After(thread[t]) /\ \A u \in Readers : u # t => thread'[u] = thread[u]
    BY <1>13, ReceivedFromDoes, ThrowsDoes
  <2>2. PICK c : c = After(thread[t])
    OBVIOUS
  <2>3. AtFirst(c)
    BY <1>4, <2>2
  <2> QED
    BY <2>1, <2>2, <2>3 DEF Positions
<1> QED
  BY <1>1, <1>5, <1>6, <1>7, <1>8, <1>9, <1>10, <1>11, <1>12, <1>13
  DEF Next, Step, ReceiveTimeout, SocketOption, SocketIntOption, SendNothing, SendThrows,
      Send, Called, Arrive

ListsOnce ==
  \A list \in PollLists : \A i, j \in DOMAIN list : list[i] = list[j] => i = j

ReadyOK(c) == FoundOnce(c) /\ StillReady(c) /\ StillMeasured(c)

LEMMA IdleReady == ReadyOK(Idle) /\ ReadyOK(Idle)'
<1>1. DOMAIN Idle.ready = {} /\ ~Idle.measured
  BY IdleType
<1> QED
  BY <1>1 DEF ReadyOK, FoundOnce, StillReady, StillMeasured

(* The first socket that a thread found ready is the one it receives from, *)
(* and it is listed once.                                                  *)
LEMMA OthersStayReady ==
  ASSUME TypeOK, Positions, Readiness, NEW t \in Readers, thread[t].pc \in Receiving,
         NEW i \in DOMAIN thread[t].ready, i # 1
  PROVE  /\ thread[t].ready[i] # thread[t].on /\ thread[t].ready[i] \in Sockets
         /\ thread[t].ready[i] \in thread[t].raced \/ HasData(thread[t].ready[i])
<1>1. thread[t] \in ThreadStates /\ AtFirst(thread[t]) /\ FoundOnce(thread[t]) /\ StillReady(thread[t])
  BY ThreadType DEF Positions, Readiness
<1>2. thread[t].ready # <<>> /\ 1 \in DOMAIN thread[t].ready /\ thread[t].ready[i] \in Sockets
  <2>1. /\ Len(thread[t].ready) \in Nat /\ DOMAIN thread[t].ready = 1..Len(thread[t].ready)
        /\ thread[t].ready[i] \in Sockets
        /\ thread[t].ready = <<>> <=> Len(thread[t].ready) = 0
    BY <1>1, StateType
  <2> QED
    BY <2>1
<1>3. thread[t].on = thread[t].ready[1]
  BY <1>1, <1>2 DEF AtFirst
<1> QED
  BY <1>1, <1>2, <1>3 DEF FoundOnce, StillReady, Receiving

LEMMA ReadyByTake ==
  ASSUME TypeOK, Positions, Readiness, NEW t \in Readers, thread[t].on \in Sockets,
         thread[t].pc \in Receiving, NEW c, ThreadOK(c), Take(t, c), UNCHANGED platform,
         \/ c = After(thread[t])
         \/ /\ c.pc = "taken" /\ c.ready = thread[t].ready /\ c.raced = thread[t].raced
            /\ c.measured = thread[t].measured
  PROVE  Readiness'
<1>1. PICK r \in Sockets : r = thread[t].on
  OBVIOUS
<1>2. PICK b \in ThreadStates : b = thread[t]
  BY ThreadType
<1>3. /\ \A s \in Sockets : s # r => queue'[s] = queue[s]
      /\ thread'[t] = c
  BY <1>1, TakeDoes
<1>4. ASSUME NEW u \in Readers, u # t
      PROVE  ReadyOK(thread[u])'
  <2>1. PICK d, e \in ThreadStates : d = thread'[u] /\ e = thread[u]
    <3>1. thread' \in [Readers -> ThreadStates]
      BY <1>1, TakeDoes
    <3>2. thread'[u] \in ThreadStates
      BY <3>1
    <3>3. thread[u] \in ThreadStates
      BY ThreadType
    <3> QED
      BY <3>2, <3>3
  <2>2. /\ d.pc = e.pc /\ d.ready = e.ready /\ d.measured = e.measured /\ d.size = e.size
        /\ e.raced \subseteq d.raced
        /\ (\E i \in DOMAIN e.ready : e.ready[i] = r) => r \in d.raced
    BY <1>1, <1>4, <2>1, TakeDoes
  <2>3. /\ \A i \in DOMAIN e.ready : e.ready[i] \in Sockets
        /\ e.ready # <<>> => 1 \in DOMAIN e.ready
    <3>1. /\ \A i \in DOMAIN e.ready : e.ready[i] \in Sockets
          /\ Len(e.ready) \in Nat /\ DOMAIN e.ready = 1..Len(e.ready)
          /\ e.ready = <<>> <=> Len(e.ready) = 0
      BY StateType
    <3> QED
      BY <3>1
  <2>4. FoundOnce(e) /\ StillReady(e) /\ StillMeasured(e)
    BY <2>1 DEF Readiness
  <2>5. FoundOnce(d)
    BY <2>2, <2>4 DEF FoundOnce
  <2>6. StillReady(d)'
    BY <1>3, <2>2, <2>3, <2>4 DEF StillReady, HasData
  <2>7. StillMeasured(d)'
    <3>1. ASSUME d.measured
          PROVE  d.ready # <<>>
      BY <2>2, <2>4, <3>1 DEF StillMeasured
    <3>2. ASSUME d.measured, d.pc # "taken", d.ready[1] \notin d.raced
          PROVE  Measures(d.size, Head(queue[d.ready[1]]))'
      <4>1. Measures(d.size, Head(queue[d.ready[1]]))
        BY <2>2, <2>4, <3>2 DEF StillMeasured
      <4>2. d.ready[1] # r /\ d.ready[1] \in Sockets
        BY <2>2, <2>3, <3>1, <3>2
      <4> QED
        BY <1>3, <4>1, <4>2 DEF Measures
    <3> QED
      BY <3>1, <3>2 DEF StillMeasured
  <2> QED
    BY <2>1, <2>5, <2>6, <2>7 DEF ReadyOK, FoundOnce, StillReady, StillMeasured
<1>5. \A i \in DOMAIN b.ready : i # 1 => b.ready[i] \in b.raced \/ HasData(b.ready[i])'
  BY <1>1, <1>2, <1>3, OthersStayReady DEF HasData
<1>6. AtFirst(b) /\ FoundOnce(b) /\ StillMeasured(b) /\ b.pc \in Receiving
  BY <1>2 DEF Positions, Readiness
<1>7. CASE c = After(b)
  <2>1. PICK D : D = {s \in Sockets : HasData(s)'}
    OBVIOUS
  <2>2. \A i \in DOMAIN b.ready : i # 1 => b.ready[i] \in b.raced \/ b.ready[i] \in D
    BY <1>5, <2>1, StateType
  <2>3. /\ FoundOnce(c) /\ ~c.measured
        /\ \A i \in DOMAIN c.ready : c.ready[i] \in c.raced \/ c.ready[i] \in D
    BY <1>6, <1>7, <2>2, AfterKeeps, AfterType
  <2>4. ReadyOK(c)'
    BY <2>1, <2>3 DEF ReadyOK, FoundOnce, StillReady, StillMeasured
  <2> QED
    BY <1>3, <1>4, <2>4 DEF Readiness, ReadyOK
<1>8. CASE c.pc = "taken" /\ c.ready = b.ready /\ c.raced = b.raced /\ c.measured = b.measured
  <2>1. ReadyOK(c)'
    BY <1>5, <1>6, <1>8 DEF ReadyOK, FoundOnce, StillReady, StillMeasured
  <2> QED
    BY <1>3, <1>4, <2>1 DEF Readiness, ReadyOK
<1> QED
  BY <1>2, <1>7, <1>8

LEMMA ReadyByArrive ==
  ASSUME TypeOK, Readiness, NEW m \in net, Arrive(m)
  PROVE  Readiness'
<1>1. /\ m \in Messages /\ queue'[m.to] = Append(queue[m.to], m)
      /\ \A r \in Sockets : r # m.to => queue'[r] = queue[r]
      /\ UNCHANGED <<platform, thread>>
  BY ArriveDoes DEF settings
<1>2. ASSUME NEW r \in Sockets, queue[r] # <<>>
      PROVE  queue'[r] # <<>> /\ Head(queue'[r]) = Head(queue[r])
  <2>1. CASE r # m.to
    BY <1>1, <1>2, <2>1
  <2>2. CASE r = m.to
    <3> DEFINE q == queue[r]
               w == Append(q, m)
    <3>1. q \in Seq(Messages) /\ 1 \in DOMAIN q /\ Head(q) = q[1]
      BY <1>2, QueueType
    <3>2. w \in Seq(Messages) /\ DOMAIN w = DOMAIN q \cup {Len(q) + 1} /\ w[1] = q[1]
      BY <1>1, <3>1, SeqAppended
    <3>3. queue'[r] = w
      BY <1>1, <2>2
    <3> HIDE DEF q, w
    <3>4. w # <<>>
      BY <3>1, <3>2
    <3>5. Head(w) = w[1]
      BY <3>2, <3>4, SeqTaken
    <3> QED
      BY <3>1, <3>2, <3>3, <3>4, <3>5 DEF q
  <2> QED
    BY <2>1, <2>2
<1>3. ASSUME NEW t \in Readers
      PROVE  ReadyOK(thread[t])'
  <2>1. PICK c \in ThreadStates : c = thread[t]
    BY ThreadType
  <2>2. FoundOnce(c) /\ StillReady(c) /\ StillMeasured(c) /\ thread'[t] = c
    BY <1>1, <2>1 DEF Readiness
  <2>3. /\ \A i \in DOMAIN c.ready : c.ready[i] \in Sockets
        /\ c.ready # <<>> => 1 \in DOMAIN c.ready
    <3>1. /\ \A i \in DOMAIN c.ready : c.ready[i] \in Sockets
          /\ Len(c.ready) \in Nat /\ DOMAIN c.ready = 1..Len(c.ready)
          /\ c.ready = <<>> <=> Len(c.ready) = 0
      BY StateType
    <3> QED
      BY <3>1
  <2>4. StillReady(c)'
    BY <1>2, <2>2, <2>3 DEF StillReady, HasData
  <2>5. StillMeasured(c)'
    <3>1. c.measured => c.ready # <<>>
      BY <2>2 DEF StillMeasured
    <3>2. ASSUME c.measured, c.pc # "taken", c.ready[1] \notin c.raced
          PROVE  Measures(c.size, Head(queue[c.ready[1]]))'
      <4>1. Measures(c.size, Head(queue[c.ready[1]]))
        BY <2>2, <3>2 DEF StillMeasured
      <4>2. 1 \in DOMAIN c.ready /\ c.ready[1] \in Sockets
        BY <2>3, <3>1, <3>2
      <4>3. queue[c.ready[1]] # <<>>
        BY <2>2, <3>2, <4>2 DEF StillReady, HasData
      <4> QED
        BY <1>1, <1>2, <4>1, <4>2, <4>3 DEF Measures
    <3> QED
      BY <3>1, <3>2 DEF StillMeasured
  <2> QED
    BY <2>2, <2>4, <2>5 DEF ReadyOK, FoundOnce, StillReady, StillMeasured
<1> QED
  BY <1>3 DEF Readiness, ReadyOK

LEMMA ReadinessStep ==
  ASSUME ListsOnce, TypeOK, Positions, Readiness, Next
  PROVE  Readiness'
<1>1. ASSUME UNCHANGED <<platform, queue, thread>>
      PROVE  Readiness'
  BY <1>1 DEF Readiness, FoundOnce, StillReady, StillMeasured, Measures, HasData
<1>2. ASSUME NEW t \in Readers, NEW c, thread'[t] = c, \A u \in Readers : u # t => thread'[u] = thread[u],
             UNCHANGED <<platform, queue>>, ReadyOK(c)
      PROVE  Readiness'
  <2>1. ReadyOK(c)'
    BY <1>2 DEF ReadyOK, FoundOnce, StillReady, StillMeasured, Measures, HasData
  <2> QED
    BY <1>2, <2>1 DEF Readiness, ReadyOK, FoundOnce, StillReady, StillMeasured, Measures, HasData
<1>3. ASSUME NEW t \in Readers, NEW c, ThreadOK(c), Becomes(t, c), ReadyOK(c)
      PROVE  Readiness'
  BY <1>2, <1>3, BecomesDoes DEF settings
<1>4. \A t \in Readers : ReadyOK(thread[t]) /\ AtFirst(thread[t])
  BY DEF Readiness, ReadyOK, Positions
<1>5. ASSUME NEW t \in Readers, NEW list \in PollLists, NEW ms \in Millis, ReadReadySockets(t, list, ms)
      PROVE  Readiness'
  <2>1. PICK c : ThreadOK(c) /\ Becomes(t, c) /\ c.ready = <<>> /\ ~c.measured
    BY <1>5, ReadReadyDoes
  <2>2. ReadyOK(c)
    BY <2>1 DEF ReadyOK, FoundOnce, StillReady, StillMeasured
  <2> QED
    BY <1>3, <2>1, <2>2
<1>6. ASSUME NEW t \in Readers, BytesReady(t)
      PROVE  Readiness'
  <2>1. PICK c : /\ ThreadOK(c) /\ Becomes(t, c)
                 /\ c.pc = "idle" /\ c.ready = thread[t].ready
                 /\ c.ready # <<>> /\ c.raced = thread[t].raced
                 /\ HasData(c.ready[1]) => Measures(c.size, Head(queue[c.ready[1]]))
    BY <1>6, BytesReadyDoes
  <2>2. thread[t].pc = "idle"
    BY <1>6 DEF BytesReady
  <2>3. FoundOnce(c) /\ StillReady(c)
    BY <1>4, <2>1, <2>2 DEF ReadyOK, FoundOnce, StillReady
  <2>4. 1 \in DOMAIN c.ready
    <3>1. Len(c.ready) \in Nat /\ DOMAIN c.ready = 1..Len(c.ready) /\ (c.ready = <<>> <=> Len(c.ready) = 0)
      BY <2>1, StateType DEF ThreadOK
    <3> QED
      BY <2>1, <3>1
  <2>5. ReadyOK(c)
    BY <2>1, <2>3, <2>4 DEF ReadyOK, StillReady, StillMeasured
  <2> QED
    BY <1>3, <2>1, <2>5
<1>7. ASSUME NEW t \in Readers, NEW n \in Sizes \cup {thread[t].size}, NEW pc \in Receiving,
             ReceiveReady(t, n, pc)
      PROVE  Readiness'
  <2>1. PICK c : /\ ThreadOK(c) /\ Becomes(t, c) /\ c.pc = pc /\ c.ready = thread[t].ready
                 /\ c.ready # <<>> /\ c.raced = thread[t].raced /\ thread[t].pc = "idle"
                 /\ c.measured => thread[t].measured /\ c.size = thread[t].size
    BY <1>7, ReceiveReadyDoes
  <2>2. ReadyOK(c)
    BY <1>4, <2>1 DEF ReadyOK, FoundOnce, StillReady, StillMeasured, Receiving
  <2> QED
    BY <1>3, <2>1, <2>2
<1>8. ASSUME NEW t \in Readers, NEW r \in Direct, NEW n \in Sizes, NEW pc \in Receiving,
             Receive(t, r, n, pc)
      PROVE  Readiness'
  <2>1. PICK c : ThreadOK(c) /\ Becomes(t, c) /\ ~c.measured /\ c.ready = <<>>
    BY <1>8, ReceiveDoes
  <2>2. ReadyOK(c)
    BY <2>1 DEF ReadyOK, FoundOnce, StillReady, StillMeasured
  <2> QED
    BY <1>3, <2>1, <2>2
<1>9. ASSUME NEW t \in Readers, PollReturns(t)
      PROVE  Readiness'
  <2>1. PICK c : /\ ThreadOK(c) /\ Becomes(t, c) /\ ~c.measured
                 /\ \A i \in DOMAIN c.ready : HasData(c.ready[i])
                 /\ \A i, j \in DOMAIN c.ready : c.ready[i] = c.ready[j] =>
                      i = j \/ \E x, y \in DOMAIN thread[t].polled :
                                 x # y /\ thread[t].polled[x] = thread[t].polled[y]
    BY <1>9, PollReturnsDoes
  <2>2. \A x, y \in DOMAIN thread[t].polled : thread[t].polled[x] = thread[t].polled[y] => x = y
    <3>1. thread[t].polled \in PollLists \cup {<<>>}
      BY ThreadType, StateType
    <3> QED
      BY <3>1 DEF ListsOnce
  <2>3. ReadyOK(c)
    BY <2>1, <2>2 DEF ReadyOK, FoundOnce, StillReady, StillMeasured
  <2> QED
    BY <1>3, <2>1, <2>3
<1>10. ASSUME NEW t \in Readers, PollTimesOut(t) \/ PollThrows(t)
       PROVE  Readiness'
  BY <1>3, <1>10, PollTimesOutDoes, IdleType, IdleReady
<1>11. ASSUME NEW t \in Readers, thread[t].pc \in Receiving \cup {"taken"},
              \A i \in DOMAIN thread[t].ready :
                i # 1 => thread[t].ready[i] \in thread[t].raced \/ HasData(thread[t].ready[i])
       PROVE  ReadyOK(After(thread[t]))
  <2>1. PICK c \in ThreadStates, D \in SUBSET Sockets : c = thread[t] /\ D = {s \in Sockets : HasData(s)}
    BY ThreadType
  <2>2. AtFirst(c) /\ FoundOnce(c)
    BY <1>4, <2>1 DEF ReadyOK
  <2>3. \A i \in DOMAIN c.ready : i # 1 => c.ready[i] \in c.raced \/ c.ready[i] \in D
    BY <1>11, <2>1, StateType
  <2>4. /\ FoundOnce(After(c)) /\ ~After(c).measured
        /\ \A i \in DOMAIN After(c).ready :
             After(c).ready[i] \in After(c).raced \/ After(c).ready[i] \in D
    BY <1>11, <2>1, <2>2, <2>3, AfterKeeps, AfterType
  <2> QED
    BY <2>1, <2>4 DEF ReadyOK, StillReady, StillMeasured
<1>12. ASSUME NEW t \in Readers, ReceiveTimesOut(t) \/ ReceiveThrows(t)
       PROVE  Readiness'
  <2>1. Becomes(t, After(thread[t])) /\ thread[t].pc \in Receiving
    BY <1>12, ReceiveTimesOutDoes
  <2>2. ReadyOK(After(thread[t]))
    BY <1>11, <2>1, OthersStayReady
  <2>3. ThreadOK(After(thread[t]))
    BY ThreadType, AfterType
  <2> QED
    BY <1>3, <2>1, <2>2, <2>3
<1>13. ASSUME NEW t \in Readers, ReceiveReturns(t)
       PROVE  Readiness'
  <2>1. PICK c : c = After(thread[t]) /\ ThreadOK(c) /\ Take(t, c) /\ UNCHANGED platform
    BY <1>13, ReceiveReturnsDoes DEF settings
  <2>2. thread[t].on \in Sockets /\ thread[t].pc \in Receiving
    BY <1>13, ReceiveReturnsDoes
  <2> QED
    BY <2>1, <2>2, ReadyByTake
<1>14. ASSUME NEW t \in Readers, ReceiveFromTakes(t)
       PROVE  Readiness'
  <2>1. PICK c : /\ ThreadOK(c) /\ Take(t, c) /\ c.pc = "taken" /\ c.ready = thread[t].ready
                 /\ c.raced = thread[t].raced /\ c.measured = thread[t].measured
                 /\ UNCHANGED platform
    BY <1>14, ReceiveFromTakesDoes DEF settings
  <2>2. thread[t].on \in Sockets /\ thread[t].pc \in Receiving
    BY <1>14, ReceiveFromTakesDoes
  <2> QED
    BY <2>1, <2>2, ReadyByTake
<1>15. ASSUME NEW t \in Readers, ReceiveFromReturns(t) \/ ReceiveFromThrows(t)
       PROVE  Readiness'
  <2>1. /\ thread[t].pc = "taken" /\ thread'[t] = After(thread[t]) /\ UNCHANGED <<platform, queue>>
        /\ \A u \in Readers : u # t => thread'[u] = thread[u]
    BY <1>15, ReceivedFromDoes, ThrowsDoes DEF settings
  <2>2. ReadyOK(After(thread[t]))
    BY <1>4, <1>11, <2>1 DEF ReadyOK, StillReady
  <2>3. PICK c : c = After(thread[t])
    OBVIOUS
  <2> QED
    BY <1>2, <2>1, <2>2, <2>3
<1>16. ASSUME NEW m \in net, Arrive(m)
       PROVE  Readiness'
  BY <1>16, ReadyByArrive
<1> QED
  BY <1>1, <1>5, <1>6, <1>7, <1>8, <1>9, <1>10, <1>12, <1>13, <1>14, <1>15, <1>16
  DEF Next, Step, ReceiveTimeout, SocketOption, SocketIntOption, SendNothing, SendThrows,
      Send, Called, settings

-----------------------------------------------------------------------------
(* The invariant holds at first and after every step.                      *)

LEMMA InitEstablishes == Init => DatagramInv /\ Readiness
<1> SUFFICES ASSUME Init
             PROVE  DatagramInv /\ Readiness
  OBVIOUS
<1>1. /\ platform \in Platforms /\ platform \in {"posix", "windows"}
      /\ asked = 0 /\ wait = Forever /\ flag = FALSE /\ option = Zero /\ number = Zero
      /\ sends = [s \in Senders |-> <<>>] /\ net = {}
      /\ queue = [r \in Sockets |-> <<>>] /\ thread = [t \in Readers |-> Idle]
      /\ returned = {} /\ lost = {}
  BY DatagramAssumption DEF Init
<1>2. Zero \in Ints /\ \A i \in 1..IntBytes : Zero[i] = 0
  BY OptionsAssumption DEF Zero, Ints
<1>3. SetTimeout(platform, 0) = Forever
  <2>1. 0 \div PerSecond = 0 /\ 0 \div PerMilli = 0
    BY UnitsArePositive, DivisionIs
  <2>2. SetTimeout("posix", 0) = Forever
    <3>1. microsecondsToTimeval(0) = [tv_sec |-> 0, tv_usec |-> 0]
      <4>1. 0 - PerSecond * 0 = 0
        BY UnitsArePositive
      <4> QED
        BY <2>1, <4>1 DEF microsecondsToTimeval, Quotient, Remainder
    <3>2. 0 \in 0..(PerSecond - 1)
      BY UnitsArePositive
    <3> QED
      BY <3>1, <3>2 DEF SetTimeout, TimevalOption
  <2>3. SetTimeout("windows", 0) = Forever
    <3>1. microsecondsToDWord(0) = 0
      <4>1. 0 \in 0..(UIntSize - 1) /\ ~(0 < 0)
        BY UnitsArePositive
      <4>2. 0 % UIntSize = 0
        BY <4>1, UnitsArePositive, FitsUnchanged
      <4> QED
        BY <2>1, <4>2 DEF microsecondsToDWord, ToDWord, Quotient
    <3> QED
      BY <3>1 DEF SetTimeout, DWordOption
  <2> QED
    BY <1>1, <2>2, <2>3
<1>4. \A s \in Senders : sends[s] = <<>> /\ sends[s] \in Seq(Calls) /\ Len(sends[s]) <= MaxSends
  <2>1. <<>> \in Seq(Calls) /\ Len(<<>>) = 0 /\ MaxSends \in Nat
    BY EmptySeq, DatagramAssumption
  <2> QED
    BY <1>1, <2>1
<1>5. \A r \in Sockets : queue[r] = <<>> /\ queue[r] \in Seq(Messages) /\ DOMAIN queue[r] = {}
  <2>1. <<>> \in Seq(Messages) /\ DOMAIN <<>> = {}
    BY EmptySeq
  <2> QED
    BY <1>1, <2>1
<1>6. \A t \in Readers : thread[t] = Idle
  BY <1>1
<1>7. TypeOK
  <2>1. sends \in [Senders -> Seq(Calls)] /\ queue \in [Sockets -> Seq(Messages)]
    BY <1>1, <1>4, <1>5
  <2>2. thread \in [Readers -> ThreadStates]
    BY <1>1, IdleType DEF ThreadOK
  <2> QED
    BY <1>1, <1>2, <1>4, <1>6, <2>1, <2>2, IdleType DEF TypeOK, ThreadOK
<1>8. SettingsKept
  BY <1>1, <1>2, <1>3 DEF SettingsKept, Forever, Rejected
<1>9. ASSUME NEW m \in Messages
      PROVE  InOnePlace(m) /\ (Sent(m) <=> Somewhere(m))
  <2>1. m.to \in Sockets /\ m.from \in Senders /\ m # NoMessage
    BY MessageType
  <2>2. ~Sent(m)
    <3>1. DOMAIN <<>> = {}
      BY EmptySeq
    <3> QED
      BY <1>4, <2>1, <3>1 DEF Sent
  <2>3. /\ m \notin net /\ m \notin lost /\ (\A i : ~Queued(m, i))
        /\ (\A t : ~Held(m, t)) /\ (\A x : ~Back(m, x))
    BY <1>1, <1>5, <1>6, <2>1, IdleType DEF Queued, Held, Back
  <2>4. ~Somewhere(m)
    BY <2>3 DEF Somewhere
  <2>5. InOnePlace(m)
    BY <2>3 DEF InOnePlace
  <2> QED
    BY <2>2, <2>4, <2>5
<1>10. Positions
  BY <1>6, IdleType DEF Positions, AtFirst, Receiving
<1>11. Delivered
  BY <1>5 DEF Delivered
<1>12. Readiness
  BY <1>6, IdleReady DEF Readiness, ReadyOK
<1> QED
  BY <1>1, <1>7, <1>8, <1>9, <1>10, <1>11, <1>12
  DEF DatagramInv, Placed, LostUnnamed

LEMMA StepKeeps ==
  ASSUME DatagramInv, Next
  PROVE  DatagramInv'
<1>1. /\ TypeOK /\ SettingsKept /\ Positions
      /\ Delivered /\ Placed /\ LostUnnamed
  BY DEF DatagramInv
<1>2. Positions'
  BY <1>1, PositionsStep
<1>3. ASSUME UNCHANGED settings
      PROVE  SettingsKept'
  BY <1>1, <1>3 DEF SettingsKept, settings
<1>4. (UNCHANGED lost => LostUnnamed') /\ (UNCHANGED queue => Delivered')
  BY <1>1 DEF LostUnnamed, Delivered
<1>5. CASE SetsUp
  <2>1. TypeOK' /\ SettingsKept' /\ UNCHANGED <<platform, sends, net, queue, thread, returned, lost>>
    BY <1>1, <1>5, SetsUpDoes
  <2>2. Placed'
    BY <1>1, <2>1, SameSent, SamePlaces
  <2> QED
    BY <1>2, <1>4, <2>1, <2>2 DEF DatagramInv
<1>6. CASE Moves
  <2>1. /\ TypeOK' /\ UNCHANGED <<settings, sends, net, queue, returned, lost>>
        /\ \A u \in Readers : thread'[u].hand = thread[u].hand
    BY <1>1, <1>6, MovesDoes
  <2>2. Placed'
    BY <1>1, <2>1, SameSent, SamePlaces
  <2> QED
    BY <1>2, <1>3, <1>4, <2>1, <2>2 DEF DatagramInv
<1>7. ASSUME NEW s \in Senders, NEW len \in Lens, SendNothing(s, len) \/ SendThrows(s, len)
      PROVE  DatagramInv'
  <2>1. /\ TypeOK' /\ UNCHANGED <<settings, net, queue, thread, returned, lost>>
        /\ \A m \in Messages : Sent(m)' <=> Sent(m)
    BY <1>1, <1>7, NothingSentDoes
  <2>2. Placed'
    BY <1>1, <2>1, SamePlaces
  <2> QED
    BY <1>2, <1>3, <1>4, <2>1, <2>2 DEF DatagramInv
<1>8. ASSUME NEW s \in Senders, NEW r \in Sockets, NEW len \in Lens, Send(s, r, len)
      PROVE  DatagramInv'
  <2>1. TypeOK' /\ UNCHANGED <<settings, queue, thread, returned, lost>>
    BY <1>1, <1>8, SendDoes
  <2>2. Placed'
    BY <1>1, <1>8, PlacedBySend
  <2> QED
    BY <1>2, <1>3, <1>4, <2>1, <2>2 DEF DatagramInv
<1>9. ASSUME NEW m \in net, Arrive(m)
      PROVE  DatagramInv'
  <2>1. TypeOK' /\ UNCHANGED <<settings, sends, thread, returned, lost>>
    BY <1>1, <1>9, ArriveDoes
  <2>2. Placed' /\ Delivered'
    BY <1>1, <1>9, PlacedByArrive
  <2> QED
    BY <1>2, <1>3, <1>4, <2>1, <2>2 DEF DatagramInv
<1>10. ASSUME NEW t \in Readers, ReceiveReturns(t)
       PROVE  DatagramInv'
  <2>1. TypeOK' /\ UNCHANGED <<settings, sends, net, lost>>
    BY <1>1, <1>10, ReceiveReturnsDoes
  <2>2. Placed' /\ Delivered'
    BY <1>1, <1>10, PlacedByReceiveReturns
  <2> QED
    BY <1>2, <1>3, <1>4, <2>1, <2>2 DEF DatagramInv
<1>11. ASSUME NEW t \in Readers, ReceiveFromTakes(t)
       PROVE  DatagramInv'
  <2>1. TypeOK' /\ UNCHANGED <<settings, sends, net, returned, lost>>
    BY <1>1, <1>11, ReceiveFromTakesDoes
  <2>2. Placed' /\ Delivered'
    BY <1>1, <1>11, PlacedByReceiveFromTakes
  <2> QED
    BY <1>2, <1>3, <1>4, <2>1, <2>2 DEF DatagramInv
<1>12. ASSUME NEW t \in Readers, ReceiveFromReturns(t)
       PROVE  DatagramInv'
  <2>1. /\ TypeOK' /\ UNCHANGED <<settings, sends, net, queue, lost>>
        /\ thread[t].hand \in Messages /\ thread'[t] = After(thread[t])
        /\ \A u \in Readers : u # t => thread'[u] = thread[u]
    BY <1>1, <1>12, ReceivedFromDoes
  <2>2. PICK h \in Messages, x \in Returns :
          h = thread[t].hand /\ x.message = h /\ returned' = returned \cup {x}
    BY <1>1, <1>12, ReceivedFromDoes
  <2>4. thread'[t].hand = NoMessage
    BY <1>1, <2>1, ThreadType, AfterType
  <2>5. Placed'
    BY <1>1, <2>1, <2>2, <2>4, PlacedByHandOver
  <2> QED
    BY <1>2, <1>3, <1>4, <2>1, <2>5 DEF DatagramInv
<1>13. ASSUME NEW t \in Readers, ReceiveFromThrows(t)
       PROVE  DatagramInv'
  <2>1. /\ TypeOK' /\ UNCHANGED <<settings, sends, net, queue, returned>>
        /\ thread'[t] = After(thread[t]) /\ \A u \in Readers : u # t => thread'[u] = thread[u]
    BY <1>1, <1>13, ThrowsDoes
  <2>2. PICK h \in Messages :
          h = thread[t].hand /\ h.from \in Unnamed /\ lost' = lost \cup {h}
    BY <1>1, <1>13, ThrowsDoes
  <2>3. LostUnnamed'
    BY <1>1, <2>2 DEF LostUnnamed
  <2>4. thread'[t].hand = NoMessage
    BY <1>1, <2>1, ThreadType, AfterType
  <2>5. Placed'
    BY <1>1, <2>1, <2>2, <2>4, PlacedByHandOver
  <2> QED
    BY <1>2, <1>3, <1>4, <2>1, <2>3, <2>5 DEF DatagramInv
<1> QED
  BY <1>5, <1>6, <1>7, <1>8, <1>9, <1>10, <1>11, <1>12, <1>13 DEF Next, Step, SetsUp, Moves

LEMMA StutterKeeps ==
  ASSUME UNCHANGED vars
  PROVE  (DatagramInv => DatagramInv') /\ (Readiness => Readiness')
<1>1. UNCHANGED <<settings, platform, asked, wait, flag, option, number,
                  sends, net, queue, thread, returned, lost>>
  BY DEF vars, settings
<1>2. DatagramInv => Placed'
  BY <1>1, SameSent, SamePlaces DEF DatagramInv
<1>3. DatagramInv => (TypeOK /\ SettingsKept /\ Positions /\ Delivered /\ LostUnnamed)'
  BY <1>1 DEF DatagramInv, TypeOK, SettingsKept, Positions, Delivered, LostUnnamed
<1>4. Readiness => Readiness'
  BY <1>1 DEF Readiness, FoundOnce, StillReady, StillMeasured, Measures, HasData
<1> QED
  BY <1>2, <1>3, <1>4 DEF DatagramInv

-----------------------------------------------------------------------------
(* The theorems.                                                           *)

(* The inductive invariant of socket::send, receive, readReadySockets,     *)
(* bytesReady and receiveTimeout.                                          *)
THEOREM DatagramInvariant == Spec => []DatagramInv
<1>1. Init => DatagramInv
  BY InitEstablishes
<1>2. DatagramInv /\ [Next]_vars => DatagramInv'
  BY StepKeeps, StutterKeeps
<1> QED
  BY <1>1, <1>2, PTL DEF Spec

(* Every variable of the model keeps its type: the sizes that receive      *)
(* returns never exceed the longest message, the time-out in the kernel is *)
(* never one that it rejects, and a thread has a message in its hands just *)
(* between recvfrom and the address that receive(address&) makes of it.    *)
THEOREM DatagramTypes == Spec => []TypeOK
<1>1. DatagramInv => TypeOK
  BY DEF DatagramInv
<1> QED
  BY <1>1, DatagramInvariant, PTL

LEMMA PlacesAreOne ==
  ASSUME NEW m \in Messages, InOnePlace(m)
  PROVE  IF Somewhere(m) THEN \E p \in Places(m) : Places(m) = {p} ELSE Places(m) = {}
<1> DEFINE N == {<<"net", x>> : x \in net \cap {m}}
           L == {<<"lost", x>> : x \in lost \cap {m}}
           Q == {<<"queue", i>> : i \in {j \in DOMAIN queue[m.to] : queue[m.to][j] = m}}
           H == {<<"hand", t>> : t \in {u \in Readers : thread[u].hand = m}}
           R == {<<"returned", x>> : x \in {y \in returned : y.message = m}}
<1>1. Places(m) = N \cup L \cup Q \cup H \cup R
  BY DEF Places
<1>2. /\ N = IF m \in net THEN {<<"net", m>>} ELSE {}
      /\ L = IF m \in lost THEN {<<"lost", m>>} ELSE {}
  OBVIOUS
<1>3. /\ \A p : p \in Q <=> \E i : Queued(m, i) /\ p = <<"queue", i>>
      /\ \A p : p \in H <=> \E t : Held(m, t) /\ p = <<"hand", t>>
      /\ \A p : p \in R <=> \E x : Back(m, x) /\ p = <<"returned", x>>
  BY DEF Queued, Held, Back
<1> HIDE DEF N, L, Q, H, R
<1>4. CASE m \in net
  <2>1. m \notin lost /\ (\A i : ~Queued(m, i)) /\ (\A t : ~Held(m, t)) /\ \A x : ~Back(m, x)
    BY <1>4 DEF InOnePlace
  <2>2. Places(m) = {<<"net", m>>}
    BY <1>1, <1>2, <1>3, <1>4, <2>1
  <2> QED
    BY <1>4, <2>2 DEF Somewhere
<1>5. CASE m \in lost
  <2>1. m \notin net /\ (\A i : ~Queued(m, i)) /\ (\A t : ~Held(m, t)) /\ \A x : ~Back(m, x)
    BY <1>5 DEF InOnePlace
  <2>2. Places(m) = {<<"lost", m>>}
    BY <1>1, <1>2, <1>3, <1>5, <2>1
  <2> QED
    BY <1>5, <2>2 DEF Somewhere
<1>6. ASSUME NEW i, Queued(m, i)
      PROVE  Places(m) = {<<"queue", i>>}
  <2>1. /\ m \notin net /\ m \notin lost /\ (\A j : Queued(m, j) => j = i)
        /\ (\A t : ~Held(m, t)) /\ \A x : ~Back(m, x)
    BY <1>6 DEF InOnePlace
  <2> QED
    BY <1>1, <1>2, <1>3, <1>6, <2>1
<1>7. ASSUME NEW t, Held(m, t)
      PROVE  Places(m) = {<<"hand", t>>}
  <2>1. /\ m \notin net /\ m \notin lost /\ (\A i : ~Queued(m, i))
        /\ (\A u : Held(m, u) => u = t) /\ \A x : ~Back(m, x)
    BY <1>7 DEF InOnePlace
  <2> QED
    BY <1>1, <1>2, <1>3, <1>7, <2>1
<1>8. ASSUME NEW x, Back(m, x)
      PROVE  Places(m) = {<<"returned", x>>}
  <2>1. /\ m \notin net /\ m \notin lost /\ (\A i : ~Queued(m, i))
        /\ (\A t : ~Held(m, t)) /\ \A y : Back(m, y) => y = x
    BY <1>8 DEF InOnePlace
  <2> QED
    BY <1>1, <1>2, <1>3, <1>8, <2>1
<1>9. CASE ~Somewhere(m)
  BY <1>1, <1>2, <1>3, <1>9 DEF Somewhere
<1> QED
  BY <1>4, <1>5, <1>6, <1>7, <1>8, <1>9 DEF Somewhere

(* socket::send sends one message when it returns with data sent and none  *)
(* when it throws or has no data; a message is then under way, at a socket, *)
(* in the hands of one thread, returned once, or thrown away, and thrown   *)
(* away only by receive(address&) when its sender has no address.          *)
THEOREM ReceivedOnceAtMost == Spec => []SentOnceReceivedOnce
<1>1. DatagramInv => SentOnceReceivedOnce
  <2>1. ASSUME DatagramInv, NEW m \in Messages
        PROVE  IF Sent(m) THEN \E p \in Places(m) : Places(m) = {p} ELSE Places(m) = {}
    <3>1. InOnePlace(m) /\ (Sent(m) <=> Somewhere(m))
      BY <2>1 DEF DatagramInv, Placed
    <3> QED
      BY <3>1, PlacesAreOne
  <2> QED
    BY <2>1 DEF DatagramInv, LostUnnamed, SentOnceReceivedOnce
<1> QED
  BY <1>1, DatagramInvariant, PTL

(* receiveTimeout() after receiveTimeout(us): what it returns, and when a  *)
(* receive waits for ever, in the POSIX build for every us, in the Windows *)
(* build for those that fit a DWORD.                                       *)
THEOREM TimeoutIsRead == Spec => []TimeoutReadsBack
<1>1. DatagramInv => TimeoutReadsBack
  <2> SUFFICES ASSUME DatagramInv
               PROVE  TimeoutReadsBack
    OBVIOUS
  <2>1. wait = SetTimeout(platform, asked) /\ wait # Rejected /\ asked \in Int
    BY PlatformIs DEF DatagramInv, SettingsKept
  <2>2. ASSUME platform = "posix"
        PROVE  /\ asked >= 0 => GetTimeout("posix", wait) \in asked..(asked + Tick - 1)
               /\ wait = Forever <=> asked = 0
               /\ asked < 0 => wait = 0
    BY <2>1, <2>2, PosixTimeout
  <2>3. ASSUME platform = "windows", asked \in 0..(UIntSize - 1)
        PROVE  /\ GetTimeout("windows", wait) = asked - (asked % PerMilli)
               /\ wait = Forever <=> asked < PerMilli
    BY <2>1, <2>3, WindowsTimeout
  <2> QED
    BY <2>2, <2>3 DEF TimeoutReadsBack
<1> QED
  BY <1>1, DatagramInvariant, PTL

(* The getters of socketOption return what their setters set, if the       *)
(* length that they pass, which is not initialized, happens to be that of  *)
(* a bool, or to cover an int.  (Longer than a bool, the kernel writes     *)
(* over what is behind it, and nothing is claimed.)                        *)
THEOREM OptionIsRead == Spec => []OptionReadsBack
<1>1. DatagramInv => OptionReadsBack
  <2> SUFFICES ASSUME DatagramInv, NEW garbage \in Ints, NEW len \in Lengths
               PROVE  /\ len = 1 => GetBool(option, garbage, len) = {flag}
                      /\ len >= IntBytes => GetInt(number, garbage, len) = number
    BY DEF OptionReadsBack
  <2>1. /\ number \in Ints /\ flag \in BOOLEAN
        /\ \A i \in 1..IntBytes : option[i] = IF i = 1 /\ flag THEN 1 ELSE 0
    BY DEF DatagramInv, TypeOK, SettingsKept
  <2>2. len \in Int /\ 1 \in 1..IntBytes /\ IntBytes \in Nat
    BY UnitsArePositive, OptionsAssumption
  <2>3. ASSUME len = 1
        PROVE  GetBool(option, garbage, len) = {flag}
    <3>1. CopyOption(option, [i \in {1} |-> garbage[i]], len)[1] = option[1]
      BY <2>3 DEF CopyOption
    <3>2. GetBool(option, garbage, len) = {option[1] # 0}
      BY <2>3, <3>1 DEF GetBool
    <3>3. (option[1] # 0) = flag
      BY <2>1, <2>2
    <3> QED
      BY <3>2, <3>3
  <2>4. ASSUME len >= IntBytes
        PROVE  GetInt(number, garbage, len) = number
    <3>1. ~(len < 0) /\ \A i \in 1..IntBytes : i <= len
      BY <2>2, <2>4
    <3>2. DOMAIN garbage = 1..IntBytes /\ number = [i \in 1..IntBytes |-> number[i]]
      BY <2>1 DEF Ints
    <3>3. CopyOption(number, garbage, len) = number
      BY <3>1, <3>2 DEF CopyOption
    <3> QED
      BY <3>1, <3>3 DEF GetInt
  <2> QED
    BY <2>3, <2>4
<1> QED
  BY <1>1, DatagramInvariant, PTL

(* A receive after readReadySockets finds a message, no longer than        *)
(* bytesReady said (and, but on Windows, of just that size), unless        *)
(* another thread received from that socket in between; if no list given   *)
(* to readReadySockets names a socket twice.                               *)
THEOREM ReadyIsKept ==
  ASSUME ListsOnce
  PROVE  Spec => []ReadyUnlessRaced
<1>1. Init => DatagramInv /\ Readiness
  BY InitEstablishes
<1>2. DatagramInv /\ Readiness /\ [Next]_vars => (DatagramInv /\ Readiness)'
  <2>1. ASSUME DatagramInv, Readiness, Next
        PROVE  (DatagramInv /\ Readiness)'
    BY <2>1, StepKeeps, ReadinessStep DEF DatagramInv
  <2> QED
    BY <2>1, StutterKeeps
<1>3. DatagramInv /\ Readiness => ReadyUnlessRaced
  <2> SUFFICES ASSUME DatagramInv, Readiness, NEW t \in Readers,
                      thread[t].pc \in Receiving, thread[t].told,
                      thread[t].on \notin thread[t].raced
               PROVE  /\ HasData(thread[t].on)
                      /\ thread[t].measured => Measures(thread[t].size, Head(queue[thread[t].on]))
    BY DEF ReadyUnlessRaced, Measures
  <2>1. PICK c \in ThreadStates : c = thread[t]
    BY ThreadType DEF DatagramInv
  <2>2. c.ready # <<>> /\ c.on = c.ready[1] /\ StillReady(c) /\ StillMeasured(c) /\ c.pc # "taken"
    BY <2>1 DEF DatagramInv, Positions, AtFirst, Readiness, Receiving
  <2>3. 1 \in DOMAIN c.ready
    <3>1. Len(c.ready) \in Nat /\ DOMAIN c.ready = 1..Len(c.ready) /\ (c.ready = <<>> <=> Len(c.ready) = 0)
      BY StateType
    <3> QED
      BY <2>2, <3>1
  <2> QED
    BY <2>1, <2>2, <2>3 DEF StillReady, StillMeasured
<1> QED
  BY <1>1, <1>2, <1>3, PTL DEF Spec

=============================================================================
