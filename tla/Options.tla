------------------------------- MODULE Options -------------------------------
(***************************************************************************)
(* Times and options on their way between the library's types and the      *)
(* system's: sendTimeout and receiveTimeout in both builds, the time-out of *)
(* poll, and the setters and getters of socketOption.                      *)
(*                                                                         *)
(* Integers have the widths of the C types, in a unit that is small enough *)
(* for TLC: PerMilli "microseconds" are a millisecond, PerSecond a second. *)
(***************************************************************************)
EXTENDS Integers

CONSTANTS
  PerMilli,    \* microseconds in a millisecond
  PerSecond,   \* microseconds in a second
  Tick,        \* microseconds between two ticks of the kernel's clock
  UIntSize,    \* the number of values of a DWORD, and of an int
  IntBytes,    \* sizeof(int)
  Byte,        \* the values of a byte of an option
  Lengths      \* what an uninitialized socklen_t may hold

ASSUME OptionsAssumption ==
  /\ {PerMilli, PerSecond, Tick, UIntSize, IntBytes} \subseteq Nat \ {0}
  /\ UIntSize % 2 = 0
  /\ Lengths \subseteq Int
  /\ {0, 1} \subseteq Byte /\ Byte \subseteq Nat

MaxInt == UIntSize \div 2 - 1

(* A value that does not fit loses its upper bits. *)
ToInt(n) == ((n + MaxInt + 1) % UIntSize) - MaxInt - 1
ToDWord(n) == n % UIntSize

(* Division and remainder of C++ round towards zero. *)
Quotient(a, b) == IF a >= 0 THEN a \div b ELSE -((-a) \div b)
Remainder(a, b) == a - b * Quotient(a, b)

-----------------------------------------------------------------------------
(* How long the kernel lets a call wait. *)
Forever == -1
Rejected == -2

microsecondsToTimevalInMillis(us) ==
  [tv_sec |-> Quotient(us, PerSecond), tv_usec |-> Remainder(us, PerSecond) \div PerMilli]

microsecondsToTimeval(us) ==
  [tv_sec |-> Quotient(us, PerSecond), tv_usec |-> Remainder(us, PerSecond)]

timevalToMicroseconds(tv) == tv.tv_usec + tv.tv_sec * PerSecond

microsecondsToDWord(us) == ToDWord(Quotient(us, PerMilli))

dwordToMicroseconds(ms) == ToDWord(ms * PerMilli)

(* SO_RCVTIMEO of Linux: a zero timeval means no time-out, tv_usec has a    *)
(* range, a negative tv_sec does not wait at all, and the rest is rounded  *)
(* up to the clock.                                                        *)
TimevalOption(tv) ==
  IF tv.tv_usec \notin 0..(PerSecond - 1) THEN Rejected
  ELSE IF tv.tv_sec < 0 THEN 0
  ELSE IF tv.tv_sec = 0 /\ tv.tv_usec = 0 THEN Forever
  ELSE ((timevalToMicroseconds(tv) + Tick - 1) \div Tick) * Tick

OptionTimeval(wait) ==
  IF wait = Forever THEN microsecondsToTimeval(0) ELSE microsecondsToTimeval(wait)

(* SO_RCVTIMEO of Windows: milliseconds, 0 means no time-out. *)
DWordOption(ms) == IF ms = 0 THEN Forever ELSE ms * PerMilli

OptionDWord(wait) == IF wait = Forever THEN 0 ELSE wait \div PerMilli

(* receiveTimeout(us) and sendTimeout(us): what the kernel keeps. *)
SetTimeout(platform, us) ==
  IF platform = "posix" THEN TimevalOption(microsecondsToTimeval(us))
                        ELSE DWordOption(microsecondsToDWord(us))

(* receiveTimeout() and sendTimeout(). *)
GetTimeout(platform, wait) ==
  IF platform = "posix" THEN timevalToMicroseconds(OptionTimeval(wait))
                        ELSE dwordToMicroseconds(OptionDWord(wait))

(* poll(&pfd, n, timeout.count()): a negative int waits for ever. *)
PollWait(ms) == IF ToInt(ms) < 0 THEN Forever ELSE ToInt(ms)

-----------------------------------------------------------------------------
(* socketOption.  An int is its bytes, the lowest first.                   *)
Ints == [1..IntBytes -> Byte]

IntOfBoolInPlace(value, garbage) ==
  [i \in 1..IntBytes |-> IF i = 1 THEN (IF value THEN 1 ELSE 0) ELSE garbage[i]]

(* int boolConv = value; garbage is what was in its place before. *)
IntOfBool(value, garbage) ==
  [i \in 1..IntBytes |-> IF i = 1 /\ value THEN 1 ELSE 0]

(* A boolean option of the kernel is set by any int but 0, and read as 1. *)
BoolOption(int) ==
  [i \in 1..IntBytes |-> IF i = 1 /\ \E j \in 1..IntBytes : int[j] # 0 THEN 1 ELSE 0]

(* getsockopt copies the option, or as much as *len has room for. *)
CopyOption(option, buffer, len) ==
  [i \in DOMAIN buffer |-> IF i <= len THEN option[i] ELSE buffer[i]]

(* int socketOption(option): value and len are not initialized; a negative  *)
(* length is an error.                                                     *)
GetInt(option, garbage, len) ==
  IF len < 0 THEN "throws" ELSE CopyOption(option, garbage, len)

(* bool socketOption(option): the values it may return.  value is one byte; *)
(* of a longer len the kernel fills as much as the option has, an int, and *)
(* writes over what is behind value, after which anything may happen.      *)
GetBool(option, garbage, len) ==
  IF len < 0 THEN {}
  ELSE IF len > 1 /\ IntBytes > 1 THEN BOOLEAN
  ELSE {CopyOption(option, [i \in {1} |-> garbage[i]], len)[1] # 0}

=============================================================================
