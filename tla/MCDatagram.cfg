CONSTANTS
  PerMilli = 2
  PerSecond = 6
  Tick = 4
  UIntSize = 16
  IntBytes = 2
  Byte = {0, 1}
  Lengths <- SomeLengths
  Platforms = {"posix", "windows"}
  Senders = {s1, s2}
  Unnamed = {s2}
  Sockets = {r1, r2}
  Readers = {t1, t2}
  PollLists <- SomeLists
  Millis <- SomeMillis
  Micros <- SomeMicros
  Settings <- SomeSettings
  Direct = {r1}
  Sizes = {1}
  MaxSends = 1
  Lens = {0, 2, 3}
  MaxDatagram = 2
  NoAddress = NoAddress
  NoMessage = NoMessage
  NoSocket = NoSocket
  s1 = s1
  s2 = s2
  r1 = r1
  r2 = r2
  t1 = t1
  t2 = t2
SPECIFICATION FairSpec
INVARIANTS
  TypeOK
  
  ReadyUnlessRaced
  TimeoutReadsBack
  OptionReadsBack
PROPERTIES
  PollEnds
  ReceiveEnds
