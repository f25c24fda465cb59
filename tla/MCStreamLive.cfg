CONSTANTS
  Threads <- TwoAndOne
  Readers = {"a"}
  MaxSends = 1
  Lens <- ThreeAndLess
  MaxLen = 3
  Sizes = {1, 2}
  SendRoom = 2
  ReceiveRoom = 2
  TimedOut = {"a"}
  Interrupts = TRUE
SPECIFICATION FairSpec
CHECK_DEADLOCK FALSE
INVARIANTS
  TypeOK
  SentExactly
  EofIsEnd
  ClosingLosesNothing
PROPERTIES
  SendEnds
  SentArrives
