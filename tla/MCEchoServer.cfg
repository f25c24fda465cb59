CONSTANTS
  Clients = {c1, c2, c3}
  Readers = {c1, c2, c3}
  MaxSaid <- TwoOne
  Room = 1
  Backlog = 1
  c1 = c1
  c2 = c2
  c3 = c3
SPECIFICATION FairSpec
INVARIANTS
  TypeOK
  MissedBehindReset
  EchoInOrder
  ListedOnce
PROPERTY
  EveryoneServed
