CONSTANTS
  Clients = {c1, c2, c3}
  Readers = {c1, c2, c3}
  MaxSaid <- One
  Room = 2
  Backlog = 1
  c1 = c1
  c2 = c2
  c3 = c3
SPECIFICATION Spec
SYMMETRY Symmetry
INVARIANT
  EchoedToAll
