CONSTANTS
  Threads = {t1, t2}
  Sockets = {s1, s2}
  Pointees = {p1, p2}
  Clients = {c1}
  Modulus = 8
  MaxLost = 2
  Serial = TRUE
  t1 = t1
  t2 = t2
  s1 = s1
  s2 = s2
  p1 = p1
  p2 = p2
  c1 = c1
SPECIFICATION Spec
SYMMETRY Symmetry
INVARIANTS
  TypeOK
  RunningWhileUsed
  CountExact
  NeverTerminates
