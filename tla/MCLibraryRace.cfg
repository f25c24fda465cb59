CONSTANTS
  Threads = {t1, t2}
  Sockets = {s1}
  Pointees = {p1}
  Clients = {c1}
  Modulus = 8
  MaxLost = 0
  Serial = FALSE
  t1 = t1
  t2 = t2
  s1 = s1
  p1 = p1
  c1 = c1
SPECIFICATION Spec
SYMMETRY Symmetry
INVARIANTS
  RunningWhileUsed
