CONSTANTS
  Objs = {a1, a2, a3}
  Ptrs = {q1, q2, q3}
  Null = Null
  Domains = {"IPv4", "unix"}
  a1 = a1
  a2 = a2
  a3 = a3
  q1 = q1
  q2 = q2
  q3 = q3
CHECK_DEADLOCK FALSE
SPECIFICATION Spec
SYMMETRY Symmetry
INVARIANTS
  TypeOK
  OwnsPointee
  NoLeak
