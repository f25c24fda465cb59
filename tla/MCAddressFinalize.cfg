CONSTANTS
  Objs = {a1, a2}
  Ptrs = {q1, q2}
  Null = Null
  Domains = {"IPv4", "unix"}
  a1 = a1
  a2 = a2
  q1 = q1
  q2 = q2
SPECIFICATION Spec
SYMMETRY Symmetry
INVARIANT
  FinalizedWhenUnused
