CONSTANTS
  Objs = {o1, o2, o3}
  Fds = {f1, f2}
  Paths = {}
  NoFd = NoFd
  NoPath = NoPath
  StaleUse = TRUE
  OtherProcesses = FALSE
  o1 = o1
  o2 = o2
  o3 = o3
  f1 = f1
  f2 = f2
SPECIFICATION Spec
SYMMETRY Symmetry
INVARIANTS
  TypeOK
  NoLeak
  SoleOwner
PROPERTY
  ImplementsOwnership
