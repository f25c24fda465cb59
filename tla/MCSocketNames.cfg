CONSTANTS
  Objs = {o1, o2}
  Fds = {f1, f2}
  Paths = {p1}
  NoFd = NoFd
  NoPath = NoPath
  StaleUse = FALSE
  OtherProcesses = TRUE
  o1 = o1
  o2 = o2
  f1 = f1
  f2 = f2
  p1 = p1
SPECIFICATION FairSpec
INVARIANTS
  DomainAgrees
  StaleHasUnlinker
PROPERTY
  SocketFilesRemoved
