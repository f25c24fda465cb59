CONSTANTS
  Octets = {0, 1, 255}
  WrittenPorts = {0, 80, 443, 65535, 65536, 65616}
  PathSize = 4
SPECIFICATION Spec
INVARIANTS
  TypeOK
  CopiesKeepStruct
  TerminatorInside
  NamesRebuild
  PortAsWritten
  OrderIsTotal
