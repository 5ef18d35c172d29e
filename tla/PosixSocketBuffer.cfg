SPECIFICATION Spec
CONSTANTS
  Sockets = {s1, s2, s3}
  NoSocket = NoSocket
  Fd = {f1, f2, f3}
  NoFd = NoFd
SYMMETRY Symmetry
INVARIANTS
  TypeOK
  ExclusiveOpen
  ResultTruthful
PROPERTY LostOnlyByListen
