SPECIFICATION Spec
CONSTANTS
  MaxConnections = 2
  Length = 2
  Room = 2
  SpanSize = {0, 1, 2}
INVARIANTS
  TypeOK
  CountsExact
  EndIsReal
  ErrorIsReal
PROPERTY EndSeen
