SPECIFICATION Spec
CONSTANTS
  polite = polite
  greedy = greedy
  idle = idle
  hasty = hasty
  Clients = {polite, greedy, idle}
  Patient = {polite}
  Reading = {polite}
  ToSend <- ShortStreams
  NoClient = NoClient
  MaxFds = 2
  MaxSessions = 3
  BufferSize = 2
  UpRoom = 3
  DownRoom = 1
\* The process ends when it cannot listen, has no threads left or is killed.
CHECK_DEADLOCK FALSE
INVARIANTS
  TypeOK
  EchoUnbroken
PROPERTIES
  EchoComplete
  SessionEnds
  PatientServed
