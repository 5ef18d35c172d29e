SPECIFICATION Spec
CONSTANTS
  polite = polite
  greedy = greedy
  idle = idle
  hasty = hasty
  Clients = {polite, hasty}
  Patient = {polite}
  Reading = {polite, hasty}
  ToSend <- LongStreams
  NoClient = NoClient
  MaxFds = 1
  MaxSessions = 2
  BufferSize = 2
  UpRoom = 3
  DownRoom = 1
\* The process ends when it cannot listen or a signal kills it.
CHECK_DEADLOCK FALSE
INVARIANT WriteErrorsReported
