SPECIFICATION Spec
CONSTANTS
  SockaddrSize = 16
  SdoSize = 32
  NameSizes = {2, 15, 16, 18, 28, 32, 33, 109, 110}
  BoundSize = 18
\* The process ends when the assertion in resize fails.
CHECK_DEADLOCK FALSE
INVARIANT ResizePrecondition
