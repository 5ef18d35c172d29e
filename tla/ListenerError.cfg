SPECIFICATION Spec
CONSTANTS
  Conns = {c1, c2}
  Listeners = {l1, l2}
  NoConn = NoConn
  Fd = {f1, f2, f3}
  NoFd = NoFd

PROPERTY ErrorIsCurrent
