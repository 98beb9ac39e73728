\* Waiting connections each hold a descriptor: the listener's next try_clone() fails.
SPECIFICATION Spec
CONSTANTS
  Conns = {c1, c2, c3}
  MaxConnections = 1
  BlockingPool = 2
  FdLimit = 3
  Unresponsive = {}
PROPERTIES
  WaitersAreKept
CHECK_DEADLOCK FALSE
