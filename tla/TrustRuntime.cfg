\* The whole process with two connections for one permit; one client may hang.
SPECIFICATION FairRuntimeSpec
CONSTANTS
  Conns = {c1, c2}
  MaxConnections = 1
  BlockingPool = 2
  FdLimit = 3
  Unresponsive = {c1}
  NumPlugins = 2
INVARIANTS
  StoppingIsLast
PROPERTIES
  NoRequestWithoutPlugins
  SignalEndsProcess
CHECK_DEADLOCK FALSE
