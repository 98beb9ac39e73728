\* Three connections share one permit; three descriptors can run out; one client may hang,
\* and the blocking pool has a thread more than hung clients.
SPECIFICATION FairSpec
CONSTANTS
  Conns = {c1, c2, c3}
  MaxConnections = 1
  BlockingPool = 2
  FdLimit = 3
  Unresponsive = {c1}
INVARIANTS
  PermitAccounting
  WorkIsAdmitted
PROPERTIES
  DrainIsMonotone
  ImplementsService
  ListenerStops
  ConnectionsDrain
CHECK_DEADLOCK FALSE
