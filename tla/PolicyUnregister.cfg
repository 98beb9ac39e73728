\* The watcher applies an edit while the container is unregistered.
SPECIFICATION Spec
CONSTANTS
  Containers = {c1}
  Paths = {p1}
  Configs = {both, tighter}
  Secured = {both, tighter}
  Filtered = {both, tighter}
  Oversized = {}
  BadNetwork = {}
  BadFilter = {}
  Absent = Absent
  None = None
  MaxMessages = 2
  MaxEdits = 1
  MaxFaults = 0
INVARIANTS
  UnregisterRemovesAll
CHECK_DEADLOCK FALSE
