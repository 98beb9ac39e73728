\* A good file and one whose filter the proxy refuses, registered in turn; nobody edits.
SPECIFICATION Spec
CONSTANTS
  Containers = {c1}
  Paths = {p1, p2}
  Configs = {both, badfilter}
  Secured = {both, badfilter}
  Filtered = {both, badfilter}
  Oversized = {}
  BadNetwork = {}
  BadFilter = {badfilter}
  Absent = Absent
  None = None
  MaxMessages = 3
  MaxEdits = 0
  MaxFaults = 0
INVARIANTS
  RollbackRestores
CHECK_DEADLOCK FALSE
