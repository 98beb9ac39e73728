\* One container and its file: registrations, removal, edits and proxy failures race.
SPECIFICATION FairSpec
CONSTANTS
  Containers = {c1}
  Paths = {p1}
  Configs = {secure, filter, both, badnet, badfilter}
  Secured = {secure, both, badnet, badfilter}
  Filtered = {filter, both, badfilter}
  Oversized = {}
  BadNetwork = {badnet}
  BadFilter = {badfilter}
  Absent = Absent
  None = None
  MaxMessages = 2
  MaxEdits = 1
  MaxFaults = 1
INVARIANTS
  NeverUnprotected
  GoneIsClean
PROPERTIES
  ChangeIsApplied
CHECK_DEADLOCK FALSE
