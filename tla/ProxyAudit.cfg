\* One connection, one request and one permit are enough to send a request that is not audited.
SPECIFICATION Spec
CONSTANTS
  MaxConns = 1
  MaxReqs = 1
  Permits = 1
  Containers = {k1}
  Unresolved = unresolved
  Configs = {lax}
  NoConfig = noConfig
  BinaryConfigs = {lax}
  IpConfigs = {lax}
  Targets = {api, site}
  NoTarget = noTarget
  InferenceTargets = {api}
  Denied <- MCDenied
  StalledTargets = {site}
  MaxUpdates = 1
  lax = lax
  api = api
  site = site
INVARIANT
  TrafficIsAudited
CHECK_DEADLOCK FALSE
