\* Two connections share one permit; two requests; a target with an inference route and one
\* without, which may stall; one change of configuration or sink.
SPECIFICATION FairSpec
CONSTANTS
  MaxConns = 2
  MaxReqs = 2
  Permits = 1
  Containers = {k1}
  Unresolved = unresolved
  Configs = {lax}
  NoConfig = noConfig
  BinaryConfigs = {lax}
  IpConfigs = {lax}
  Targets = {api, site}
  NoTarget = noTarget
  InferenceTargets = {api}
  Denied <- MCDenied
  StalledTargets = {site}
  MaxUpdates = 1
  lax = lax
  api = api
  site = site
INVARIANTS
  PermitAccounting
  RepliesAreTrue
PROPERTIES
  CurrentPolicy
  ImplementsGateway
  DeadlinesHold
  WaitersServed
CHECK_DEADLOCK FALSE
