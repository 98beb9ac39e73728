\* The parts beside the request pipeline, one at a time.
SPECIFICATION PartsSpec
CONSTANTS
  DialTimeout = 2
  TunnelIdle = 1
  TunnelForms <- MCTunnelForms
  UpUnits = 1
  DownUnits = 2
  TunnelRoom = 1
  FilterConfigs <- MCFilterConfigs
  FilterRevisions <- MCRevisions
  FilterUpdates = 2
  FilterRequests <- MCRequests
  Unset = unset
  Patterns <- MCPatterns
  Texts <- MCTexts
  AddressBits = 3
  V4Bits = 2
  Names = {n1, n2}
  AddressSets <- MCAddressSets
  Lookups = {r1, r2}
  NameCacheCap = 1
  NameChanges = 3
  NoAddress = noAddress
  HostEnvs <- MCHostEnvs
  HostSettings <- MCHostSettings
  OtherCallers = {"other"}
  Receivers = {"t1", "t2"}
  Containers = {"c1"}
  HostMessages = 2
  UpstreamTexts <- MCUpstreamTexts
  KeyTexts <- MCKeyTexts
  Absent = absent
  n1 = n1
  n2 = n2
  r1 = r1
  r2 = r2
  InfConfigs <- MCInfConfigs
  InfRequests <- MCInfRequests
  InfInstalls = 2
  RawConfigs <- MCRawConfigs
  NoProbe = noProbe
  KeyModels = {"m1", "m2", "gone"}
  EnabledModels = {"m1", "m2"}
  KeyRequests <- MCKeyRequests
  KeyCallers = {"t1", "t2"}
  KeyCrypto = TRUE
  RenameTries = 2
  DiskFails = TRUE
  KeyInits = 2
  KeyCallsMax = 2
  MaskPatternLists <- MCMaskPatternLists
  MaskTexts <- MCMaskTexts
  PhoneLength = 2
  IdLength = 3
  BankLengths = {2, 3}
  NoText = noText
  ServiceTexts <- MCServiceTexts
  ReadChunk = 2
  MaxLine = 4
  SesRequests <- MCSesRequests
  SesHandlers = {16, 18}
  MaxSize = 2
  MaxRequests = 3
  MaxIdleReads = 1
INVARIANTS
  RelayIsFaithful
  PolicyIsRead
  NamesAreTrue
  HostIsArmed
  PromptsAreGuarded
  TextsAreMasked
  KeysAreKept
  SessionKeepsPairs
PROPERTIES
  RelayEndsInTime
CHECK_DEADLOCK FALSE
