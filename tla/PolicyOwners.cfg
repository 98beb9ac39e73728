\* Two containers and two files, shared or not, and three messages: whose policy goes where. Beside
\* it: policies and calls for the hooks, two connections and two containers for the flow table, two
\* events, TLS material with one fault at a time, a ring of two nodes, and command lines.
SPECIFICATION GuardsSpec
CONSTANTS
  Containers = {c1, c2}
  Paths = {p1, p2}
  Configs = {both}
  Secured = {both}
  Filtered = {both}
  Oversized = {}
  BadNetwork = {}
  BadFilter = {}
  Absent = Absent
  None = None
  MaxMessages = 3
  MaxEdits = 1
  MaxFaults = 0
  Symbols = {"/", "*", "a", "b"}
  KernelCases <- MCKernelCases
  KernelTexts <- MCKernelTexts
  PathLen = 8
  WordLen = 2
  MaxRules = 2
  MaxDepth = 2
  NoCase = noCase
  FlowConns <- MCFlowConns
  FlowCgroups = {"g1", "g2"}
  FlowTasks = {"t1", "t2"}
  FlowRoom = 1
  MaxMaps = 2
  MaxFlows = 2
  Rings <- MCRings
  RingRoom = 1
  MaxEvents = 2
  LogWriters = {"w1"}
  Poller = "poller"
  ReleaseBuild = TRUE
  TlsCases <- MCTlsCases
  TlsPeers <- MCTlsPeers
  MaxMoment = 3
  RingNodes = {"A", "B"}
  RingCases <- MCRingCases
  RingData <- MCRingData
  RingIds <- MCRingIds
  ForeignCms <- MCForeignCms
  MaxRingMoment = 2
  MaxMade = 2
  LauLines <- MCLauLines
  LauNumbers <- MCLauNumbers
  LauIps <- MCLauIps
  LauDirs <- MCLauDirs
  LauFiles <- MCLauFiles
  LauConfigs <- MCLauConfigs
  LauDefaults <- MCLauDefaults
  LauTags <- MCLauTags
  U16 = 8
  U32 = 16
  U64 = 32
SYMMETRY Symmetry
INVARIANTS
  OwnPolicyOnly
  TablesAreSound
  KernelKeepsRules
  FlowsFindTheirMakers
  LogIsFaithful
  MaterialIsVetted
  RingIsHonest
  LaunchesAsAsked
CHECK_DEADLOCK FALSE
