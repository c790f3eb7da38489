CONSTANTS
  Policies <- MCPolicies
  Horizon = 475850
  MaxLag = 30
  PlainBytes = {2, 100000, 370000, 393216}
  MarkupBytes = {0, 1, 1000, 65536, 65537, 90000}
  Separators = {0, 1, 65536}
  SpaceBytes = {0, 20000, 200000}
  OtherBytes = {200, 30000}
  ServiceCounts = {1, 64, 65, 256, 257}
  IdLengths = {1, 64, 65}
  NameLengths = {1, 20, 89, 90, 100, 101}
  ServiceCapabilities = {0, 64, 65}
  VersionLengths = {4, 5, 64, 65, 128, 129}
  HostnameLengths = {0, 1, 253, 254}
  CapabilityCounts = {0, 64, 65}
  NodeNameLengths = {0, 1, 20, 21, 80, 81, 100, 101}
  WideBytes = {1, 4}
  Shapes <- MCShapes
  Sizes <- MCSizes
  PolicyCounts = {1, 1366, 1485, 1648, 1649, 4096, 4097}
  Bindings <- MCBindings
  TrafficAmounts = {1, 2}
  AddressCounts = {0, 3, 16384}
  ItemCounts = {0, 1, 3, 64, 65, 128, 256, 500, 4096, 20000}
  ItemBytes = {0, 27, 64, 208, 209, 512, 4624, 200000, 262144, 524288, 524289}
  Count = 3
  MaxBuilds = 3
  BytesOf <- MCBytesOf
  SizeOf <- MCSizeOf
  Edits = {1, 2}
  MaxTries = 3
SPECIFICATION ContractsSpec
INVARIANTS PeriodsTile CenterAgrees AgentAccepts OnlyEscapesStop
INVARIANTS CataloguedServicesRender RegisteredNodeServes InstalledPluginRuns
INVARIANTS SortedPoliciesApply ToolAgreesWithHost AcceptedIsOneBuild
INVARIANTS NoLostUpdate
CHECK_DEADLOCK FALSE
