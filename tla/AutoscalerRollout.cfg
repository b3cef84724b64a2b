SPECIFICATION FairSpec
CONSTANTS
  Services = {"web"}
  Deployments = {"d1", "d2"}
  Ids = {1, 2, 3}
  Resources = {"cpu", "mem"}
  Word <- MCWord
  Alloc <- MCRoomy
  Limits <- MCOneUnit
  Policies <- MCPolicies
  CpuSamples = {20, 90}
  MemSamples = {0}
  MaxCrashes = 0
  NoDep = NoDep
  NoId = NoId
  NoSvc = NoSvc
INVARIANTS
  LedgerExact
PROPERTIES
  RolloutCompletes
  TickKeepsServing
