SPECIFICATION SpecDropped
CONSTANTS
  Services = {"fn"}
  Deployments = {"d1", "d2"}
  Ids = {1, 2, 3}
  Resources = {"cpu", "mem"}
  Word <- MCWord
  Alloc <- MCRoomy
  Limits <- MCOneUnit
  Policies <- MCIdle
  CpuSamples = {20, 90}
  MemSamples = {0}
  MaxCrashes = 1
  NoDep = NoDep
  NoId = NoId
  NoSvc = NoSvc
INVARIANTS
  ReplicaConsistent
