SPECIFICATION WorkloadSpec
CONSTANTS
  i1 = i1
  i2 = i2
  l1 = l1
  l2 = l2
  Images = {i1, i2}
  LayersOf <- MCLayering
  Stated <- MCStated
  Tasks = {t1, t2}
  Verify = "size"
  Epochs = {1, 2}
  MaxDeploys = 2
  MaxFaults = 1
  NoArtifact = NoArtifact
  Socket <- MCSocket
  Helper <- MCHelper
  MaxLaunches = 3
  WebHosts = {"a", "ctl"}
  ControlName = "ctl"
  ControlTls = TRUE
  Owner <- MCOwner
  ProxyRequests = {p, q}
  MaxSwaps = 2
  NoRoute = NoRoute
  Operators = {o1, o2}
  NoOperator = NoOperator
  Versions = {1, 2}
  MaxCommands = 3
  Rows = {r1, r2}
  MaxKills = 2
INVARIANTS
  HeldLayersStay
  PromotedIsLaunchable
  WorkloadIsConfined
  NeverLockedOutOfFiles
  NoColdStart502
  StoredStaysUsable
  UpgradeKeepsData
CHECK_DEADLOCK FALSE
