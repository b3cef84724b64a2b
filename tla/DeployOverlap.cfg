SPECIFICATION FairSpec
CONSTANTS
  Services = {"a"}
  Autoscaled = {}
  Deployments = {a1, a2}
  SvcOf <- MCSvcOf
  Permits = 8
  Overlap = TRUE
  Exits = FALSE
  MaxCrashes = 1
  NoDep = NoDep
  a1 = a1
  a2 = a2
  b1 = b1
INVARIANTS
  PromotedIsUsable
PROPERTIES
  RowSettles
CHECK_DEADLOCK FALSE
