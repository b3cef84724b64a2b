SPECIFICATION Spec
CONSTANTS
  Services = {"a", "b"}
  Autoscaled = {"b"}
  Deployments = {a1, a2, b1}
  SvcOf <- MCSvcOf
  Permits = 8
  Overlap = FALSE
  Exits = TRUE
  MaxCrashes = 1
  NoDep = NoDep
  a1 = a1
  a2 = a2
  b1 = b1
SYMMETRY MCSymmetry
INVARIANTS
  QuiescentIsWired
PROPERTIES
  KeepsHistory
CHECK_DEADLOCK FALSE
