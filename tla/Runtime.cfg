SPECIFICATION RuntimeSpec
CONSTANTS
  Slots = {s}
  Deps = {d1, d2}
  Calls = {a, b}
  NoPlan = NoPlan
  MaxLaunch = 2
  MaxCrashes = 1
SYMMETRY Symmetric
INVARIANTS
  CleanBoot
PROPERTIES
  StopMeansStopped
CHECK_DEADLOCK FALSE
