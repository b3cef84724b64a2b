SPECIFICATION ProjectsSpec
CONSTANTS
  People = {p, q}
  Handlers = {h, i}
INVARIANT NeverLockedOut
CHECK_DEADLOCK FALSE
