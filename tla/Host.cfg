SPECIFICATION HostSpec
CONSTANTS
  Jobs = {j1, j2}
  Runs = {r1, r2, r3}
  MaxRetries = 1
  Deletes = TRUE
  MaxTime = 1
  MaxCrashes = 1
  NoJob = NoJob
  NoRun = NoRun
  Never = Never
  Consoles = {c}
  Deploys = {d}
  MaxRuns = 1
  MaxSessions = 2
  Unset = Unset
  Settings <- MCSettings
  Conns = {k1, k2}
  Tickets = {t1, t2}
  Services = {x}
  GlobalLimit = 2
  ServiceLimit = 1
  MaxProcs = 2
  NoTicket = NoTicket
  Launches = {l1, l2}
  Others = {q}
  Daemon = Daemon
INVARIANTS
  FireAtMostOnce
  ShellInItsReplica
PROPERTIES
  RunSettlesUnlessDeleted
  StopEnds
  ConsolesEnd
  Implements
CHECK_DEADLOCK FALSE
