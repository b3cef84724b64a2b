SPECIFICATION MCSpec
CONSTANTS
  Users = {u, v}
  Sessions = {s}
  Tokens = {k}
  Clients = {c, d}
  Sliding = 1
  Absolute = 2
  MaxTime = 3
  Nobody = Nobody
  Requesters = {e, f}
  MaxRegistries = 2
  MaxRefs = 2
  MaxMishaps = 1
  MaxRequests = 4
  Ips = {i, j}
  NoHeader = NoHeader
  MaxAttempts = 2
  Window = 2
  SweepInterval = 3
  MaxClock = 4
  Names = {"a", "bad", "ctl"}
  Malformed = "bad"
  Control = "ctl"
  Services = {x, y}
  Callers = {g, h}
  MaxRows = 2
  DnsNames <- MCNames
  Challenge <- MCChallenge
  Nowhere = Nowhere
  MaxHops = 3
  Resolvers = 2
  MaxDnsOrders = 2
SYMMETRY MCSymmetry
INVARIANTS
  DeletedUsersAreOut
  CredentialIsItsOwn
  WindowRespected
  VerifiedWasProved
  OnlyStrayRecordsStay
CHECK_DEADLOCK FALSE
