SPECIFICATION TrafficSpec
CONSTANTS
  Policy <- MCPolicy
  CpuSamples = {0, 20, 50, 70, 120}
  MemSamples = {0, 80, 100}
  Gaps = {1, 2}
  MaxTime = 9
  Replicas = {r1, r2, r3, r4}
  Requests = {q1, q2, q3}
  Retries = 2
  Free = Free
  Ctl = Ctl
  Hosts = {h, i}
  ControlHost = {i}
  MaxOrders = 3
  MaxQueue = 1
  MaxFaults = 2
  Pushers = {u1, u2}
  MaxPolls = 1
  Nothing = Nothing
INVARIANTS
  CountInBand
  RoundRobin
  SingleFlight
PROPERTIES
  NoFlap
  NoLaunchInBackoff
  EveryRequestAnswered
  VerifiedGetsCertificate
  UploadsReclaimed
CHECK_DEADLOCK FALSE
