SPECIFICATION FairSpec
CONSTANTS
  s1 = s1
  s2 = s2
  k1 = k1
  k2 = k2
  h1 = h1
  h2 = h2
  None = None
  Session = {s1}
  Key = {k1}
  Handler = {h1}
  Owner <- SoleOwner
  SubOf <- SoleNodeSession
  MaxBytes <- CapOne
  Granted = 1
  Asks <- SoleAsk
  MaxPeers = 1
  TrafficBound = 2
  CrashBound = 0
  LateInclusion = FALSE
PROPERTIES
  AllocationEnforced
