SPECIFICATION Spec
CONSTANTS
  s1 = s1
  s2 = s2
  k1 = k1
  k2 = k2
  h1 = h1
  h2 = h2
  None = None
  Session = {s1, s2}
  Key = {k1, k2}
  Handler = {h1}
  Owner <- OneOwner
  SubOf <- PlanSessions
  MaxBytes <- NoCap
  Granted = 1
  Asks <- OwnKey
  MaxPeers = 2
  TrafficBound = 1
  CrashBound = 0
  LateInclusion = TRUE
INVARIANTS
  TypeOK
  GrantFits
