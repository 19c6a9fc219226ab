SPECIFICATION Spec
CONSTANTS
  s1 = s1
  s2 = s2
  k1 = k1
  k2 = k2
  h1 = h1
  h2 = h2
  None = None
  Session = {s1}
  Key = {k1, k2}
  Handler = {h1, h2}
  Owner <- SoleOwner
  SubOf <- SoleNodeSession
  MaxBytes <- SoleCap
  Granted = 1
  Asks <- TwoKeys
  MaxPeers = 2
  TrafficBound = 2
  CrashBound = 1
  LateInclusion = FALSE
SYMMETRY HandlerSymmetry
INVARIANTS
  ReportsNotLower
  UsageNotOverstated
