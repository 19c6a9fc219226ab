SPECIFICATION Spec
CONSTANTS
  s1 = s1
  s2 = s2
  k1 = k1
  k2 = k2
  h1 = h1
  h2 = h2
  None = None
  Session = {s1, s2}
  Key = {k1, k2}
  Handler = {h1, h2}
  Owner <- TwoOwners
  SubOf <- NodeSessions
  MaxBytes <- NoCap
  Granted = 1
  Asks <- OwnKey
  MaxPeers = 1
  TrafficBound = 0
  CrashBound = 0
  LateInclusion = FALSE
SYMMETRY HandlerSymmetry
INVARIANTS
  MaxPeersHeld
