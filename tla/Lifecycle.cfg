SPECIFICATION Spec
CONSTANTS
  Kinds <- AllKinds
  Policies <- TwoPolicies
  HitBound = 1
  FaultBound = 1
  Absent = Absent
INVARIANTS
  
  
  
  RestartNeedsNoCleanup
