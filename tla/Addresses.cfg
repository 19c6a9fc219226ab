SPECIFICATION Spec
CONSTANTS
  k1 = k1
  k2 = k2
  k3 = k3
  None = None
  Key = {k1, k2, k3}
  First4 = 253
  Last4 = 259
  First6 = 2
  Last6 = 5
SYMMETRY KeySymmetry
INVARIANTS
  PoolsAccounted
  AddressesDistinct
  TableMatches
  FullOnlyWhenUsed
