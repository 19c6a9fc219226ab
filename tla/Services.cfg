SPECIFICATION FairSpec
CONSTANTS
  k1 = k1
  k2 = k2
  Key = {k1, k2}
  Kinds = {"v2ray", "xray", "hysteria", "openvpn"}
  MaxBytes = 1
  MaxLinks <- Links
  MaxPending = 2
  Clients = {k1}
INVARIANTS
  InStep
  CutOff
  RepliesMatched
PROPERTIES
  
  NothingMissed
  ForgottenLeaves
