SPECIFICATION Spec
CONSTANTS
  Missing = Missing
  Absent = Absent
  Torn = Torn
  Ports = {1024, 1025}
  PaddingDraws = {16, 72}
  HeaderDraws <- MCHeaderDraws
  Digest <- MCDigest
  Kinds <- MCKinds
  Edits <- MCEdits
  LegacyFiles <- MCLegacyFiles
  MaxCommands = 3
  MaxKeys = 6
INVARIANTS
  TiersApart
  InitAccepted
  NoSilentKeys
  CertificatesMatch

  
CHECK_DEADLOCK FALSE
