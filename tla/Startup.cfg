SPECIFICATION Spec
CONSTANTS
  NaN = NaN
  Never = Never
  NoCache = NoCache
  Nothing = Nothing
  TxFee = 1
  sameFacilityFloor = 2
  sameBuildingFloor = 1
  refineBatch = 2
  refineLimit = 3
  wantQualifying = 2
  maxQualifying = 3
  maxSamples = 2
  cacheTTL = 1
  Configs <- MCConfigs
  GrantSets <- MCGrantSets
  ValidFor = 1
  PrintedLimit <- MCPrintedLimit
  Timeouts <- MCTimeouts
  Places = {"1.1.1.1", "2.2.2.2"}
  RepliesAt <- MCRepliesAt
  ServerLists <- MCServerLists
  Budgets = {1, 2, 9}
  MaxTime = 2
INVARIANTS
  
  LocationSound
  MeasuredHere
  OffThisNetwork
  
