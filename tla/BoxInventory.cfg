SPECIFICATION FairSpec
CONSTANTS
  i1 = i1
  i2 = i2
  Nobody = Nobody
  MaxPeers = 2
  MaxHints = 1
  Instances = {i1, i2}
  GenerationOf <- MCGenerationOf
  Names = {a}
  MaxEpoch = 2
  MaxRevision <- MCMaxRevision
  MaxChanges = 2
  PageSize = 1
  MaxQueue = 2
  MaxFaults = 1
INVARIANTS MirrorIsPast ReadyMeansSynced ReadYourWrites
CHECK_DEADLOCK FALSE
PROPERTIES MirrorConverges
