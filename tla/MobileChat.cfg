SPECIFICATION FairChatSpec
CONSTANTS
  Runs = {1, 2}
  MaxSeq = 3
  PageLimit = 1
  MaxScreens = 2
  MaxChatFaults = 1
INVARIANTS ErrorsHaveCause RetriesMakeOneRun
PROPERTIES ChatCatchesUp
CHECK_DEADLOCK FALSE
