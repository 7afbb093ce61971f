SPECIFICATION FairFeedSpec
CONSTANTS
  Runs = {1, 2}
  Mine = {1}
  Sessions = {1, 2}
  SessionOf <- OneSession
  MaxSeq = 3
  PageSize = 1
  MaxFeedFaults = 2
INVARIANTS NothingMissing DeletionsReachTheRenderer
PROPERTIES RecoveryEnds
CHECK_DEADLOCK FALSE
