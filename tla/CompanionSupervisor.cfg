SPECIFICATION FairSpec
CONSTANTS
  MaxAttempts = 3
  MaxFaults = 6
INVARIANTS NothingEscapes StatusIsTrue
PROPERTIES WorkEnds
CHECK_DEADLOCK FALSE
