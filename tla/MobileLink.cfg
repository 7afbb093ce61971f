SPECIFICATION FairSpec
CONSTANTS
  MaxToken = 7
  MaxFaults = 2
  MaxMoves = 2
INVARIANTS ClientIsLive FatalMeansQuiet OneServedSocket
PROPERTIES ConnectionSettles
CHECK_DEADLOCK FALSE
