SPECIFICATION FairSpec
CONSTANTS
  r1 = r1
  r2 = r2
  s1 = s1
  Nobody = Nobody
  Runs = {r1, r2}
  Sessions = {s1}
  SessionOf <- MCSessionOf
  MaxFaults = 2
  MaxRestarts = 1
INVARIANTS OneLiveRun PartTellsTruth OverRunsAreQuiet DeletedIsQuiet
PROPERTIES ReleasedRunsAreOver ExecutionsEnd
CHECK_DEADLOCK FALSE
