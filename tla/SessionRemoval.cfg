SPECIFICATION FairSpec
CONSTANTS
  p1 = p1
  s1 = s1
  s2 = s2
  s3 = s3
  Nobody = Nobody
  Projects = {p1}
  Sessions = {s1, s2, s3}
  ProjectOf <- MCProjectOf
  Old = {s1, s3}
  Used = {s1}
  Stuck = {s3}
  Slots = 2
  MaxJobs = 2
  Batch = 1
  MaxFaults = 1
INVARIANTS RemovalIsSafe
PROPERTIES RemovalsEnd
CHECK_DEADLOCK FALSE
