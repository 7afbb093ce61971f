SPECIFICATION FairSpec
CONSTANTS
  Requests = {r1, r2}
  CallerOf <- MCCallerOf
  Unserved = {}
  MaxPending = 2
  MaxConcurrent = 1
  MaxHandlers = 1
  MaxEvents = 1
INVARIANTS PendingIsServed AbandonedIsAborted
PROPERTIES CallsKeepPromise AbandonedStop
CHECK_DEADLOCK FALSE
