SPECIFICATION FairApprovalSpec
CONSTANTS
    r1 = r1
    r2 = r2
    s1 = s1
    NoKey = NoKey
    Requests = {r1, r2}
    Sessions = {s1}
    SessionOf <- MCSessionOf
    Critical = {r1}
    Keys = {k1, k2}
    MaxFlushFaults = 1
INVARIANTS
    AllowedMeansApproved
    CriticalNeedsUser
    CommandAppliedOnce
PROPERTIES
    WaitersSettle
CHECK_DEADLOCK FALSE
