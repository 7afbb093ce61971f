SPECIFICATION FairSpec
CONSTANTS
    b1 = b1
    m1 = m1
    s1 = s1
    Invocations = {m1, s1}
    Local = {s1}
    Mcp = {m1}
    Outside = {}
    MaxRecords = 2
    MaxTombstones = 2
    BatchSize = 2
    MaxFaults = 2
PROPERTIES
    EvidenceConverges
    CallsEnd
CHECK_DEADLOCK FALSE
