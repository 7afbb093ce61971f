SPECIFICATION Spec
CONSTANTS
    b1 = b1
    m1 = m1
    s1 = s1
    Invocations = {b1, m1}
    Local = {}
    Mcp = {m1}
    Outside = {b1}
    MaxRecords = 2
    MaxTombstones = 2
    BatchSize = 2
    MaxFaults = 0
INVARIANTS
    EvidenceAcceptable
CHECK_DEADLOCK FALSE
