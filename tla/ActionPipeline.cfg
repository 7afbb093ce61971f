SPECIFICATION Spec
CONSTANTS
    b1 = b1
    m1 = m1
    s1 = s1
    Invocations = {b1, m1}
    Local = {}
    Mcp = {m1}
    Outside = {}
    MaxRecords = 2
    MaxTombstones = 1
    BatchSize = 2
    MaxFaults = 2
INVARIANTS
    SpentGrantsAreRemembered
    CrashLosesNothing
    EvidenceAcceptable
    ReceiptAfterEvidence
PROPERTIES
    ImplementsOutcome
CHECK_DEADLOCK FALSE
