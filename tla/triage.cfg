SPECIFICATION Spec
CONSTANTS
    PingCount = 4
    Latencies <- AroundTheThreshold
CHECK_DEADLOCK FALSE
INVARIANTS
    ConclusionsSupported
    NamesOnlyTrueFaults
