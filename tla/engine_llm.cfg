SPECIFICATION Spec
CONSTANTS
    r1 = r1
    r2 = r2
    q1 = q1
    q2 = q2
    i1 = i1
    i2 = i2
    Replica = {r1, r2}
    Request = {q1, q2}
    Incident = {i1, i2}
    Ghost = Ghost
    None = None
    Named = {i1}
    WithPort = {i2}
    MaxConcurrent = 1
    Timeout <- SameTimeouts
    SaveTimeout = 1
    Slack = 3
    Lag = 1
    AgeCap = 6
    DbFaults = TRUE
    Provider <- LlmOnly
SYMMETRY AllSymmetry
INVARIANTS
    TypeOK
    SlotsMatchHolders
    LiveIsRunning
    RecordCoherent
    AnswerMatchesRecord
    GraceCoversSave
PROPERTIES
    StopFailsDiagnosing
    ImplementsLifecycle
