SPECIFICATION FairSpec
CONSTANTS
    r1 = r1
    r2 = r2
    q1 = q1
    q2 = q2
    i1 = i1
    i2 = i2
    Replica = {r1, r2}
    Request = {q1, q2}
    Incident = {i1}
    Ghost = Ghost
    None = None
    Named = {}
    WithPort = {}
    MaxConcurrent = 2
    Timeout <- SameTimeouts
    SaveTimeout = 1
    Slack = 1
    Lag = 0
    AgeCap = 4
    DbFaults = TRUE
    Provider <- OneOfEach
PROPERTIES
    EveryCallReturns
    RestartsRecover
