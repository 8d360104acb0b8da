SPECIFICATION FairSpec
CONSTANTS
    a = a
    b = b
    c = c
    d = d
    s1 = s1
    s2 = s2
    r1 = r1
    w1 = w1
    w2 = w2
    i1 = i1
    Replica = {a, b, c, d}
    MaxConns = 1
    Read = {r1}
    Save = {s1, s2}
    Sweep = {w1, w2}
    Home <- Homes
    Statements <- Reads
    Incident = {i1}
    About <- Abouts
    NoLock = NoLock
CHECK_DEADLOCK FALSE
INVARIANTS
    NoHoldAndWait
    DeadlocksNeedTwoSweeps
PROPERTIES
    EveryJobEnds
