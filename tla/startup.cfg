SPECIFICATION FairStartupSpec
CONSTANTS
    Environment <- Environments
    Args = {"serve", "up", "down", "other"}
    MaxHandlers = 2
CHECK_DEADLOCK FALSE
INVARIANTS
    RefusedAtOnce
PROPERTIES
    SignalEnds
