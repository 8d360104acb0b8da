SPECIFICATION Spec
CONSTANTS
    Faults = TRUE
    Panics = TRUE
CHECK_DEADLOCK FALSE
INVARIANTS
    RefusedLeavesNoTrace
    StoredIsSound
    ConcludedIsTold
