SPECIFICATION FairSpec
CONSTANTS
    p1 = p1
    p2 = p2
    p3 = p3
    Process = {p1, p2, p3}
    None = None
    Latest <- TwoReleases
    Skipped <- NothingSkipped
    Newest = 3
    Faults = TRUE
INVARIANTS
    ScriptsApplyCleanly
    LedgerTellsSchema
PROPERTIES
    WholeStepsOnly
    AppliesAllPending
    CommandsEnd
