SPECIFICATION DeadlinesSpec
CONSTANTS
    Timeouts = {20, 90}
    LlmTimeout = 60
    Arrivals = {0, 4, 14}
    Waits = {0, 20}
    Delays = {0, 9, 80}
CHECK_DEADLOCK FALSE
INVARIANTS
    OnlyStorageCostsAnswers
    IngressOutwaits
    SavedBeforeStale
