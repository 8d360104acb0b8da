SPECIFICATION UiSpec
CONSTANTS
    i1 = i1
    i2 = i2
    Incident = {i1, i2}
    NoIncident = NoIncident
    Old = {i1}
    MaxRequests = 6
    MaxStarted = 2
CHECK_DEADLOCK FALSE
INVARIANTS
    ShownBelongsToSelected
    SpinnerTellsTruth
PROPERTIES
    SetBackOnlyByReport
