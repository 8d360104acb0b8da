SPECIFICATION Spec
CONSTANTS
    Record = {k1, k2}
    Incident = {i1, i2}
    Client = {c1}
    None = None
    MaxClock = 2
    Faults = TRUE
SYMMETRY Interchangeable
INVARIANTS
    StoredTogether
    AnswersKeepUp
PROPERTIES
    ImplementsReportReader
