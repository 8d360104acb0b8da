SPECIFICATION Spec
CONSTANTS
    Source = {"dns", "ping", "tcp"}
    Content <- Contents
    Null = Null
CHECK_DEADLOCK FALSE
INVARIANTS
    ReportsAreWritten
    PromptsAreComplete
    ValidIsStorable
