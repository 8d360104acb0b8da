SPECIFICATION Spec
CONSTANTS
    Id = {1, 2, 3}
    DefaultPageSize = 1
    MaxPageSize = 2
    Limit <- Limits
    MaxClock = 2
INVARIANTS
    PagesCover
    RepeatsAreArrivals
