\* A fetch may take longer than the window, so that callers find it in flight past it.
CONSTANTS
    RefreshMs = 2
    MaxStaleMs = 4
    RefreshAt = 4
    ExpiresIn = 5
    MaxFlight = 3
    MaxTrouble = 4
SPECIFICATION FairSpec
INVARIANTS
    ServedAgeBound
PROPERTIES
    NoNeedlessFailure
    Recovers
