SPECIFICATION RouteSpec
CONSTANTS
    here = here
    there = there
    far = far
    None = None
    Never = Never
    Keys <- MCKeys
    Owners <- MCOwners
    MinInterval = 1
    Burst = 1
    Ttl = 1
    MaxEntries = 2
    MaxRequests = 4
    MaxTravel = 2
SYMMETRY
    KeySymmetry
INVARIANTS
    StationStaysPrivate
    NoWaiterIsOrphaned
PROPERTIES
    EntriesAreFresh
    OnlyLruLeaves
\* The requests and the clock are bounded.
CHECK_DEADLOCK FALSE
