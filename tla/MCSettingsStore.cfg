SPECIFICATION FairSpec
CONSTANTS
    field = field
    camera = camera
    unset = unset
    v1 = v1
    none = none
    extra = extra
    Missing = Missing
    Corrupt = Corrupt
    Keys <- MCKeys
    Values <- MCValues
    Writes <- MCWrites
    Unknowns <- MCUnknowns
    NoUnknown = none
    Defaults <- MCDefaults
    MaxCalls = 3
    MaxCrashes = 1
    MaxEdits = 1
INVARIANTS
    MemoryMatchesDisk
PROPERTIES
    FileIsNeverDamaged
    ImplementsRegister
    EveryCallSettles
\* The calls, crashes and edits are bounded: an idle server has nothing left to do.
CHECK_DEADLOCK FALSE
