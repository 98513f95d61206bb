CONSTANTS
    Vessels = {a}
    Places = {p, q}
    None = None
    Unreadable = Unreadable
    MaxPoints = 2
    MaxAgeMs = 1
    ForgetAfterMs = 2
    MaxFlight = 1
    MaxServed = 1
    Slots = {s, t}
    MaxMoves = 2
    MaxNow = 4
SPECIFICATION Spec
SYMMETRY Symmetry
CHECK_DEADLOCK FALSE
INVARIANTS
    TrailIsSound
    NotForgottenEarly
    ForgottenInTime
