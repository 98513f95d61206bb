SPECIFICATION Spec
CONSTANTS
    nordland = nordland
    troms = troms
    Absent = Absent
    Unavailable = Unavailable
    Refused = Refused
    Unread = Unread
    LatLimit = 10
    LngLimit = 10
    MaxSpan = 8
    Grid = 2
    Margin = 1
    MaxClock = 2
    WarningQueries <- MCQueries
    MetAnswers <- MCMetAnswers
    Rosters <- MCRosters
    Entries <- MCEntries
    MetTtl = 1
    RosterTtl = 2
    RegionTtl = 1
    MaxRegional = 2
    DayLength = 2
    Tolerance = 4
    RoundStep = 2
    Horizon = 3
    MaxWind = 60
    MinMean = 2
    PageLimit = 2
    MaxRawRecords = 4
    SightingsCap = 2
    PlaceStep = 4
    MinutesMin = 1
    MinutesMax = 4
    DefaultMinutes = 2
    SituationAnswers <- MCSituationAnswers
    CameraAnswers <- MCCameraAnswers
    SearchAnswers <- MCSearchAnswers
    VehicleReplies <- MCVehicleReplies
    DaysAsked <- MCDaysAsked
    MinutesAsked <- MCMinutesAsked
    LayerTtl = 1
    kiosk = kiosk
    poller = poller
    hex = hex
    wif = wif
    lnabc = lnabc
    lndef = lndef
    sas = sas
    Never = Never
    None = None
    Failed = Failed
    Callers <- MCCallers
    Boxes <- MCBoxesInSky
    Feeds <- MCFeeds
    States <- MCStates
    Flights <- MCFlights
    Setups <- MCSetups
    MinInterval = 1
    Burst = 1
    MaxTravel = 2
    OpenSkyInterval = 1
    MaxFlight = 1
    RouteTtl = 2
    MaxCallsigns = 1
    MaxLookups = 1
    MaxAnswers = 2
SYMMETRY Symmetry
INVARIANTS
    UnmarkedIsFresh
    DangerIsNotForgotten
    ViewIsWhole
    ServedForNow
    OrderIsIgnored
    TruncationIsTold
    WindowBound
    SlotIsShared
PROPERTIES
    AskedOnce
\* The clocks stop at their bounds.
CHECK_DEADLOCK FALSE
