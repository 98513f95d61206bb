SPECIFICATION Spec
CONSTANTS
    None = None
    Intervals = {1, 2}
    Factor = 4
    Debounce = 1
    Latency = 1
    Views = {"here", "there"}
    MaxActs = 4
    ferry = ferry
    tug = tug
    Nowhere = Nowhere
    Absent = Absent
    Kinds = {"ships", "aircraft", "roads", "roadCameras", "transit", "warnings", "species"}
    Feeds <- MCFeeds
    Preferences <- MCPreferences
    Scale <- MCScale
    Threshold = 3
    Coast = 2
    LoseAfter = 2
    GestureWindow = 1
    MaxClock = 4
    MaxTaps = 2
    MaxProjection = 3
    MaxPoints = 3
    TrailAge = 3
    Sightings <- MCSightings
    ForgetAfter = 4
    NoHead = NoHead
    MaxNow = 5
    Slots <- MCSlots
    Publishes <- MCPublishes
    Map = "map"
    Groups = {"ships", "transit"}
    Null = Null
    MaxClaims = 5
    MaxSaid = 1
    Fields = {"lat", "lng"}
    Values = {"68", "69"}
    Nil = Nil
    MaxEdits = 3
    MaxWrites = 2
    MaxOthers = 1
INVARIANTS
    OneTimer
    PolledOnTime
    ViewIsFetched
    ListedIsDrawn
    PopupTellsTheTruth
    FollowLetsGo
    NoStaleSegment
    StatusIsTheLivePages
    EditsAreKept
\* What visitors do and the clocks are bounded.
CHECK_DEADLOCK FALSE
