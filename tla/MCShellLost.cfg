SPECIFICATION Spec
CONSTANTS
    map = map
    weather = weather
    tide = tide
    setup = setup
    Root = Root
    None = None
    CycleOrder <- MCCycleOrder
    Home = map
    Others = {setup}
    Readers <- MCReaders
    Choices <- MCChoices
    Longest = 4
    PREWARM = 1
    SLIDE = 1
    MaxActs = 2
INVARIANT NavigationIsKept
