SPECIFICATION FairSpec
CONSTANTS
    brightness = brightness
    low = low
    high = high
    camera = camera
    here = here
    Nowhere = Nowhere
    NoOverride = NoOverride
    None = None
    Fields <- MCFields
    Values <- MCValues
    Cameras <- MCCameras
    Spots <- MCSpots
    Initial <- MCInitial
    Edits <- MCEdits
    MaxWrites = 2
    MaxFailures = 1
    MaxOthers = 1
PROPERTIES
    SnapshotsSpareEdits
    SavedEditIsShown
    Converges
