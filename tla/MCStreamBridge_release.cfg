SPECIFICATION FairSpec
CONSTANTS
    Messages = 1
    Pieces = 1
    MaxEvents = 3
    MaxDrops = 0
    MaxCrashes = 0
    MaxDbFaults = 0
PROPERTY
    EndedStreamIsReleased
CHECK_DEADLOCK FALSE
