SPECIFICATION FairSpec
CONSTANTS
    Messages = 1
    Pieces = 3
    MaxEvents = 2
    MaxDrops = 1
    MaxCrashes = 1
    MaxDbFaults = 1
INVARIANTS NothingSkipped TextIsContiguous OutcomeIsTrue
PROPERTIES ShownStays FollowerSettles
CHECK_DEADLOCK FALSE
