SPECIFICATION FairSpec
CONSTANTS
    Gone = Gone
    MaxClock = 2
    MaxPoints = 2
    MaxFaults = 1
    MaxCrashes = 2
INVARIANTS OnlyTheShownIsDiscarded QuietStartSettlesStaged
PROPERTIES RestoreIsAtomic Serves
