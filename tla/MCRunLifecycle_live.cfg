SPECIFICATION FairSpec
CONSTANTS
    Threads = {t1}
    Runs = {r1}
    Requests = {c1, c2}
    NoThread = NoThread
    NoRun = NoRun
    NoRequest = NoRequest
    Ops <- OpsCore
    MaxDbFaults = 2
    MaxBoxFaults = 1
    MaxCrashes = 1
INVARIANTS UnsettledFilesUntouched
PROPERTIES EverythingEnds
