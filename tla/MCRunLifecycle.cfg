SPECIFICATION Spec
CONSTANTS
    Threads = {t1}
    Runs = {r1, r2}
    Requests = {c1, c2}
    NoThread = NoThread
    NoRun = NoRun
    NoRequest = NoRequest
    Ops <- AllOps
    MaxDbFaults = 1
    MaxBoxFaults = 1
    MaxCrashes = 1
SYMMETRY Symmetry
INVARIANTS Exclusion OneTaskAnswers RowsAgree SuccessIsDurable FilesAreAlone
PROPERTIES EntrySpec
