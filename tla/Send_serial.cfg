CONSTANTS
    Threads = {app, timer}
    Timer = timer
    HbEnabled = TRUE
    BeginSeqNo = 1
    ResetSeqNo = FALSE
    IntMax = 100
    FileContents <- FreshOrUsed
    Overlap = FALSE
    MaxIncrements = 3
    MaxCrashes = 2
SPECIFICATION Spec
INVARIANTS StrictlyIncreasing NumbersAccountedFor
PROPERTY ImplementsNumbering
CHECK_DEADLOCK FALSE
