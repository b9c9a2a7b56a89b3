CONSTANTS
    Threads = {app, timer}
    BeginSeqNo = 1
    ResetSeqNo = FALSE
    IntMax = 100
    FileContents <- FreshOrUsed
    Overlap = TRUE
    MaxIncrements = 3
    MaxCrashes = 0
SPECIFICATION Spec
INVARIANT IncrementsNotLost
CHECK_DEADLOCK FALSE
