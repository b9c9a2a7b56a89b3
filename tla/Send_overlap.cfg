CONSTANTS
    Threads = {app, timer}
    Timer = timer
    HbEnabled = TRUE
    BeginSeqNo = 1
    ResetSeqNo = TRUE
    IntMax = 3
    FileContents <- FreshOrUsed
    Overlap = TRUE
    MaxIncrements = 3
    MaxCrashes = 0
SPECIFICATION Spec
INVARIANTS TypeOK WireNeverAhead StoreNeverAhead
CHECK_DEADLOCK FALSE
