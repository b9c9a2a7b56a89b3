CONSTANTS
    Threads = {app, timer}
    Timer = timer
    HbEnabled = TRUE
    BeginSeqNo = 1
    ResetSeqNo = FALSE
    IntMax = 100
    FileContents <- FreshOrUsed
    Overlap = FALSE
    MaxIncrements = 2
    MaxCrashes = 0
SPECIFICATION Spec
INVARIANTS BufferSentIntact
CHECK_DEADLOCK FALSE
