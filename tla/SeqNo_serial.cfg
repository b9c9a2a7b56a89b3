CONSTANTS
    Threads = {app, timer}
    BeginSeqNo = 1
    ResetSeqNo = FALSE
    IntMax = 4
    FileContents <- FreshUsedOrWrapped
    Overlap = FALSE
    MaxIncrements = 5
    MaxCrashes = 2
SPECIFICATION Spec
INVARIANTS TypeOK SettledAgreement IncrementsNotLost
PROPERTY FileRegressesOnlyOnWrap
CHECK_DEADLOCK FALSE
