CONSTANTS
    Intervals = {"positive", "none", "invalid"}
SPECIFICATION Spec
INVARIANTS TypeOK OneHeartbeat OneAfterStop
PROPERTIES HeartbeatsGoOn ThreadLeaves
CHECK_DEADLOCK FALSE
