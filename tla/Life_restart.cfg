CONSTANTS
    Unset = Unset
    HbRequired = TRUE
    MaxStarts = 2
SPECIFICATION Spec
INVARIANTS TypeOK ReadsBounded ConnectFirst
PROPERTIES ErrorsReachOnError ConnectionsAreTold
CHECK_DEADLOCK FALSE
