CONSTANTS
    Unset = Unset
    HbRequired = FALSE
    MaxStarts = 1
SPECIFICATION Spec
PROPERTY DisconnectIsTold
CHECK_DEADLOCK FALSE
