CONSTANTS
    Messages <- TornMessages
    BufferSize = 50
    Segmentation = "any"
    IntMax = 127
    MaxSent = 3
SPECIFICATION Spec
INVARIANTS TypeOK DeliveriesBeginMessages
PROPERTY CleanReadDelivers

CHECK_DEADLOCK FALSE
