CONSTANTS
    Messages <- TwoMessages
    BufferSize = 256
    Segmentation = "coalescing"
    IntMax = 127
    MaxSent = 3
SPECIFICATION Spec
INVARIANT DeliveredInOrder

CHECK_DEADLOCK FALSE
