CONSTANTS
    Messages <- SomeMessages
    BufferSize = 256
    Segmentation = "perMessage"
    IntMax = 127
    MaxSent = 4
SPECIFICATION Spec
PROPERTIES ImplementsDelivery EveryMessageTaken

CHECK_DEADLOCK FALSE
