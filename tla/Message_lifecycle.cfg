CONSTANTS
    HeaderTags = {34, 35}
    BodyTags = {98}
    TrailerTags = {10}
    Values = {120}
    Types = {0, 5}
    MaxRenders = 2
    HeaderSettings <- Header
    MessageSettings <- ByType
    NoNumber <- NotANumber
    LogonType = 5
    EncryptType = 0
    HbInterval = 30
    Times = {1, 22}
    FirstSeqNo = 9
SPECIFICATION ConversionSpec
INVARIANTS TypeOK HeaderFirst BodyLengthRight ChecksumRight RoundTrip
PROPERTY ContentPromised
CHECK_DEADLOCK FALSE
