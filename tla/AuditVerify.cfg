SPECIFICATION MCSpec
CONSTANTS
    e1 = e1
    e2 = e2
    e3 = e3
    None = None
    Ids <- MCIds
    MaxTime = 2
    Hashed <- MCHashed
    Stored <- MCStored
    ReadBack <- MCReadBack
    Traffic <- MCTraffic
    Fields <- MCFields
    LabelOrder <- MCLabelOrder
    TopLimit = 10
    BucketWidth = 2
    Payloads <- MCPayloads
    ByteOrder <- MCByteOrder
    JsonbOrder <- MCJsonbOrder
    Html = {"html"}
    Nul = {"nul"}
    Replaced <- MCReplaced
    Numeric <- MCNumeric
INVARIANTS
    EncodingIsFaithful
    TamperingIsDetected
    AlarmHasCause
    FiguresFit
    
CHECK_DEADLOCK FALSE
