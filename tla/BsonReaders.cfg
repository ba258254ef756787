CONSTANTS
    InitLen = 8
    Streams <- MCStreams
SPECIFICATION BothSpec
INVARIANTS
    TypeOK
    DeliveredInOrder
    
    EofIsEndOfStream
    ReadersAgree
PROPERTIES
    CallReturns
    ImplementsDocStream
    MemoryImplementsDocStream
CHECK_DEADLOCK FALSE
