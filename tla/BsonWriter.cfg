CONSTANTS
    InlineSize = 12
    SpillSize = 13
    MaxSize = 31
    SizedNew = {}
    Elements <- MCElements
    KeyLengths = {1}
    FirstBuffer = 6
    Buffers <- MCBuffers
    MaxBuffer = 24
SPECIFICATION WriterSpec
INVARIANTS
    FinishedEncode
    FinishedAdjacent
PROPERTIES
    AppendsFit
    FinishedKept
CHECK_DEADLOCK FALSE
