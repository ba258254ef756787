CONSTANTS
    InitLen = 8
    Streams <- MCStreams
SPECIFICATION Spec
INVARIANTS
    ReadErrorIsNotEof
CHECK_DEADLOCK FALSE
