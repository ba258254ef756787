CONSTANTS
    InlineSize = 12
    SpillSize = 13
    MaxSize = 63
    SizedNew = {0, 14}
    Elements <- MCElements
    KeyLengths = {2}
SPECIFICATION Spec
INVARIANTS
    Nested
    WritesFit
    RoomForParents
    LengthsFit
    CurrentEncodesItsElements
CHECK_DEADLOCK FALSE
