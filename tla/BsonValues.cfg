CONSTANTS
    s1 = s1
    s2 = s2
    Nothing = Nothing
    Slots <- MCSlots
    Given <- MCGiven
    Keys <- MCKeys
    Reserves <- MCReserves
    InlineSize = 14
    MaxBytes = 23
    MaxElements = 3
    MaxBlocks = 3
SPECIFICATION Spec
SYMMETRY MCSymmetry
INVARIANTS
    EachBlockHasOneOwner
    DocumentsFit
    ContentsKept
CHECK_DEADLOCK FALSE
