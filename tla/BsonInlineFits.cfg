CONSTANTS
    s1 = s1
    s2 = s2
    Nothing = Nothing
    Slots <- MCSlots
    Given <- MCRegexes
    Keys <- MCKeys
    Reserves <- MCReserves
    InlineSize = 11
    MaxBytes = 23
    MaxElements = 3
    MaxBlocks = 3
SPECIFICATION Spec
INVARIANTS
    InlineFits
CHECK_DEADLOCK FALSE
