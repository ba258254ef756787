CONSTANTS
    ByteStrings <- MCByteStrings
    CodePoints <- MCCodePoints
    ElementLists <- MCElements
    Documents <- MCDocuments
    FlagSets <- MCFlagSets
    Times <- MCTimes
    DayNumbers <- MCDayNumbers
    Dates <- MCDates
    DateTexts <- MCDateTexts
    Oids <- MCOids
    HexTexts <- MCHexTexts
    ByteBlobs <- MCByteBlobs
    Base64Texts <- MCBase64Texts
    Numbers <- MCNumbers
    Decimals <- MCDecimals
    DecimalParts <- MCDecimalParts
    NoDecimals <- MCNoDecimals
    Trees <- MCTrees
    StackMax = 5
    Absent = Absent
SPECIFICATION Spec
INVARIANTS
    ScopesEndNothing
CHECK_DEADLOCK FALSE
