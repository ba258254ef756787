CONSTANTS
    LevelsMax = 7
    StackMax = 7
    Int32Max = 99
    Int64Max = 999
    RecursionMax = 9
    Hex24 <- MCHex24
    Base64 <- MCBase64
    SubTypes <- MCSubTypes
    Dates <- MCDates
    Iso8601 <- MCIso8601
    Decimals <- MCDecimals
    Doubles <- MCDoubles
    PrintedG <- MCPrintedG
    Writings <- MCWritings
    Texts <- MCTexts
    ReadSizes <- MCReadSizes
SPECIFICATION JsonSpec
INVARIANTS
    TokensWhole
    ReadsBack
    ChunkingInvisible
    StackFits
CHECK_DEADLOCK FALSE
