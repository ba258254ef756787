CONSTANTS
    Inputs <- MCInputs
    Keys <- MCKeys
    Paths <- MCPaths
    Fill = {255}
SPECIFICATION Spec
INVARIANTS
    AtElement
    EndIsRight
    GettersInside
    ChildrenInside
    FindIsFirst
PROPERTIES
    OverwriteInPlace
    FindReturns
CHECK_DEADLOCK FALSE
