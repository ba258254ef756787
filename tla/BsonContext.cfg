CONSTANTS
    Processes = {p1, p2}
    Root = p1
    Pid <- MCPid
    PidRange = 8
    Threads = {t1, t2}
    FlagSets <- MCFlagSets
    Seeds = {2}
    SeqRange = 4
    MaxOids = 3
    MaxTime = 1
SPECIFICATION Spec
SYMMETRY Symmetry
INVARIANTS
    OidsUnique
    SequenceUnique
CHECK_DEADLOCK FALSE
