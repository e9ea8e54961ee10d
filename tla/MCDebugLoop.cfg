CONSTANTS
    Images <- MCImages
    MemSize = 40
    BssEnd = 36
    PhaseAddr = 36
    NumCores = 3
    Breakpoints <- MCBreakpoints
    Counts <- MCCounts
    MaxDepth = 3
SPECIFICATION Spec
INVARIANTS
    ProgramInBothMemories
    NoTurnLost
PROPERTIES
    EndsAtEndOfInput
CHECK_DEADLOCK FALSE
