CONSTANTS
    Cores <- MCCores
    Blocks <- MCBlocks
    Words <- MCWords
    Values = {0, 1}
    NoBlock = NoBlock
    Index1 <- MCIndex
    Index2 <- MCIndex
    Ways1 <- MCWays1
    Ways2 <- MCWays2
    WriteThrough <- MCWriteThrough
    PageTable = {}
    InitDdr <- MCInitDdr
    NoAccess = NoAccess
    Accesses <- MCAccesses
SPECIFICATION Spec
INVARIANTS
    SetsWellFormed
    CleanL1IsBelow
    CleanL2IsInDdr
PROPERTY
    ImplementsFlatMemory
