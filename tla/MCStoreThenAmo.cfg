CONSTANTS
    Cores = {0}
    Blocks <- MCBlocks
    Words <- MCWords
    Values <- MCValues
    NoBlock = NoBlock
    Index1 <- MCIndex
    Index2 <- MCIndex
    Ways1 <- MCWays
    Ways2 <- MCWays
    WriteThrough = {}
    PageTable = {}
    InitDdr <- MCInitDdr
    NoAccess = NoAccess
    Accesses <- MCAccesses
    ByteSize = 2
    NoInstruction = NoInstruction
    Programs <- MCPrograms
SPECIFICATION MachineSpec
PROPERTY
    ImplementsByteMemory
