CONSTANTS
    XLen = 16
    Registers <- MCRegisters
    Inputs <- MCInputs
    Starts <- MCStarts
    Instrs <- MCInstrs
    MaxSteps = 1
    NoAccess = NoAccess
    NoInstr = NoInstr
SPECIFICATION Spec
PROPERTIES
    ImplementsIsa
    TraceTells
    DisassemblyTells
CHECK_DEADLOCK FALSE
