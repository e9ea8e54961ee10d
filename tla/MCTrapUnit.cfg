CONSTANTS
    NumCores = 2
    WordSize = 4
    MaxTime = 2
    Code <- MCCode
    InitPc <- MCInitPc
    Vector <- MCVector
    NoFrame = NoFrame
    Role <- MCRole
SPECIFICATION Spec
INVARIANTS
    TypeOK
    HandlerKeepsContext
PROPERTIES
    MretResumes
    SoftwareInterruptServed
    TimerInterruptServed
