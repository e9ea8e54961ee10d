CONSTANTS
    NumCores = 3
    Cycles = 4
    ReportedStates <- MCReportedStates
SPECIFICATION Spec
INVARIANTS
    TypeOK
    BootViewsAgree
    NoLostRelease
    LockStep
PROPERTY
    RunEnds
CHECK_DEADLOCK FALSE
