CONSTANTS
    NumSources = 3
    NumTargets = 2
    Levels = {0, 9}
    MaxRaises = 2
SPECIFICATION PlicSpec
INVARIANTS
    PlicTypeOK
    FindsBest
    DeliveredOnce

    
