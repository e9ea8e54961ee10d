CONSTANTS
    NumCores = 3
    Cores <- MCCores
    Lengths <- MCLengths
    MaxCost = 3
    Text = 2
SPECIFICATION HelloSpec
INVARIANTS
    MutualExclusion
    WholeLines
PROPERTIES
    EveryCoreGreets
