CONSTANTS
    K = 2
    Entries = 2
    Ptes <- MCPtes
    Uncached <- MCUncached
    TablePage = 1
    Programs <- MCMapOnce
    MaxStores = 5
SPECIFICATION Spec
INVARIANTS
    TypeOK
    TlbWellFormed
    TlbFresh
    TlbTransparent
