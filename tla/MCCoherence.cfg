CONSTANTS
    c1 = c1
    c2 = c2
    c3 = c3
    a1 = a1
    a2 = a2
    Cores = {c1, c2, c3}
    Addrs = {a1, a2}
    MaxOps = 6
SYMMETRY MCSymmetry
SPECIFICATION Spec
INVARIANTS
    TypeOK
    SingleWriter
    NoStaleCopy
    CopiesAccounted
