SPECIFICATION Spec
CONSTANTS
    Parts = {k1, k2}
    Procs = {p1, p2, p3}
    NoPart = NoPart
    StaleReads = TRUE
INVARIANT TypeOK
PROPERTIES OnlyUnclearedDangles OnlyLateClearUndoes OnlyRepeatedAddRevives
SYMMETRY Interchangeable
