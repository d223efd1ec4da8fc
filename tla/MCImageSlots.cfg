\* A record of each kind, three uploads, two requests; reads may lag.
SPECIFICATION Spec
CONSTANTS
    Kinds <- AllKinds
    Keys = {k1, k2, k3}
    Procs = {p1, p2}
    Limit = 2
    MaxImages = 2
    NoKey = NoKey
    StaleReads = TRUE
INVARIANTS
    TypeOK
    LimitHolds
    WithinCap
    VerdictIsItsOwn
PROPERTY OnlyRacesOrphan
SYMMETRY Interchangeable
