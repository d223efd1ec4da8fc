SPECIFICATION Spec
CONSTANTS
    Builds = {b1}
    Refs = {kb, sw}
    Repeatable = {sw}
    Parts = {}
    Unborn = Unborn
    Gone = Gone
    Procs = {p1, p2}
    NoTarget = NoTarget
    Nothing = Nothing
    MaxAttempts = 2
    StaleReads = TRUE
INVARIANT TypeOK
PROPERTIES
    OnlyStaleDiffDrifts
    GoneStaysGone
SYMMETRY Interchangeable
