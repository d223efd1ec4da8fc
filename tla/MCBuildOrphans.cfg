\* An update that commits between a delete's read and its transaction.
SPECIFICATION Spec
CONSTANTS
    Builds = {b1}
    Refs = {kb, kb2}
    Repeatable = {}
    Parts = {}
    Unborn = Unborn
    Gone = Gone
    Procs = {p1, p2}
    NoTarget = NoTarget
    Nothing = Nothing
    MaxAttempts = 3
    StaleReads = FALSE
INVARIANT NoOrphanMarkers
SYMMETRY Interchangeable
