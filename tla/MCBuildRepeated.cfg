\* One client, one build, and a switch listed twice.
SPECIFICATION Spec
CONSTANTS
    Builds = {b1}
    Refs = {kb, sw}
    Repeatable = {sw}
    Parts = {}
    Unborn = Unborn
    Gone = Gone
    Procs = {p1}
    NoTarget = NoTarget
    Nothing = Nothing
    MaxAttempts = 3
    StaleReads = FALSE
INVARIANT StoredCanBeDeleted
