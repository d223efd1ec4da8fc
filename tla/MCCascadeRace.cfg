\* Two deletes, of a keyboard, its plate or a build, at work on one build,
\* next to a client, with lagging reads.
SPECIFICATION CSpec
CONSTANTS
    Builds = {b1}
    kb = kb
    plate = plate
    set = set
    k1 = k1
    c1 = c1
    d1 = d1
    d2 = d2
    Refs <- Keyboard
    Items <- Keyboard
    Owns <- OwnsItself
    Holds <- HasPlates
    FullPage = 1
    Parts = {plate}
    Clients <- OneClient
    Deletes <- TwoDeletes
    Procs <- WithTwoDeletes
    Repeatable = {}
    Unborn = Unborn
    Gone = Gone
    NoItem = NoItem
    NoTarget = NoTarget
    Nothing = Nothing
    MaxAttempts = 1
    StaleReads = TRUE
INVARIANT NothingOrphaned
PROPERTY DeletesOnlyUsers
SYMMETRY Interchangeable
