\* A delete of a keycap set or a kit over two builds, more than a page may
\* hold, any call of which may fail, next to a client, with lagging reads.
SPECIFICATION CSpec
CONSTANTS
    Builds = {b1, b2}
    kb = kb
    plate = plate
    set = set
    k1 = k1
    c1 = c1
    d1 = d1
    d2 = d2
    Refs = {k1}
    Items <- SetAndKit
    Owns <- OwnsKits
    Holds <- HasKit
    FullPage = 1
    Parts = {}
    Clients <- OneClient
    Deletes <- OneDelete
    Procs <- WithOneDelete
    Repeatable = {}
    Unborn = Unborn
    Gone = Gone
    NoItem = NoItem
    NoTarget = NoTarget
    Nothing = Nothing
    MaxAttempts = 1
    StaleReads = TRUE
INVARIANT CTypeOK
PROPERTIES SuccessIsClean OnlyLateOrMissedDangles
SYMMETRY Interchangeable
