SPECIFICATION Spec
CONSTANTS
    Users = {u1, u2}
    Names = {n1, n2, n3}
    Procs = {p1, p2}
    NoUser = NoUser
    NoName = NoName
    MaxAttempts = 3
    MaxPerUser = 2
    StaleReads = TRUE
INVARIANTS
    TypeOK
    OneClaimEach
PROPERTIES
    ImplementsRegistry
    OnlyLateUpdateParts
    CreateTakenBySomeoneElse
SYMMETRY Interchangeable
