\* Two profiles with one username: a plain update that lands after a rename.
SPECIFICATION Spec
CONSTANTS
    Users = {u1, u2}
    Names = {n1, n2}
    Procs = {p1, p2}
    NoUser = NoUser
    NoName = NoName
    MaxAttempts = 3
    MaxPerUser = 2
    StaleReads = FALSE
INVARIANT UsernamesUnique
SYMMETRY Interchangeable
