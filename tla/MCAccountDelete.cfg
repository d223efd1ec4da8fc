\* One account and the call that deletes it, with two writes at any moment.
SPECIFICATION FairSpec
CONSTANTS
    Procs = {p1}
    Builds = 2
    Start <- SmallAccount
    MaxWrites = 2
    Retries = 1
INVARIANTS
    TypeOK
    PassedIsClean
    OnlyFailureLeavesCopies
PROPERTIES
    ProfileGoesLast
    GoneStaysGone
    EventuallyAnswered
\* When the account is gone and the user has made the last write, nothing happens any more.
CHECK_DEADLOCK FALSE
