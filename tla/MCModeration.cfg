\* Two deliveries of one event, an owner and an operator; reads may lag.
SPECIFICATION FairSpec
CONSTANTS
    Deliveries = {e1, e2}
    MaxAttempts = 2
INVARIANTS
    TypeOK
    OnlyLagLosesImage
    OnlyLateTagExpires
PROPERTIES
    RejectedIsTagged
    TakedownIsComplete
    EventuallyDecided
