SPECIFICATION FairSpec
CONSTANTS
    p1 = p1
    p2 = p2
    Process = {p1, p2}
    NoOne = NoOne
    TTL = 6
    RenewIn = 2
    CallTimeout = 1
INVARIANTS
    TypeOK
    ConfidentBeliefIsTrue
PROPERTIES
    TenureSpec
    FailoverHappens
CHECK_DEADLOCK FALSE
