\* Two processes, three keys, the smallest windows that the assumption allows.
SPECIFICATION FairSpec
CONSTANTS
    Process = {p1, p2}
    TTL = 1
    Keep = 1
    RingWindow = 1
    Interval = 1
    MaxKeys = 3
    MaxQueue = 1
    MaxFaults = 2
    Horizon = 2
INVARIANTS
    TypeOK
    FreshTokensVerify
    NewestSigns
PROPERTIES
    AcceptedStaysAccepted
    RotationHappens
\* The clock stops at the horizon.
CHECK_DEADLOCK FALSE
