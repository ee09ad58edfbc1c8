\* A cancelled or purchased listing with a bid on it.
SPECIFICATION FairSpec
CONSTANTS
    A = A
    B = B
    User <- MCUser
    Auction = {A, B}
    Seller <- MCSeller
    Ask <- MCAsk
    Reserve <- MCReserve
    Increment = 1
    Window = 2
    Duration = 1
    Funds <- MCFunds
    Loop = loop
    Session = {loop, s1, s2}
    MaxRequests = 2
    MaxAborts = 0
    MaxPrice = 3
    Horizon = 3
INVARIANTS
    LosersRefunded
CHECK_DEADLOCK FALSE
