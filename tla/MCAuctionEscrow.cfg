\* Three users, two auctions with extension, two requests, one lost transaction.
SPECIFICATION FairSpec
CONSTANTS
    A = A
    B = B
    User <- MCUser
    Auction = {A, B}
    Seller <- MCSeller
    Ask <- MCAsk
    Reserve <- MCReserve
    Increment = 1
    Window = 2
    Duration = 1
    Funds <- MCFunds
    Loop = loop
    Session = {loop, s1, s2}
    MaxRequests = 2
    MaxAborts = 1
    MaxPrice = 3
    Horizon = 3
INVARIANTS
    TypeOK
    BooksBalance
    MoneyConserved
    TopHoldsFunds
    SettledClean
PROPERTIES
    LedgerSpec
    EventuallySettled
\* The system stops when the requests are used up and every auction is closed.
CHECK_DEADLOCK FALSE
