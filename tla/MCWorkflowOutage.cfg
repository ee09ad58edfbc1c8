SPECIFICATION FairSpec
CONSTANTS
    p1 = p1
    p2 = p2
    Process = {p1, p2}
    NoOne = NoOne
    MaxSlot = 1
    MaxRuns = 2
    MaxStarts = 0
    MaxOutages = 1
INVARIANT
    RowIsTheLock
PROPERTY
    FreshLeaderClears
CHECK_DEADLOCK FALSE
