SPECIFICATION Spec
CONSTANTS
    p1 = p1
    p2 = p2
    Process = {p1, p2}
    NoOne = NoOne
    MaxSlot = 2
    MaxRuns = 3
    MaxStarts = 1
    MaxOutages = 0
SYMMETRY Symmetry
INVARIANTS
    TypeOK
    RowIsTheLock
    OneClaimPerSlot
PROPERTY
    TerminalIsFinal
CHECK_DEADLOCK FALSE
