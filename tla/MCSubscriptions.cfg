\* An upgrade from one subscription to another, four webhooks in any order.
SPECIFICATION Spec
CONSTANTS
    Sub = {s1, s2}
    Worker = {w1, w2}
    Reader = {q1}
    Term = 1
    HeaderIds = TRUE
    InOrder = FALSE
    MaxHooks = 4
    MaxManual = 1
    MaxFaults = 1
    Horizon = 2
INVARIANTS
    TypeOK
    ServedIsPaid
    AppliedOnce
SYMMETRY Symmetry
CHECK_DEADLOCK FALSE
