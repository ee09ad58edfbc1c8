\* An upgrade without any fault, delay or reader.
SPECIFICATION Spec
CONSTANTS
    Sub = {s1, s2}
    Worker = {w1}
    Reader = {}
    Term = 1
    HeaderIds = TRUE
    InOrder = TRUE
    MaxHooks = 5
    MaxManual = 0
    MaxFaults = 0
    Horizon = 3
INVARIANT
    PaidIsServed
CHECK_DEADLOCK FALSE
