\* The run waits in one replica and the approval is served by another; nothing fails.
SPECIFICATION Spec
CONSTANTS
    Process = {p1, p2}
    First = p1
    User = {u1}
    Action = {a1, a2}
    MaxWorkers = 3
    MaxClicks = 1
    MaxBounces = 0
    MaxRefusals = 0
    MaxFaults = 0
INVARIANTS
    OneLotPerBuy
CHECK_DEADLOCK FALSE
