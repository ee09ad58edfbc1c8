\* One replica that crashes and recovers, before or after the users decide; two users.
SPECIFICATION Spec
CONSTRAINT Telling
CONSTANTS
    Process = {p1}
    First = p1
    User = {u1, u2}
    Action = {a1, a2}
    MaxWorkers = 3
    MaxClicks = 2
    MaxBounces = 1
    MaxRefusals = 1
    MaxFaults = 1
INVARIANTS
    TypeOK
    CompletedIsBooked
PROPERTIES
    RejectedNeverTrades
    ApprovedResumes
CHECK_DEADLOCK FALSE
