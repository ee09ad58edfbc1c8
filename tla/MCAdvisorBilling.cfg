\* Two consultations, two limits, one order, two workers, two months, one fault.
SPECIFICATION FairSpec
CONSTANTS
    Consult = {c1, c2}
    Order = {o1}
    Units = 1
    Limits = {1, 2}
    Months = 2
    Worker = {w1, w2}
    MaxChanges = 1
    MaxFaults = 1
INVARIANTS
    TypeOK
    PlanWithinLimit
    UsageBooks
    FreeOnlyByRace
    BalanceAccounts
    CreditedOnce
PROPERTIES
    PaymentsArrive
CHECK_DEADLOCK FALSE
