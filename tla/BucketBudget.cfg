CONSTANTS
    r3 = r3
    r2 = r2
    r1 = r1
    Requests = {r1,r2,r3}
    Capacity = 6
    Rate = 2
    Cost = 5
    Ttl = 4
    FailOpen = FALSE
    TicksPerSecond = 2
    MaxTries = 2
    MaxDelay = 1
    Skews = {0}
    MaxTime = 5
    MaxRestarts = 1
SYMMETRY RequestSymmetry
SPECIFICATION Spec
CHECK_DEADLOCK FALSE
INVARIANTS TypeOK Budget InOrderBudget Paid RetryAfterPrecise HeaderWithinSecond
