CONSTANTS
    r4 = r4
    r3 = r3
    r2 = r2
    r1 = r1
    Requests = {r1,r2,r3,r4}
    Capacity = 1
    Rate = 1
    Cost = 1
    Ttl = 9
    FailOpen = FALSE
    TicksPerSecond = 1
    MaxTries = 1
    MaxDelay = 2
    Skews = {0}
    MaxTime = 2
    MaxRestarts = 0
SYMMETRY RequestSymmetry
SPECIFICATION Spec
CHECK_DEADLOCK FALSE
INVARIANT BurstThenRate
