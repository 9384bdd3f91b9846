CONSTANTS
    r4 = r4
    r3 = r3
    r2 = r2
    r1 = r1
    Requests = {r1,r2,r3,r4}
    Limit = 2
    Window = 3
    Ttl = 4
    FailOpen = TRUE
    MaxTries = 2
    MaxDelay = 1
    Skews = {0}
    MaxTime = 4
SYMMETRY RequestSymmetry
SPECIFICATION Spec
CHECK_DEADLOCK FALSE
INVARIANTS TypeOK CurrentWindow AnyShorterWindow Counted RetryAfterExact
