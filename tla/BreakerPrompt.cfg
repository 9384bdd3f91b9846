CONSTANTS
    Callers = {c1, c2, c3}
    ThresholdNum = 1
    ThresholdDen = 2
    MinimumRequests = 2
    OpenDuration = 3
    HalfOpenMaxRequests = 2
    RollingWindowSize = 3
    AttemptMax = 2
    UnrecordedEnds = FALSE
SPECIFICATION FairSpec
INVARIANT PromptAccounting
PROPERTIES KeepsContract ClosedByProbes HalfOpenNeverStuck
