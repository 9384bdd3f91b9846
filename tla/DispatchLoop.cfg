CONSTANTS
    Requests = {r1, r2}
    Methods = {"GET", "POST"}
    Statuses = {200, 503, 600}
    MaxAttempts = 2
    BaseBackoff = 1
    TotalDeadline = 2
    RouteTimeout = 1
    MaxWaits = 2
    Lag = 1
    UnrecordedEnds = TRUE
    OpenDuration = 2
    HalfOpenMaxRequests = 1
    AllowNonIdempotent = FALSE
    ThresholdNum = 1
    ThresholdDen = 1
    MinimumRequests = 2
    RollingWindowSize = 2
SPECIFICATION FairSpec
INVARIANTS TypeOK DeadlineShared SentOnce
PROPERTIES UsesBreaker Answered
