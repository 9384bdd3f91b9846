CONSTANTS
    Requests = {r1}
    Methods = {"GET"}
    Statuses = {200, 503}
    MaxAttempts = 2
    BaseBackoff = 1
    TotalDeadline = 2
    RouteTimeout = 2
    MaxWaits = 4
    Lag = 0
    UnrecordedEnds = TRUE
    OpenDuration = 2
    HalfOpenMaxRequests = 1
    AllowNonIdempotent = FALSE
    ThresholdNum = 1
    ThresholdDen = 2
    MinimumRequests = 2
    RollingWindowSize = 2
SPECIFICATION Spec
INVARIANT DeadlineKept
