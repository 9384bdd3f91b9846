CONSTANTS
    Requests = {r1, r2}
    Methods = {"GET"}
    Statuses = {200, 503}
    MaxAttempts = 2
    BaseBackoff = 1
    TotalDeadline = 2
    RouteTimeout = 2
    MaxWaits = 1
    Lag = 1
    UnrecordedEnds = TRUE
    OpenDuration = 2
    HalfOpenMaxRequests = 1
    AllowNonIdempotent = FALSE
    ThresholdNum = 1
    ThresholdDen = 2
    MinimumRequests = 2
    RollingWindowSize = 2
SPECIFICATION FairSpec
PROPERTY HalfOpenNeverStuck
