CONSTANTS
    Callers = {c1, c2, c3, c4}
    ThresholdNum = 1
    ThresholdDen = 2
    MinimumRequests = 3
    OpenDuration = 2
    HalfOpenMaxRequests = 2
    RollingWindowSize = 4
    AttemptMax = 3
    UnrecordedEnds = TRUE
SYMMETRY CallerSymmetry
SPECIFICATION Spec
INVARIANTS TypeOK ProbeAccounting ProbeBound ThresholdWaitsForFailure
PROPERTY TrippedByFreshEvidence
