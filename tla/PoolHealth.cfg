CONSTANTS
    Instances <- MCInstances
    Weight <- MCWeight
    Broken <- MCBroken
    FailureThreshold = 3
    SuccessThreshold = 2
SPECIFICATION Spec
INVARIANTS TypeOK SelectsHealthy FairTurn
PROPERTIES Hysteresis Converges
