CONSTANTS
    a1 = a1
    a2 = a2
    b1 = b1
    Requests <- MCRequests
    Gates <- MCGates
    PathOf <- MCPathOf
    Limit <- MCLimit
    QueueTimeout = 2
SPECIFICATION FairSpec
INVARIANTS TypeOK SlotsConserved NoLostWakeup WaitBounded NoGridlock InFlightExact CleanShutdown
PROPERTIES UsesGates Served ShutsDown
