CONSTANTS
    a1 = a1
    a2 = a2
    b1 = b1
    Requests <- MCRequests
    Gates <- MCGates
    PathOf <- MCPathOf
    Limit <- MCLimit
    QueueTimeout = 1
SPECIFICATION ServerFairSpec
PROPERTIES ShutsDown
