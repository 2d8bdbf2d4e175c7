SPECIFICATION FairSpec
CONSTANTS
    n1 = n1
    n2 = n2
    a1 = a1
    a2 = a2
    far = far
    Nodes = {n1, n2}
    Addresses = {a1, a2, far}
    IPAddress <- MCIPAddress
    Routed <- MCRouted
    RetryCount = 2
    Unspecified = unspecified
    Broadcast = broadcast
    MaxFragments = 2
    MaxFrames <- MCMaxFrames
    MaxStops = 1
INVARIANTS
    TypeOK
    QueueMatchesResolution
    TimerIffPending
    InOrder
    RightNeighbour
PROPERTIES
    GivesUpAfterRetries
    NoneWaitsForever
CHECK_DEADLOCK FALSE
