SPECIFICATION FairSpec
CONSTANTS
    c1 = c1
    c2 = c2
    Clients = {c1, c2}
    PoolSize = 2
    XIDs = {1, 2}
    MaxFaults = 2
INVARIANTS
    TypeOK
    HeldIsRecorded
    TimersFitState
    AckConfirmsLease
PROPERTIES
    EventuallyBound
