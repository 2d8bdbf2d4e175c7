SPECIFICATION FairSpec
CONSTANTS
    a = a
    b = b
    w1 = w1
    w2 = w2
    Hosts = {a, b}
    Workers = {w1}
    Buckets = 1
    Queueing = {a}
    MaxMsgs = 2
    MaxFaults = 1
INVARIANTS
    NoLeak
    FirewallHolds
PROPERTIES
    Resolved
CHECK_DEADLOCK FALSE
