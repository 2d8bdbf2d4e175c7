SPECIFICATION Spec
CONSTANTS
    a = a
    b = b
    w1 = w1
    w2 = w2
    Hosts = {a, b}
    Workers = {w1, w2}
    Buckets = 1
    Queueing = {}
    MaxMsgs = 3
    MaxFaults = 0
INVARIANTS
    TypeOK
    OneOutcome
    ReplyOrCollision
    HandedUpOnce
SYMMETRY Sym
CHECK_DEADLOCK FALSE
