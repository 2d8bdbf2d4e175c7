SPECIFICATION Spec
CONSTANTS
    Base = 4
    WordSize = 2
    SenderIDs <- AllIDs
    ReceiverIDs <- FewerIDs
    Payloads = {0, 3}
INVARIANTS
    RoundTrip
    RefusedForCause
    NoMisdelivery
CHECK_DEADLOCK FALSE
