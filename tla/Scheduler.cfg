SPECIFICATION FairSpec
CONSTANTS
    h1 = h1
    null = null
    Handlers = {h1}
    Null = null
    HandlerArgs = {h1, null}
    Delays = {0, 1}
    Fractions = {0, 1}
    StartDelay = 2
    MaxTasks = 4
    MaxNested = 2
    MaxTime = 3
INVARIANTS
    TypeOK
    NoOvertaking
    FiredInItsSecond
    WakeupsCoverTasks
    LossOnlyByReentry
PROPERTIES
    Settles
    ImplementsEventQueue
CHECK_DEADLOCK FALSE
