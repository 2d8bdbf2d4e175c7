SPECIFICATION FairSpec
CONSTANTS
    h1 = h1
    null = null
    Handlers = {h1}
    Null = null
    HandlerArgs = {h1}
    Delays = {1}
    Fractions = {0}
    StartDelay = 2
    MaxTasks = 2
    MaxNested = 0
    MaxTime = 3
PROPERTIES
    EventuallyFires
CHECK_DEADLOCK FALSE
