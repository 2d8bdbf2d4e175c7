SPECIFICATION Spec
CONSTANTS
    h1 = h1
    h2 = h2
    Active = {h1}
    Passive = {h2}
    MaxData <- TwoFromActive
    MaxFaults = 1
    RcvWnd = 4
    IW = 2
    MaxRexmit = 1
    MaxSynRexmit = 1
    ISSStep = 10
INVARIANTS
    TypeOK
    StreamIntegrity
    FinAfterData
    Agreement
    TimerIffOutstanding
    TimersFitState
    IndicationOrder
CHECK_DEADLOCK FALSE
