SPECIFICATION FairSpec
CONSTANTS
    h1 = h1
    h2 = h2
    Active = {h1}
    Passive = {h2}
    MaxData <- OneFromActive
    MaxFaults = 1
    RcvWnd = 4
    IW = 1
    MaxRexmit = 1
    MaxSynRexmit = 1
    ISSStep = 10
CHECK_DEADLOCK FALSE
PROPERTIES
    DataArrives
    SetupAndCloseEnd
