SPECIFICATION FairSpec
CONSTANTS
    N = 2
    c1 = c1
    c2 = c2
    NoCaller = NoCaller
    Callers <- OneCaller
    MaxHandle = 1
    MaxOn = 1
    Guest = "boot"
    SetupMayFail = FALSE
    Network = FALSE
    Serial = FALSE
PROPERTY StopEndsRun
CHECK_DEADLOCK FALSE
