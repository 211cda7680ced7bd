SPECIFICATION FairSpec
CONSTANTS
    N = 1
    c1 = c1
    c2 = c2
    NoCaller = NoCaller
    Callers <- OneCaller
    MaxHandle = 1
    MaxOn = 0
    Guest = "boot"
    SetupMayFail = FALSE
    Network = FALSE
    Serial = FALSE
PROPERTY DestroyReturns
CHECK_DEADLOCK FALSE
