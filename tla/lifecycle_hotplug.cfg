SPECIFICATION FairSpec
CONSTANTS
    N = 2
    c1 = c1
    c2 = c2
    NoCaller = NoCaller
    Callers <- OneCaller
    MaxHandle = 1
    MaxOn = 2
    Guest = "hotplug"
    SetupMayFail = FALSE
    Network = FALSE
    Serial = FALSE
PROPERTY CpuOnStarts
CHECK_DEADLOCK FALSE
