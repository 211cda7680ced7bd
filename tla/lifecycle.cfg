SPECIFICATION FairSpec
CONSTANTS
    N = 2
    c1 = c1
    c2 = c2
    NoCaller = NoCaller
    Callers <- TwoCallers
    MaxHandle = 2
    MaxOn = 2
    Guest = "boot"
    SetupMayFail = TRUE
    Network = TRUE
    Serial = TRUE
INVARIANTS
    TypeOK
    NoUseAfterReset
    VcpusGoneBeforeVm
    HvAccounted
    BootArgsMatch
PROPERTIES
    StopSticks
    DestroyReturnsBooted
    CpuOnStarts
CHECK_DEADLOCK FALSE
