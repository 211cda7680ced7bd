SPECIFICATION Spec
CONSTANTS
    N = 3
    c1 = c1
    c2 = c2
    NoCaller = NoCaller
    Callers <- OneCaller
    MaxHandle = 1
    MaxOn = 3
    Guest = "any"
    SetupMayFail = FALSE
    Network = FALSE
    Serial = FALSE
INVARIANT BootArgsMatch
CHECK_DEADLOCK FALSE
