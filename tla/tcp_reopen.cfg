SPECIFICATION Spec
CONSTANTS
    OutKeys <- OneOut
    InKeys <- NoKeys
    MaxConn = 2
    MaxHost = 0
    MaxGuest = 2
    Attempts = 1
    Reopen = TRUE
    Lossy = FALSE
INVARIANTS
    HostGetsPrefix
CHECK_DEADLOCK FALSE
