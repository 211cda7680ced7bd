SPECIFICATION Spec
CONSTANTS
    OutKeys <- OneOut
    InKeys <- NoKeys
    MaxConn = 3
    MaxHost = 2
    MaxGuest = 0
    Attempts = 1
    Reopen = TRUE
    Lossy = FALSE
INVARIANT GuestGetsPrefix
CHECK_DEADLOCK FALSE
