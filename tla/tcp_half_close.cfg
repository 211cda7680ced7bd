SPECIFICATION Spec
CONSTANTS
    OutKeys <- OneOut
    InKeys <- NoKeys
    MaxConn = 1
    MaxHost = 1
    MaxGuest = 1
    Attempts = 1
    Reopen = FALSE
    Lossy = FALSE
PROPERTY NoResetOfOpen
CHECK_DEADLOCK FALSE
