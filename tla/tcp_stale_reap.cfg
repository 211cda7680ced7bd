SPECIFICATION Spec
CONSTANTS
    OutKeys <- OneOut
    InKeys <- NoKeys
    MaxConn = 2
    MaxHost = 1
    MaxGuest = 1
    Attempts = 1
    Reopen = TRUE
    Lossy = FALSE
PROPERTY ReapsFinished
CHECK_DEADLOCK FALSE
