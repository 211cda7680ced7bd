SPECIFICATION FairSpec
CONSTANTS
    OutKeys <- OneOut
    InKeys <- NoKeys
    MaxConn = 2
    MaxHost = 1
    MaxGuest = 0
    Attempts = 1
    Reopen = TRUE
    Lossy = FALSE
PROPERTIES
    UnmappedReleased
CHECK_DEADLOCK FALSE
