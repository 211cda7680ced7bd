SPECIFICATION Spec
CONSTANTS
    OutKeys <- NoKeys
    InKeys <- OneIn
    MaxConn = 1
    MaxHost = 1
    MaxGuest = 1
    Attempts = 1
    Reopen = FALSE
    Lossy = FALSE
PROPERTY TimesOutUnanswered
CHECK_DEADLOCK FALSE
