SPECIFICATION FairSpec
CONSTANTS
    OutKeys <- OneOut
    InKeys <- OneIn
    MaxConn = 1
    MaxHost = 2
    MaxGuest = 2
    Attempts = 2
    Reopen = FALSE
    Lossy = TRUE
CONSTRAINT FewBytes
INVARIANTS
    TypeOK
    HostGetsPrefix
    GuestGetsPrefix
    EndedIsQueued
PROPERTIES
    HandshakeEnds
CHECK_DEADLOCK FALSE
