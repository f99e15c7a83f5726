SPECIFICATION FairSpec
CONSTANTS
    Conn = {c1, c2}
    MaxConns = 1
    MboxSize = 1
    NumNetbufs = 1
    MallocMayFail = FALSE
    NoConn = NoConn
    Aborted = Aborted
INVARIANTS
    SoleOwner
PROPERTIES
    FailedSessionEnds
    QueuedIsTaken
