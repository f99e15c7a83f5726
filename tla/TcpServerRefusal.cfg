SPECIFICATION Spec
CONSTANTS
    Conn = {c1, c2, c3}
    MaxConns = 2
    MboxSize = 2
    NumNetbufs = 6
    MallocMayFail = FALSE
    NoConn = NoConn
    Aborted = Aborted
PROPERTIES
    RefusedOnlyWhenFull
