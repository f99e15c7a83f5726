SPECIFICATION Spec
CONSTANTS
    Conn = {c1, c2}
    MaxConns = 1
    MboxSize = 1
    NumNetbufs = 4
    MallocMayFail = FALSE
    NoConn = NoConn
    Aborted = Aborted
INVARIANTS
    EnoughNetbufs
