SPECIFICATION Spec
CONSTANTS
    Conn = {c1, c2, c3}
    MaxConns = 2
    MboxSize = 2
    NumNetbufs = 2
    MallocMayFail = TRUE
    NoConn = NoConn
    Aborted = Aborted
SYMMETRY Symmetry
INVARIANTS
    TypeOK
    AdmissionBound
    CounterInRange
    CounterInv
    NetbufInv
    SoleOwner
PROPERTIES
    LostPlacesStayLost
