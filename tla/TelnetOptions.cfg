SPECIFICATION Spec
CONSTANTS
    Opt = {"echo", "sga", "ttype"}
    ConsoleOpts <- MCConsoleOpts
    UsWill = {"echo", "ttype"}
    HimDo = {}
    PeerDo = {"ttype"}
    PeerWill = {"ttype"}
    PeerRefuses = {"echo"}
    Heap <- MCHeap
    MaxLines = 2
    MaxAsks = 2
CHECK_DEADLOCK FALSE
INVARIANTS
    TypeOK
    Agreement
    LastRequestWins
PROPERTIES
    Settles
