SPECIFICATION Spec
CONSTANTS
    Opt = {"echo", "sga"}
    ConsoleOpts <- MCConsoleOpts
    UsWill = {"echo"}
    HimDo = {}
    PeerDo = {}
    PeerWill = {}
    PeerRefuses = {}
    Heap <- MCHeap
    MaxLines = 0
    MaxAsks = 0
CHECK_DEADLOCK FALSE
INVARIANTS
    RFC1143
