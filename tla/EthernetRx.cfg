SPECIFICATION Spec
CONSTANTS
    RxBufNb = 4
    PoolSize = 6
    MboxSize = 2
INVARIANTS
    TypeOK
    PbufsAccounted
    OverrunIsNoticed
PROPERTIES
    ReceptionResumes
