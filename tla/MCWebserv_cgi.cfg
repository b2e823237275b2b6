SPECIFICATION FairSpec
CONSTANTS
    Fd = {f1, f2, f3, f4}
    NoFd = NoFd
    Listen = Listen
    BufSize = 2
    FileSizes = {1, 3}
    CgiSizes = {1, 3}
    MaxBody = 2
    MaxOut = 2
    MaxConns = 1
    Faults = {"exec"}
INVARIANTS
    ResponseReady
    ResponseIntact
    RInv
PROPERTIES
    ChildReaped
    BusyEnds
    ResponseEnds
