SPECIFICATION FairSpec
CONSTANTS
    Fd = {f1, f2, f3}
    NoFd = NoFd
    Listen = Listen
    BufSize = 2
    FileSizes = {2}
    CgiSizes = {1}
    MaxBody = 1
    MaxOut = 1
    MaxConns = 1
    Faults = {"exec"}
PROPERTY ReadAllReported
