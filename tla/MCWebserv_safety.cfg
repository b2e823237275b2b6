SPECIFICATION Spec
CONSTANTS
    Fd = {f1, f2, f3, f4}
    NoFd = NoFd
    Listen = Listen
    BufSize = 2
    FileSizes = {0, 3}
    CgiSizes = {0, 1}
    MaxBody = 1
    MaxOut = 2
    MaxConns = 2
    Faults = {"io", "exec", "gone", "slow", "tree", "cut"}
SYMMETRY Symmetry
INVARIANTS
    IInv
    TypeOK
    FilesOwned
    QuietWhileBusy
    FreshEvents
    NoSelfError
    NeverForgotten
    ChildWaited
    DescriptorsAccounted
    ResponseIntact
PROPERTY ImplementsExchange
