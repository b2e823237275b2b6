SPECIFICATION Spec
CONSTANTS
    Client = {c1, c2}
    c1 = c1
    c2 = c2
    Names = {"e", "f", "g", "r", "u", "up", "upf", "v", "x", ".."}
    Dotted = {".."}
    Extension <- MCExtension
    Glued <- MCGlued
    Cut <- MCCut
    Paths <- MCPaths
    Tree0 <- MCTree0
    Ino = {"page", "locked", i1, i2}
    i1 = i1
    i2 = i2
    Locked = {"locked"}
    Size0 = 3
    Locations <- MCLocations
    ErrorPages <- MCErrorPages
    Requests <- MCRequests
    BufSize = 2
SYMMETRY Symmetry
INVARIANTS
    TypeOK
    UploadExact
    UploadFound
    GetExact
    ReaderServed
    LengthTrue
CHECK_DEADLOCK FALSE
