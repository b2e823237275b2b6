SPECIFICATION Spec
CONSTANTS
    BufSize = 7
    IntLimit = 8
    Data <- MCData
    Sizes <- MCSizes
    Requests <- MCRequests
INVARIANTS
    TypeOK
    BodyExact
    NotEarly
    Prompt
    NothingLost
