SPECIFICATION Spec
CONSTANTS
    BufSize = 4
    IntLimit = 8
    Data <- MCData
    Sizes <- MCSizes
    Requests <- MCRequests
INVARIANT HandedOver
