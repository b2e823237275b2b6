SPECIFICATION Spec
CONSTANTS
    Browser = {b1, b2}
    Server = {v1, v2}
    Lane = {l1, l2}
    MaxId = 2
    MaxRun = 2
    NoOne = NoOne
SYMMETRY Symmetry
INVARIANTS
    TypeOK
    OwnSession
    SidApart
    SessionKept
    ConfirmedOnce
CHECK_DEADLOCK FALSE
