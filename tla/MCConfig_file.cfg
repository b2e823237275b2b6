SPECIFICATION Spec
CONSTANTS
    Lines <- MCLines
    MaxLines = 6
    Defaults <- MCDefaults
INVARIANTS
    TypeOK
    NoFault
    PortsDistinct
    AsWritten
CHECK_DEADLOCK FALSE
