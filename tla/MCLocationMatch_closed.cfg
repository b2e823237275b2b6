SPECIFICATION Spec
CONSTANTS
    Names = {"a", "b", "c.d"}
    Dotted = {"c.d"}
    Configs <- ClosedConfigs
    MaxDepth = 3
INVARIANTS
    TypeOK
    MostSpecific
    RoutesKept
