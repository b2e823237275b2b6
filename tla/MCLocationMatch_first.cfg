SPECIFICATION Spec
CONSTANTS
    Names = {"a", "b", "c.d"}
    Dotted = {"c.d"}
    Configs <- AllConfigs
    MaxDepth = 2
INVARIANT MostSpecific
