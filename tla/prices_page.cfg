SPECIFICATION PricesSpec
CONSTANTS
    PriceBodies <- MCPriceBodies
    PricePatches <- MCPricePatches
    PriceFiles <- MCPriceFiles
    ValidModes = {"chat", "completion", "batch"}
    ValidPriceKeys = {"in", "out"}
    maxPriceFixedPoint = 10
    PriceAdmins = {"a1", "a2"}
    PageRows = 2
    MaxPriceWrites = 3
INVARIANTS
    EveryPriceExported
CHECK_DEADLOCK FALSE
