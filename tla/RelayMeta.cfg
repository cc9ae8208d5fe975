SPECIFICATION RelaySpec
INVARIANTS
    MetaOnEveryType
CONSTANTS
    Schema <- AcpTypes
    ToJson <- MCToJson
    FromJson <- MCFromJson
    IsValue <- MCIsValue
    Types <- MCTypes
    Depth <- MCDepth
    OmitsDefaults = FALSE
    Samples <- MCSamples
    MaxEdits = 1
CHECK_DEADLOCK FALSE
