SPECIFICATION RelaySpec
INVARIANTS
    RoundTrip
    StableAfterOneHop
CONSTANTS
    Schema <- AcpTypes
    ToJson <- MCToJson
    FromJson <- MCFromJson
    IsValue <- MCIsValue
    Types <- MCTypes
    Depth <- MCDepth
    OmitsDefaults = TRUE
    Samples <- MCSamples
    MaxEdits = 1
CHECK_DEADLOCK FALSE
