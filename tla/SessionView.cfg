SPECIFICATION FairViewSpec
INVARIANTS
    ViewInStep
    OnlyRendered
    ViewInv
PROPERTIES
    Mirrors
CONSTANTS
    Method <- MCMethod
    Notice <- MCNotice
    On <- MCOn
    Defer <- NothingDeferred
    MaxRequests <- Requests
    MaxNotices <- Updates
    Schema <- AcpTypes
    OmitsDefaults = TRUE
    ToJson <- MCToJson
    FromJson <- MCFromJson
    Caps <- MCCaps
    Calls <- MCCalls
    NewCall <- MCCall
    Changes <- MCChanges
    Modes <- MCModes
    FirstMode = "ask"
    Final <- MCFinal
    Block <- MCBlock
CHECK_DEADLOCK FALSE
