SPECIFICATION HandshakeSpec
INVARIANTS
    OnlyAdvertised
CONSTANTS
    Method <- MCMethod
    Notice <- MCNotice
    On <- MCOn
    Defer <- NothingDeferred
    MaxRequests <- Requests
    MaxNotices <- Updates
    Draft = TRUE
    UsesCeiling = TRUE
    Offers <- AroundCeiling
    Advertised <- MCAdvertised
CHECK_DEADLOCK FALSE
