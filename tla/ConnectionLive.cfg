SPECIFICATION FairSpec
INVARIANTS
    Ended
PROPERTIES
    EveryRequestCompletes
    KeepsContract
CONSTANTS
    Method <- MCMethod
    Notice <- MCNotice
    On <- MCOn
    Defer <- MCDefer
    MaxRequests <- Requests
    MaxNotices <- NoNotices
CHECK_DEADLOCK FALSE
