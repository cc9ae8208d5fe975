SPECIFICATION CancelSpec
INVARIANTS
    CancelTypeOK
    CancelHitsItsTarget
    CancelMissesNothing
    CancelInv
SYMMETRY Symmetry
CONSTANTS
    Method <- MCMethod
    Notice <- MCNotice
    On <- NothingOn
    Defer <- MCDefer
    MaxRequests <- Requests
    MaxNotices <- Cancels
    Session = {s1, s2}
CHECK_DEADLOCK FALSE
