SPECIFICATION FairLoopSpec
INVARIANTS
    LoopTypeOK
    TurnIsWhole
    PermissionBeforeAnswer
    SlotNamesDebt
    SessionsDistinct
    QuiescentBetweenRequests
    LoopInv
PROPERTIES
    TurnEnds
CONSTANTS
    Method <- MCMethod
    Notice <- MCNotice
    On <- MCOn
    Defer <- MCDefer
    MaxRequests <- Requests
    MaxNotices <- Updates
CHECK_DEADLOCK FALSE
