SPECIFICATION Spec
INVARIANTS
    TypeOK
    CompletedOnce
    ReplyTyping
    AnsweredOnce
    NoLostRequest
    StreamOrder
    IInv
PROPERTIES
    SilentAfterClose
CONSTANTS
    Method <- MCMethod
    Notice <- MCNotice
    On <- MCOn
    Defer <- MCDefer
    MaxRequests <- Requests
    MaxNotices <- Updates
CHECK_DEADLOCK FALSE
