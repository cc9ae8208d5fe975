SPECIFICATION ClockSpec
PROPERTIES
    TimedRequestCompletes
CONSTANTS
    Method <- MCMethod
    Notice <- MCNotice
    On <- MCOn
    Defer <- MCDefer
    MaxRequests <- OneRequest
    MaxNotices <- NoNotices
CHECK_DEADLOCK FALSE
