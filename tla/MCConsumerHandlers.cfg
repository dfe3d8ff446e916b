CONSTANTS
    Services <- MCServices
    topicsOf <- MCTopicsOf
    MaxMessages = 1
    MaxFaults = 2
    MaxRestarts = 1
    RetryAttempts = 3
    MaxMishaps = 2
SPECIFICATION HandlersLiveSpec
CHECK_DEADLOCK FALSE
INVARIANTS
    InitializedIsRead
    CopiesAccounted
PROPERTIES
    DoneWasEmitted
    DoneWasSent
    HandlerEnds
    EventuallyHandled
