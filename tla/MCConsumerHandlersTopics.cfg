CONSTANTS
    Services <- MCServices
    topicsOf <- MCTopicsOf
    MaxMessages = 1
    MaxFaults = 0
    MaxRestarts = 0
    RetryAttempts = 3
    MaxMishaps = 0
SPECIFICATION HandlersLiveSpec
CHECK_DEADLOCK FALSE
INVARIANT HandledByItsService
