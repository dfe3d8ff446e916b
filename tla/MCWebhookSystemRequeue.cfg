CONSTANTS
    Events = {e1}
    Subscriptions = {sHigh}
    clientId <- MCClientId
    priority <- MCPriority
    listens <- MCListens
    KafkaHandlers = {"userAuth"}
    MaxCrashes = 0
    MaxSignals = 0
    MaxFaults = 0
    MaxDisturbances = 0
    Retriers = {r1}
    Limit = 1
    maxRetries <- MCLimit
SPECIFICATION SysLiveSpec
CHECK_DEADLOCK FALSE
PROPERTY RequeuedIsAttempted
