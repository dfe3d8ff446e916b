CONSTANTS
    sHigh = sHigh
    sMedium = sMedium
    sLow = sLow
    c1 = c1
    c2 = c2
    Events = {e1}
    Subscriptions = {sHigh, sMedium}
    clientId <- MCClientId
    priority <- MCPriority
    listens <- MCListens
    KafkaHandlers = {"webhook"}
    MaxCrashes = 0
    MaxSignals = 0
    MaxFaults = 1
    MaxDisturbances = 1
SPECIFICATION Spec
CHECK_DEADLOCK FALSE
INVARIANT RejectionReported
