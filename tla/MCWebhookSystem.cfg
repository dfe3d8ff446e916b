CONSTANTS
    Events = {e1}
    Subscriptions = {sHigh}
    clientId <- MCClientId
    priority <- MCPriority
    listens <- MCListens
    KafkaHandlers = {"userAuth"}
    MaxCrashes = 1
    MaxSignals = 1
    MaxFaults = 1
    MaxDisturbances = 1
    Retriers = {r1, r2, r3}
    Limit = 2
    maxRetries <- MCLimit
SPECIFICATION SysSpec
SYMMETRY Symmetry
CHECK_DEADLOCK FALSE
INVARIANTS
    PendingIsAccountedForOrRetried
    AttemptsWithinLimit
    FailedOnlyAfterLimit
    RequeuedHasEntry
PROPERTY ImplementsRetry
