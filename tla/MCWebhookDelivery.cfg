CONSTANTS
    sHigh = sHigh
    sMedium = sMedium
    sLow = sLow
    c1 = c1
    c2 = c2
    Events = {e1}
    Subscriptions = {sHigh, sMedium}
    clientId <- MCClientId
    priority <- MCPriority
    listens <- MCListens
    KafkaHandlers = {"webhook", "userAuth", "none"}
    MaxCrashes = 1
    MaxSignals = 1
    MaxFaults = 2
    MaxDisturbances = 2
SPECIFICATION LiveSpec
CHECK_DEADLOCK FALSE
INVARIANTS
    TypeOK
    PendingIsAccountedFor
    CommittedIsSettled
    NoticeTrueIfId
    NotifiedPerChannel
PROPERTY EventuallyDelivered
