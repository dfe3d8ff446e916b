SPECIFICATION Spec
CONSTANTS
    d1 = d1
    d2 = d2
    login = login
    order = order
    Deliveries = {d1, d2}
    Types = {login, order}
    eventType <- MCEventType
    Day = 2
    MaxTime = 3
    MaxWrites = 3
INVARIANTS
    TypeOK
    RecentCounted
    FiguresAddUp
CHECK_DEADLOCK FALSE
