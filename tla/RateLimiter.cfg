CONSTANTS
    Slots = {a, b, c}
    Max = 2
    Window = 3
    Latency = 2
    RedisMayFail = TRUE
    MaxTime = 4
    MaxArrivals = 5
SPECIFICATION Spec
CHECK_DEADLOCK FALSE
INVARIANT OvershootBounded
PROPERTY RejectedOnlyAtLimit
