CONSTANTS
    r1 = r1
    r2 = r2
    Requests = {r1, r2}
    mayAsk <- MCMayAsk
    Keys = {k1}
    NoKey = NoKey
    MaxDay = 2
    MaxFaults = 1
    MaxSignals = 1
SPECIFICATION LiveSpec
CHECK_DEADLOCK FALSE
INVARIANTS
    HandledWasAuthorized
    StoppedForCause
    CutOnlyBySignal
PROPERTY EveryoneIsAnswered
