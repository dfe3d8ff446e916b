CONSTANTS
    Requests = {r1, r2, r3, r4}
    Emails = {e1}
    MaxFailed = 2
SPECIFICATION Spec
SYMMETRY Symmetry
CHECK_DEADLOCK FALSE
INVARIANTS
    LockEarned
    LoginSupersedes
    DuplicatesOverlap
