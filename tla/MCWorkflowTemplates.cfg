CONSTANTS
    Requests = {r1, r2, r3}
    Templates = {t1}
    SeedVersions = {0}
    SeedHistories <- MCHistories
SPECIFICATION Spec
SYMMETRY Symmetry
CHECK_DEADLOCK FALSE
INVARIANTS
    NoSaveLost
    ContentHasVersion
    NumberedInOrder
PROPERTY NoContentReturns
