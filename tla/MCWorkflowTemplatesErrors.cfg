CONSTANTS
    Requests = {r1, r2}
    Templates = {t1}
    SeedVersions = {0}
    SeedHistories <- MCHistories
SPECIFICATION Spec
SYMMETRY Symmetry
CHECK_DEADLOCK FALSE
INVARIANT ErrorsAreEarned
