SPECIFICATION Spec
CONSTANTS
    StartNs = 1
    Gaps = {1, 2}
    MergeNs = 2
    GraceNs = 1
    EVENTS = 2
    MaxNow = 8
CHECK_DEADLOCK FALSE
PROPERTY
    TotalIsMonotonic
