SPECIFICATION HSpec
CONSTANTS
    StartNs = 1
    Gaps <- MCGaps
    MergeNs = 2
    GraceNs = 2
    EVENTS = 2
    MaxNow = 8
CHECK_DEADLOCK FALSE
INVARIANTS
    NoDifferenceWraps
    CountsTheDrops
    SumsTheDurations
    EventsAreTheHistory
    SinceServoIsTheHistory
