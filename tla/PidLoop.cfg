SPECIFICATION ClockedSpec
CONSTANTS
    HALF = 4
    PSHIFT = 1
    ISHIFT = 2
    DSHIFT = 1
    KDHALF = 2
    SUMHALF = 32
    GAINMAX = 3
    Settings <- Tuned
    Data <- Errors
    Centers <- LowCenters
    UNIT = 2
    STEPHALF = 4
    GAIN = 2
    Steps = {1}
    Controls <- SeveralControls
    Loops <- Several
    Rewrites <- EngageSeveral
    Mates = {1}
    Offsets = {0}
INVARIANTS
    LoopTypeOK
    WindupIsBounded
PROPERTIES
    OutputIsTheSum
    LeavesTheRail
    SearchIsContinuous
    SearchHoldsTheOutput
    ResetSuppresses
