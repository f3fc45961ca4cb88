SPECIFICATION ClockedSpec
CONSTANTS
    HALF = 4
    PSHIFT = 1
    ISHIFT = 1
    DSHIFT = 1
    KDHALF = 2
    SUMHALF = 32
    GAINMAX = 3
    Settings <- Integrating
    Data = {0}
    Centers <- BelowZeroCenter
    UNIT = 2
    STEPHALF = 4
    GAIN = 2
    Steps = {1}
    Controls <- BelowZeroControls
    Loops <- OneBelowZero
    Rewrites <- EngageBelowZero
    Mates = {3}
    Offsets = {0}
PROPERTY
    SearchIsContinuous
