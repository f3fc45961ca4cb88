SPECIFICATION ClockedSpec
CONSTANTS
    HALF = 4
    PSHIFT = 1
    ISHIFT = 1
    DSHIFT = 1
    KDHALF = 2
    SUMHALF = 32
    GAINMAX = 3
    Settings <- Integrating
    Data = {0, 1}
    Centers = {1}
    UNIT = 2
    STEPHALF = 4
    GAIN = 2
    Steps = {1}
    Controls <- OffCenterControls
    Loops <- OneOffCenter
    Rewrites <- EngageOffCenter
    Mates = {0}
    Offsets = {0}
PROPERTY
    CenterIsOffTheRails
