SPECIFICATION FairSpec
CONSTANTS
    UNIT = 2
    RANGE = 8
    STEPHALF = 4
    GAIN = 2
    Steps = {0, 1, 6}
INVARIANTS
    AmplitudeFits
PROPERTIES
    SweepFits
    AmplitudeGrows
    SweepCoversTheRange
    HandsBack
