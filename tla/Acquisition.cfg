SPECIFICATION FairSpec
CONSTANTS
    N = 3
    COUNTS = 4
    Decs = {1, 2}
    Delays = {0, 1}
    Procs = {p1}
INVARIANTS
    TdMeansDone
    PreTriggerIsThere
PROPERTIES
    TriggerEndsIt
