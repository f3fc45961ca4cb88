SPECIFICATION FairSpec
CONSTANTS
    Readers = {r1}
    SEQMOD = 8
    STALE = 1
    MaxTries = 2
    MaxTime = 3
    MaxVersions = 3
    MaxStarts = 2
    MaxCrashes = 1
INVARIANTS
    TypeOK
    TornOnlyIfReused
    ServedCallsSucceed
    DeadCallsFail
PROPERTY
    CallsReturn
