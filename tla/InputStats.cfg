SPECIFICATION FairSpec
CONSTANTS
    Decs = {1024, 8192}
    Default = 1024
    BuffersPerWindow <- MCBuffersPerWindow
    Channels = {in1, in2}
    Consumers = {c1}
    MaxRequests = 2
    MaxStarts = 2
    MaxCrashes = 1
CHECK_DEADLOCK FALSE
INVARIANTS
    TypeOK
    WindowsArePure
    ChannelsArePublishedTogether
    InUseIsStored
PROPERTIES
    RequestsAreServed
    StopCompletes
    LabelCatchesUp
