CONSTANTS
    Node = {1, 2}
    EventCap = 16
    InternalCap = 1
    MaxTerm = 10
    MaxStarts = 3
    MaxCrashes = 2
    Synchronous = TRUE
SPECIFICATION FairSpec
PROPERTIES EventuallyAgreed
CHECK_DEADLOCK FALSE
