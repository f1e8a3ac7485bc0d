CONSTANTS
    Node = {1, 2, 3}
    EventCap = 16
    InternalCap = 8
    MaxTerm = 2
    MaxStarts = 1
    MaxCrashes = 3
    Synchronous = TRUE
SPECIFICATION SettledSpec
INVARIANTS SettledOneLeader
CHECK_DEADLOCK FALSE
