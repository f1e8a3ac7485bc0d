CONSTANTS
    Node = {1, 2}
    EventCap = 1
    InternalCap = 1
    MaxTerm = 3
    MaxStarts = 2
    MaxCrashes = 1
    Synchronous = FALSE
SPECIFICATION SettledSpec
INVARIANTS TypeOK NoOrphanElection NeverStranded ElectionsSeparated
PROPERTIES StateNeverRegresses
CHECK_DEADLOCK FALSE
