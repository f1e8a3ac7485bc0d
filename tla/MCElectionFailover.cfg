CONSTANTS
    Node = {1, 2, 3}
    EventCap = 16
    InternalCap = 8
    MaxTerm = 12
    MaxStarts = 1
    MaxCrashes = 1
    Synchronous = TRUE
SPECIFICATION FailoverSpec
INVARIANTS SettledLeaderRuns SettledAgree SettledHighest
CHECK_DEADLOCK FALSE
