CONSTANTS
    Node = {1, 2, 3}
    Worker = {1, 2, 3}
    NoWorker = NoWorker
    Task = {1, 2}
    MaxRetries <- Once
    BatchSize = 2
    Cycle = 2
    MaxRuns = 2
    MaxCrashes = 0
    MaxHandovers = 1
    MaxFaults = 1
    Overlap = FALSE
    Timely = TRUE
SPECIFICATION OneTroubleSpec
INVARIANTS OneActiveTaskPerWorker
PROPERTIES LeaderNotAssigned
CHECK_DEADLOCK FALSE
