CONSTANTS
    Node = {1, 2, 3}
    Worker = {1, 2, 3}
    NoWorker = NoWorker
    Task = {1, 2}
    MaxRetries <- Once
    BatchSize = 2
    Cycle = 2
    MaxRuns = 2
    MaxCrashes = 0
    MaxHandovers = 1
    MaxFaults = 0
    Overlap = TRUE
    Timely = TRUE
SPECIFICATION SystemSpec
INVARIANTS OneActiveTaskPerWorker
CHECK_DEADLOCK FALSE
