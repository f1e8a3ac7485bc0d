CONSTANTS
    Node = {1, 2, 3}
    Worker = {1, 2, 3}
    NoWorker = NoWorker
    Task = {1}
    MaxRetries <- Twice
    BatchSize = 2
    Cycle = 2
    MaxRuns = 2
    MaxCrashes = 1
    MaxHandovers = 0
    MaxFaults = 0
    Overlap = FALSE
    Timely = TRUE
SPECIFICATION FairSystemSpec
INVARIANTS SystemTypeOK ExclusiveExecution SchedulingHasOwner
PROPERTIES TasksEnd
CHECK_DEADLOCK FALSE
