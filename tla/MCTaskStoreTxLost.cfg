CONSTANTS
    Task = {1, 2}
    w1 = w1
    Worker = {w1}
    Scheduler = {s1}
    NoWorker = NoWorker
    MaxRetries <- Twice
    BatchSize = 2
    MaxCalls = 4
SPECIFICATION BoundedSpec
INVARIANTS ActiveIsLeased
CHECK_DEADLOCK FALSE
