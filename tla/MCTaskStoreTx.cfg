CONSTANTS
    Task = {1, 2}
    w1 = w1
    Worker = {w1}
    Scheduler = {s1, s2}
    NoWorker = NoWorker
    MaxRetries <- Twice
    BatchSize = 2
    MaxCalls = 4
SYMMETRY Schedulers
SPECIFICATION BoundedSpec
INVARIANTS TxTypeOK NoCircularWait RecoveryKeepsLease
PROPERTIES ClaimHoldsTask UndisturbedLifecycle
CHECK_DEADLOCK FALSE
