CONSTANTS
    Task = {1}
    Worker = {w1, w2}
    NoWorker = NoWorker
    MaxRetries <- Once
    ExecutableURI <- Scripts
    InputURI <- Inputs
    OutputURI <- Outputs
    Stored <- Bucket
    InternalCap = 1
    MaxHandlers = 2
SPECIFICATION NodeSpec
INVARIANTS NodeTypeOK CompletedHasOutput
