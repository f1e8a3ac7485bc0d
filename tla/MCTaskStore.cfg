CONSTANTS
    Task = {1, 2, 3}
    Worker = {w1, w2}
    NoWorker = NoWorker
    MaxRetries <- MCMaxRetries
SPECIFICATION StoreSpec
INVARIANTS StoreTypeOK ActiveIsLeased TerminalIsUnleased RetryBudget
PROPERTIES TerminalIsFinal ImplementsLifecycle
