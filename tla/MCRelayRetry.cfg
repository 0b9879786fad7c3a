SPECIFICATION Spec
CONSTANTS
    Tasks = {t1}
    Submitters = {s1}
    Cancellers = {}
    Weights = {1}
    MaxQueueSize = 1
    MaxRetries = 1
    None = None
    Executor = executor
    Wallets = {w1}
    ConfirmationBlocks = 1
    MaxHeight = 4
    MaxCrashes = 0
PROPERTIES
    FailureIsRetried
CHECK_DEADLOCK FALSE
