SPECIFICATION FairSpec
CONSTANTS
    Tasks = {t1, t2}
    Submitters = {s1}
    Cancellers = {}
    Weights = {1}
    MaxQueueSize = 1
    MaxRetries = 0
    None = None
    Executor = executor
    Wallets = {w1}
    ConfirmationBlocks = 1
    MaxHeight = 3
    MaxCrashes = 0
PROPERTIES
    MinedIsReported
CHECK_DEADLOCK FALSE
