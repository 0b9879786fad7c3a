SPECIFICATION Spec
CONSTANTS
    Tasks = {t1, t2}
    Submitters = {s1, s2}
    Cancellers = {c1}
    Weights = {1}
    MaxQueueSize = 1
    MaxRetries = 1
    None = None
    Executor = executor
    Wallets = {w1, w2}
    ConfirmationBlocks = 1
    MaxHeight = 4
    MaxCrashes = 1
SYMMETRY Symmetry
INVARIANTS
    TypeOK
    CancelledNeverSent
    SentOnce
    PendingHasOwner
    ConfirmedIsDeep
    PoolAgreesWithResults
PROPERTIES
    RowMovesForward
CHECK_DEADLOCK FALSE
