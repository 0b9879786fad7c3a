SPECIFICATION Spec
CONSTANTS
    Tasks = {t1, t2}
    Submitters = {s1, s2}
    Workers = {w1, w2}
    Cancellers = {c1}
    Readers = {r1}
    Weights = {1}
    MaxQueueSize = 1
    MaxConcurrent = 1
    MaxRetries = 1
    RetryDelay = 1
    MaxTime = 0
    MaxClears = 1
    None = None
SYMMETRY Symmetry
INVARIANTS
    TypeOK
    OneLiveCopy
    NothingLost
    CancelIsFinal
    OutcomeIsUnique
    NotFoundIsTruthful
PROPERTIES
    LifecycleSpec
