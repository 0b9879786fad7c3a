SPECIFICATION Spec
CONSTANTS
    Tasks = {t1, t2}
    Submitters = {s1}
    Workers = {w1}
    Cancellers = {}
    Readers = {}
    Weights = {1, 3}
    MaxQueueSize = 2
    MaxConcurrent = 1
    MaxRetries = 1
    RetryDelay = 1
    MaxTime = 0
    MaxClears = 0
    None = None
PROPERTIES
    HigherPriorityFirst
CHECK_DEADLOCK FALSE
