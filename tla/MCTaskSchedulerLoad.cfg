SPECIFICATION FairSpec
CONSTANTS
    Tasks = {t1, t2, t3}
    Submitters = {s1, s2}
    Workers = {w1}
    Cancellers = {}
    Readers = {}
    Weights = {1, 4}
    MaxQueueSize = 1
    MaxConcurrent = 1
    MaxRetries = 1
    RetryDelay = 1
    MaxTime = 1
    MaxClears = 0
    None = None
INVARIANTS
    QueueBound
PROPERTIES
    EndsUnlessOvertaken
CHECK_DEADLOCK FALSE
