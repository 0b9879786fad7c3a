SPECIFICATION Spec
CONSTANTS
    Keys = {k1, k2}
    Values = {v1, v2}
    Clients = {c1, c2}
    MaxSize = 1
    None = None
    Tasks = {t1, t2}
    Handles = {d1, d2}
    Loads = {40, 60}
    Limit = 100
    Concurrency = {1, 2}
    MaxAdjusts = 1
    Callers = {p1, p2, p3}
    MaxTimers = 3
    Configs <- GasConfigs
    UserFees <- Offers
    BaseFees = {0, 30, 900}
    MaxHistory = 2
    MaxBlock = 2
    Addresses = {a1}
    Balances = {0, 1}
    Checkers = {b1, b2}
    CacheTtl = 2
    MaxFetch = 1
    MaxNow = 5
    Wallets = {w1}
    Poor = {}
    Rounders = {r1}
    MaxNonceGap = 1
    MaxNonce = 2
    MaxAlerts = 1
    Members = {m1, m2}
    Worn = {m1}
    Rotators = {o1, o2}
    MaxRotations = 2
    Handlers = {h1, h2}
    MaxRequests = 2
    Weights = {0, 5}
    NewMultipliers = {1, 30}
    CompletionTimes = {10, 90}
    MaxChanges = 2
    Rows = {x1, x2, x3}
    Users = {u1}
    Limits = {1, 3}
    Cap = 2
    MaxMoment = 3
    ServiceConfigs <- StartConfigs
    Usable = {"k1"}
    MaxFlips = 2
    MaxStarts = 1
INVARIANTS
    TypeOK
    StaleNeedsARace
    LoadBound
    StuckOnlyByProbe
    RecommendationsSendable
    HitIsRecent
    GapNeedsRegression
    RotationsBalanced
    ReportErrorBounded
    FactorsNeverDecide
    PagesMissNothing
    ReportTruthful
CHECK_DEADLOCK FALSE
