SPECIFICATION Spec
CONSTANTS
    Handlers = {h1, h2}
    Identifiers = {i1}
    Addresses = {a1}
    Nonces = {0, 1}
    Minute = 1
    Hour = 3
    Day = 5
    PerMinute = 1
    PerHour = 2
    PerDay = 3
    Window = 2
    MaxRequests = 4
    MaxTime = 4
    Wallets = {w1}
    Pasts <- WalletPasts
SYMMETRY Symmetry
INVARIANTS
    TypeOK
    RateBound
    NonceOncePerWindow
    RecentNonceIsKnown
    RowPerRecord
PROPERTIES
    OnlyABatchReopens
CHECK_DEADLOCK FALSE
