SPECIFICATION Spec
CONSTANTS
    Handlers = {h1, h2}
    Identifiers = {i1}
    Addresses = {a1}
    Nonces = {0, 1}
    Minute = 1
    Hour = 2
    Day = 3
    PerMinute = 2
    PerHour = 2
    PerDay = 3
    Window = 2
    MaxRequests = 4
    MaxTime = 3
    Wallets = {w1}
    Pasts <- WalletPasts
PROPERTIES
    RetryIsWelcome
CHECK_DEADLOCK FALSE
