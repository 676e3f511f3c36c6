SPECIFICATION AccessSpec
CONSTANTS
    r1 = r1
    r2 = r2
    Requests = {r1, r2}
    MaxAttempts = 1
    CodeLife = 1
    MemoryLife = 2
    TokenLife = 2
    MaxOps = 4
    MaxTicks = 2
    MaxSwitches = 2
    t1 = t1
    t2 = t2
    Tabs = {t1, t2}
    NoTab = NoTab
    Home <- MCHome
    MaxRequests = 3
    MaxVisits = 2
    MaxLogins = 2
    MaxFailures = 1
INVARIANTS
    AccessTypeOK
    CodeIsLimited
    IdlePageIsCurrent
PROPERTIES
    TokenIsRotated
    ValidTokenKept
CHECK_DEADLOCK FALSE
