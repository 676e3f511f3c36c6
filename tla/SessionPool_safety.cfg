SPECIFICATION FairSpec
CONSTANTS
    w1 = w1
    w2 = w2
    w3 = w3
    p1 = p1
    p2 = p2
    a1 = a1
    Nobody = Nobody
    Workers = {w1, w2, w3}
    Processes = {p1, p2}
    Home <- MCHome
    AccountList <- OneAccount
    LockTTL = 1
    CooldownDuration = 1
    MaxFailures = 2
    MaxRequestsPerHour = 1
INVARIANTS ExclusiveUnlessDisturbed MarkedUnlessDisturbed HourlyBound
PROPERTY AccountsReturn
