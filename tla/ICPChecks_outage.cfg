SPECIFICATION Spec
CONSTANTS
    c1 = c1
    c2 = c2
    c3 = c3
    bad = bad
    NoOne = NoOne
    NoRecord <- OnlyC1
    Unreadable <- OnlyC2
    Checks <- ThreeChecks
    Malformed <- NoneBad
    MaxFailures = 2
    Cooldown = 1
    HalfOpenMaxAttempts = 1
    Delay = 1
    Hour = 2
    MaxPerHour = 3
INVARIANTS
    OutageOpensCircuit
