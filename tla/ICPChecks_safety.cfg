SPECIFICATION FairSpec
CONSTANTS
    c1 = c1
    c2 = c2
    c3 = c3
    bad = bad
    NoOne = NoOne
    NoRecord <- NoneBad
    Unreadable <- OnlyC2
    Checks <- ChecksAndBad
    Malformed <- OnlyBad
    MaxFailures = 1
    Cooldown = 1
    HalfOpenMaxAttempts = 1
    Delay = 1
    Hour = 3
    MaxPerHour = 1
INVARIANTS
    TypeOK
    LimiterKept
    LoneCheckSavesOwn
PROPERTIES
    StartedEnds
