SPECIFICATION FetchersSpec
CONSTANTS
    p1 = p1
    p2 = p2
    NoOne = NoOne
    Passports = {p1, p2}
    Text <- MCText
    Statuses = {"ACTIVE"}
    Retries = 2
    MaxAttempts = 1
    MaxMoves = 1
    MaxTicks = 1
    MaxLapses = 1
    MaxFaults = 2
    MaxMishaps = 2
    c1 = c1
    c2 = c2
    Callers = {c1, c2}
    Asked <- MCAsked
    ByPassport = {c1}
    Pages <- MCPages
    Shown <- MCShown
    FormPage <- Blank
    GRetries = 2
    MaxBreaks = 1
INVARIANTS
    FetchersTypeOK
    OwnStatusUnlessLate
    LogTellsOutcome
    LiveSessionKept
    FetcherTidy
    ResultsAreTold
CHECK_DEADLOCK FALSE
