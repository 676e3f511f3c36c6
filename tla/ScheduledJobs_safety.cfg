SPECIFICATION Spec
CONSTANTS
    a1 = a1
    a2 = a2
    NoAlert = NoAlert
    Alerts = {a1, a2}
    Risk <- MCRisk
    Channels <- MCChannels
    Settlements = {"ACKNOWLEDGED"}
    Step = 35
    MaxClock = 2
    MaxStarts = 2
    MaxRuns = 1
    MaxMoves = 1
INVARIANTS
    TypeOK
    OneRunPerJob
PROPERTIES
    SettledStaysQuiet
    OverdueEscalated
CHECK_DEADLOCK FALSE
