SPECIFICATION Spec
CONSTANTS
    j1 = j1
    j2 = j2
    a1 = a1
    a2 = a2
    GhostThresholdHours = 24
    AutoResolveThreshold = 20
    BatchSize = 1
    Apps = {a1, a2}
    Jobs = {j1, j2}
    Facts <- PairFacts
    InitialFacts <- AllGone
    Starts <- PairStarts
    Settlements = {"RESOLVED"}
    MaxMoves = 1
    MaxFaults = 1
INVARIANTS
    GhostsAlerted
    OneOpenUnlessOverlap
    FreshAlertsSent
CHECK_DEADLOCK FALSE
