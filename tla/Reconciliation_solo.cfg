SPECIFICATION FairSpec
CONSTANTS
    j1 = j1
    j2 = j2
    a1 = a1
    a2 = a2
    GhostThresholdHours = 24
    AutoResolveThreshold = 20
    BatchSize = 1
    Apps = {a1, a2}
    Jobs = {j1}
    Facts <- SoloFacts
    InitialFacts <- AnySoloFacts
    Starts <- SoloStarts
    Settlements = {"ACKNOWLEDGED"}
    MaxMoves = 1
    MaxFaults = 2
INVARIANTS
    CountsMatchRows
    FullJobSettles
PROPERTIES
    RunsEnd
CHECK_DEADLOCK FALSE
