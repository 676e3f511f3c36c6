SPECIFICATION FairCallsSpec
CONSTANTS
    c1 = c1
    c2 = c2
    c3 = c3
    Callers <- MCCallers
    MaxFailures = 2
    Cooldown = 2
    HalfOpenMaxAttempts = 1
    MaxRequests = 6
PROPERTIES
    CallsMeetGate
    Recovers
