SPECIFICATION PortalSpec
CONSTANTS
    c1 = c1
    bad1 = bad1
    bad2 = bad2
    NoOne = NoOne
    NoRecord <- MCNoRecord
    Unreadable <- MCUnreadable
    Checks <- MCChecks
    Malformed <- MCMalformed
    MaxFailures = 1
    Cooldown = 2
    HalfOpenMaxAttempts = 1
    Delay = 1
    Hour = 2
    MaxPerHour = 2
    MinInterval = 1
    MaxSpots = 2
    MaxSpotChecks = 2
PROPERTIES
    ImplementsGate
