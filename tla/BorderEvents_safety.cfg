SPECIFICATION FairSpec
CONSTANTS
    h1 = h1
    h2 = h2
    a1 = a1
    k1 = k1
    NoKey = NoKey
    NoRequest = NoRequest
    Nothing = Nothing
    Handlers = {h1, h2}
    Apps = {a1}
    Keys = {k1}
    EventTargets = {"IN_COUNTRY", "EXITED"}
    PatchTargets = {"ACTIVE"}
    PortalStatuses = {"ACTIVE"}
    Expired = {a1}
    MaxHistory = 2
    MaxFaults = 1
INVARIANTS
    UndisturbedChain
PROPERTIES
    RegistersEvents
    RetriedIsAnswered
