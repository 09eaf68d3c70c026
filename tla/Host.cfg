\* Sessions end, and modules are released.
CHECK_DEADLOCK FALSE
CONSTANTS
    ModuleCount = 2
    Events = {e1}
    NoList = NoList
    Retries = 2
    Images = {i1, i2}
    NoState = NoState
    MaxToggles = 2
    MaxRestarts = 2
    MaxRequests = 2
    MaxSocket = 2
    Rank <- MCRank
    MaxRaw = 1
    Work = 2
    EventBudget = 1
SPECIFICATION Spec
INVARIANTS
    RuntimeSound
    SessionSound
    SocketsSound
PROPERTIES
    HostAnswers
    NoEventAfterTheEnd
