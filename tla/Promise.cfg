\* The main thread and one worker; two records, each used once again.
SPECIFICATION FairSpec
CONSTANTS
    Main = main
    Workers = {w}
    MaxRecords = 2
    Generations = 2
    DispatchLimits = {1, 2}
    MaxCreates = 2
    Outcomes = {"Fulfilled"}
    MaxContinuations = 2
    MaxCaptures = 1
    MaxHeld = 1
    MaxDepth = 2
\* The bounded program ends.
CHECK_DEADLOCK FALSE
INVARIANTS
    QueueServed
    ReferencesAccounted
    CallbacksSound
PROPERTIES
    ContinuationsEnd
