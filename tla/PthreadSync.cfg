\* The bounded programs end, or wait for a thread that runs on.
CHECK_DEADLOCK FALSE
CONSTANTS
    Threads = {t1, t2, t3}
    Nobody = Nobody
    SequenceMod = 5
    RwlockCalls = 1
    BarrierCalls = 3
    Count = 2
    GenerationMod = 5
    KeyThreads = {t1, t2}
    Slots = 2
    Rounds = 3
    KeyMod = 4
    MaxKeys = 2
    MaxSets = 2
    GuestThreads = {1, 2, 3}
    Main = 0
    SharesEarly = FALSE
SPECIFICATION Spec
INVARIANTS
    SleepersSound
    KeysSound
    ThreadsSound
PROPERTIES
    CallsReturn
