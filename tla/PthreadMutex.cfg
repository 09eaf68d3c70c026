\* The bounded program ends.
CHECK_DEADLOCK FALSE
CONSTANTS
    Threads = {t1, t2, t3}
    Nobody = Nobody
    CountMax = 2
    MaxCalls = 3
SPECIFICATION FairSpec
INVARIANTS
    MutexSafe
    NoLostWakeup
PROPERTIES
    ImplementsMutex
    EveryCallReturns
