\* A program may end, or wait for a thread that runs on.
CHECK_DEADLOCK FALSE
CONSTANTS
    Threads = {1, 2}
    Main = 0
    SharesEarly = TRUE
SPECIFICATION Spec
INVARIANTS
    JoinAwaitsEnd
