SPECIFICATION Spec
CONSTANTS
    Modules = {m1, m2}
    Jobs = {j1, j2, j3}
    Workers = {w1, w2}
    Faulty = {}
    Contexts = {c1, c2, c3}
    Emu = emu
    None = none
SYMMETRY Symmetry
CHECK_DEADLOCK FALSE
INVARIANTS
    QueueSound
    ContextsExclusive
    OwnerOutlivesWorkers
    DrainedIsQuiet
    NothingForgotten
