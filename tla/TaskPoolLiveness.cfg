SPECIFICATION FairSpec
CONSTANTS
    Modules = {m1, m2}
    Jobs = {j1, j2}
    Workers = {w1, w2}
    Faulty = {w2}
    Contexts = {c1, c2}
    Emu = emu
    None = none
CHECK_DEADLOCK FALSE
PROPERTIES
    ImplementsService
    WorkEnds
