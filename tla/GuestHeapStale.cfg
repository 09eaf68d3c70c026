SPECIFICATION StaleSpec
CONSTANTS
    Extent = 2
    Base = 1
    Alignments = {1}
    FirstCapacity = 3
    MaxIndex = 6
    GenerationMod = 4096
INVARIANT StaleReturnsNothing
