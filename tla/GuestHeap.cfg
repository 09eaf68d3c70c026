SPECIFICATION Spec
CONSTANTS
    Extent = 5
    Base = 1
    Alignments = {1, 2}
    FirstCapacity = 3
    MaxIndex = 6
    GenerationMod = 1
INVARIANTS HeapSound MovesSound
PROPERTY MovesAgreed
VIEW Renamed
