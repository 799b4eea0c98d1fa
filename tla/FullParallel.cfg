SPECIFICATION Spec
CONSTANTS
    Processors = {2, 3}
    Sizes = {11, 16}
    Offsets = {0, 15}
    PerCs = 3
    HalfRange = 100000
    Overshoot = 1
    MaxSegs = 2
    MaxCalls = 2
INVARIANTS NothingLost ChunksCover TimesShifted
CHECK_DEADLOCK FALSE
