SPECIFICATION Spec
CONSTANTS
    Words = 1
    Chunk = 4
    DeltaMin = 1
    MaxInitialTs = 1
    n_text_ctx = 14
    MaxCalls = 1
    MaxDec = 2
    ShortTail = 2
    EntropyLen = 2
    Calls <- BeamCalls
INVARIANTS OutputIsCurrent
CHECK_DEADLOCK FALSE
