SPECIFICATION SessionSpec
CONSTANTS
    Words = 1
    Chunk = 4
    DeltaMin = 1
    MaxInitialTs = 1
    n_text_ctx = 14
    MaxCalls = 2
    MaxDec = 2
    ShortTail = 2
    EntropyLen = 2
    Calls <- SessionCalls
INVARIANTS DecoderConsistent TokenLeft SegmentsInOrder ContextBudget
PROPERTIES SeekAdvances CallReturns
CHECK_DEADLOCK FALSE
