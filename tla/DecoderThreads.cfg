SPECIFICATION FairPoolSpec
CONSTANTS
    n_decoders_cur = 4
    n_threads = 3
INVARIANTS Exclusive ExactlyOnce
PROPERTY Finishes
CHECK_DEADLOCK FALSE
