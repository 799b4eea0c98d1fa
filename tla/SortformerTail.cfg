SPECIFICATION Spec
CONSTANTS
    Options <- TailOptions
    num_spks = 2
    spkcache_len = 4
    fifo_len = 2
    spkcache_update_period = 2
    A_sil = 1
    Speakers = {1, 2}
    MinSegment = 1
    Blocks = {1, 3}
    MaxPlain = 5
    MaxCached = 9
    MaxFailures = 0
INVARIANT TailDiarized
CHECK_DEADLOCK FALSE
