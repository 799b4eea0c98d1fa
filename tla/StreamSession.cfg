SPECIFICATION FairSpec
CONSTANTS
    Options <- MCOptions
    hop_length = 1
    subsampling = 2
    window_n = 2
    hangover_n = 2
    Blocks = {1, 3, 5}
    MaxSamples = 13
    MaxFailures = 1
INVARIANTS BuffersContiguous SegmentsTile AlignedFramesDecodedOnce VadTold
PROPERTY CallsReturn
CHECK_DEADLOCK FALSE
