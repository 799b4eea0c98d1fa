SPECIFICATION FairSearchSpec
CONSTANTS
    n_ctx = 6
    BatchSizes = {1, 2, 3, 5, 6, 7}
INVARIANT FailMeansFull
PROPERTIES TakesFirstFit Terminates
CHECK_DEADLOCK FALSE
