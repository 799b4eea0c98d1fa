SPECIFICATION Spec
CONSTANTS
    NPredict = 11
    ChunkTokens = {1, 4, 7, 24}
    FirstTokens = {0, 2, 5}
    PromptSlack = 1
    MaxDropped = 1
INVARIANTS
    ChunksTile
    CancelStops
