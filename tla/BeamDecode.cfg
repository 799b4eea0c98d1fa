SPECIFICATION Spec
CONSTANTS
    Pad = 3
    n_text_ctx = 3
    Garbled = Garbled
    MaxDec = 3
    DecoderCounts = {1, 2, 3}
    BeamSize = 2
    n_max = 2
    PromptLens = {1}
    Tokens = {a, b}
    Sot = Sot
SYMMETRY TokenSymmetry
INVARIANTS SlotAlwaysFound CellsOwned LogitsMatchSequence
PROPERTY PrivateCaches
