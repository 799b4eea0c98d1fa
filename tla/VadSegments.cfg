SPECIFICATION Spec
CONSTANTS
    Window = 4
    NProbs = 9
    MinSpeech = 6
    MinSilence = 12
    SilenceAtMax = 4
    MaxSpeech = 14
    SpeechPad = 5
    MergeGap = 6
    PerCs = 2
    Overlap = 3
    Silence = 5
    Slacks = {0, 3}
INVARIANTS SegmentsInOrder SpeechKept CopyFits MapExact
CHECK_DEADLOCK FALSE
