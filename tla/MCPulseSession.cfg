CONSTANTS
    Lane = {0, 1}
    MaxLen = 5
    MaxStreams = 2
    Family = "causal"
    Models <- MCModels
SPECIFICATION Spec
INVARIANT TypeOK
INVARIANT AnswersAreTheReference
INVARIANT DeclaredLength
INVARIANT RingsHoldTheLastFrames
CHECK_DEADLOCK FALSE
