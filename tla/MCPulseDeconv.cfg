CONSTANTS
    Lane = {0}
    MaxLen = 5
    MaxStreams = 1
    Family = "late deconvolutions"
    Models <- MCModels
SPECIFICATION Spec
INVARIANT AnswersAreTheReference
CHECK_DEADLOCK FALSE
