CONSTANTS
    Session = {s1, s2}
    Kinds = {"device"}
    Sink = 1
    Block = 2
    Window = 3
    DeviceClones = TRUE
    MaxChunk = 4
    MaxTokens = 6
    MaxBuffers = 5
    WindowTokens = 5
    WindowBuffers = 3
SPECIFICATION Spec
SYMMETRY Symmetry
INVARIANT ViewIsTheHistory
CHECK_DEADLOCK FALSE
