CONSTANTS
    Session = {s1, s2}
    Kinds = {"dyn", "inplace", "window", "key", "value", "device"}
    Sink = 1
    Block = 2
    Window = 3
    DeviceClones = FALSE
    MaxChunk = 4
    MaxTokens = 6
    MaxBuffers = 5
    WindowTokens = 5
    WindowBuffers = 3
SPECIFICATION Spec
SYMMETRY Symmetry
INVARIANT TypeOK
INVARIANT ViewIsTheHistory
INVARIANT PastLengthIsTheHistory
INVARIANT HandedOutAreIntact
INVARIANT GrowthIsGeometric
CHECK_DEADLOCK FALSE
