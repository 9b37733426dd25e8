SPECIFICATION DeviceSpec
CONSTANTS
    NodeCount = 5
    Node <- MCNode
    Plans <- HandedToHost
    MaxExtent = 1
    MaxTurns = 1
    Absent = Absent
    RetainArena = FALSE
INVARIANT ForwardedMemoryIsKept
