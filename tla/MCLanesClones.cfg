SPECIFICATION Spec
CONSTANTS
    Client = {c1, c2}
    MaxLanes = 2
    MaxSeats = 2
    Cloning = TRUE
    ResetsMayFail = FALSE
    TurnsMayFail = FALSE
    TurnsMayPanic = FALSE
    MaxWidth = 1
    MaxCalls = 2
    MaxSpawns = 1
    NoLease = NoLease
INVARIANT FirstSeatInOwnLane
