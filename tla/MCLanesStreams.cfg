SPECIFICATION Spec
CONSTANTS
    Client = {c1, c2}
    MaxLanes = 3
    MaxSeats = 2
    Cloning = FALSE
    ResetsMayFail = TRUE
    TurnsMayFail = TRUE
    TurnsMayPanic = FALSE
    MaxWidth = 3
    MaxCalls = 3
    MaxSpawns = 2
    NoLease = NoLease
INVARIANTS FirstSeatInOwnLane
PROPERTIES OneStatePerStream
