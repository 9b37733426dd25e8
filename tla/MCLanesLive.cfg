SPECIFICATION FairSpec
CONSTANTS
    Client = {c1, c2}
    MaxLanes = 2
    MaxSeats = 1
    Cloning = TRUE
    ResetsMayFail = TRUE
    TurnsMayFail = TRUE
    TurnsMayPanic = TRUE
    MaxWidth = 2
    MaxCalls = 3
    MaxSpawns = 2
    NoLease = NoLease
PROPERTIES EveryCallerWakesUp JoinReturns
