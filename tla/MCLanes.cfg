SPECIFICATION Spec
CONSTANTS
    Client = {c1, c2, c3}
    MaxLanes = 2
    MaxSeats = 2
    Cloning = TRUE
    ResetsMayFail = TRUE
    TurnsMayFail = TRUE
    TurnsMayPanic = TRUE
    MaxWidth = 2
    MaxCalls = 3
    MaxSpawns = 2
    NoLease = NoLease
SYMMETRY Symmetry
INVARIANTS TypeOK LeasesAreExclusive LaneAccounting SeatingIsValid StreamIsolation
    NoStrandedCall CallersAreOwed OldestFirst FullTurns
PROPERTIES LiveLaneKeepsItsHistory
