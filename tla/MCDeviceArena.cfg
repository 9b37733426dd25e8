SPECIFICATION DeviceSpec
CONSTANTS
    NodeCount = 4
    Node <- MCNode
    Plans <- ForwardingPlans
    MaxExtent = 2
    MaxTurns = 2
    Absent = Absent
    RetainArena = TRUE
INVARIANTS DeviceTypeOK PartitionsDoNotConflict ReadsAreIntact HeldViewsAreIntact
