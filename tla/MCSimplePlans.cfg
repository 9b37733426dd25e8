SPECIFICATION Spec
CONSTANTS
    NodeCount = 3
    Node <- MCNode
    Plans <- SmallPlans
    MaxExtent = 2
    MaxTurns = 3
    Absent = Absent
INVARIANTS TypeOK PrecursorsAreDone ValuesAreOfThisTurn ValuesAreFlushed SymbolsAndPresetsAreReset
    PastLengthIsShared
