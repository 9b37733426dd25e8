\* Every graph over three nodes, loops included; every graph over four nodes
\* without a loop, with a minted symbol.
CONSTANTS
    NodeCount = 4
    SymbolCount = 2
    Models <- MCModels

SPECIFICATION FairSpec

INVARIANTS
    TypeOK
    OrderIsPlan
    ConsumersFollowDefiners
    LoopsAreReal
    NextIsFound
    UpstreamIsExact

PROPERTY OrderIsFound

\* A plan is built once.
CHECK_DEADLOCK FALSE
