SPECIFICATION Spec
CHECK_DEADLOCK FALSE
CONSTANTS
    Payloads <- MCPayloads
    Order <- MCOrder
    MaxCap = 4
    Enforce = TRUE
    MaxBumps = 3
    MaxLeft = 1
    MaxRestarts = 1
VIEW WithoutAnswer
INVARIANTS CachesCoherent AggIdsPrivate
PROPERTIES RestartKeepsRegistry 
