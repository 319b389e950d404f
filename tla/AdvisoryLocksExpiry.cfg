SPECIFICATION Spec
CONSTANTS
    LockPaths <- MCPaths
    LockIds = {i1, i2}
    Capacities = {1, 2}
    TTLs = {1, 2}
    MaxTime = 3
SYMMETRY Symmetry
INVARIANTS
    RefusedOnlyByLiveHolders
CHECK_DEADLOCK FALSE
