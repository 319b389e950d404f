SPECIFICATION Spec
CONSTANTS
    LockPaths <- MCPaths
    LockIds = {i1, i2, i3}
    Capacities = {1, 2}
    TTLs = {1, 2}
    MaxTime = 2
SYMMETRY Symmetry
INVARIANTS
    TypeOK
    CapacityRespected
    SubtreeExclusive
    LeasesBacked
CHECK_DEADLOCK FALSE
