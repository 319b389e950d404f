SPECIFICATION Spec
CONSTANTS
    Threads = {t1, t2}
    RawPaths <- TreePaths
    Rank <- TreeRank
    PasPaths <- TreePas
    MaxHandle = 4
    MaxBatch = 2
INVARIANTS
    NoLostWakeup
CHECK_DEADLOCK FALSE
