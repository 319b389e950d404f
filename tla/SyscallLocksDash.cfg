SPECIFICATION Spec
CONSTANTS
    Threads = {t1, t2}
    RawPaths <- DashPaths
    Rank <- DashRank
    PasPaths <- DashPas
    MaxHandle = 4
    MaxBatch = 2
INVARIANTS
    NoCircularWait
CHECK_DEADLOCK FALSE
