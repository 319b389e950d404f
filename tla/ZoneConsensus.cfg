SPECIFICATION Spec
CONSTANTS
    Nodes = {n1, n2, n3}
    ZoneSizes = {1, 3}
    Calls = {"put", "lockx"}
    Command <- MCCommand
    ZonePaths <- MCPaths
    Workloads <- MCWorkloads
    MaxTerm = 2
    MaxRestarts = 1
SYMMETRY Symmetry
INVARIANTS
    TypeOK
    AppliedOnce
    ReplicasAgree
    LocksRebuilt
    ReadsLinearizable
CHECK_DEADLOCK FALSE
