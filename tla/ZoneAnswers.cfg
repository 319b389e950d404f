SPECIFICATION Spec
CONSTANTS
    Nodes = {n1, n2, n3}
    ZoneSizes = {3}
    Calls = {"put", "lockx"}
    Command <- MCCommand
    ZonePaths <- MCPaths
    Workloads <- MCCallsOnly
    MaxTerm = 2
    MaxRestarts = 1
SYMMETRY Symmetry
INVARIANTS
    AnsweredMeansCommitted
CHECK_DEADLOCK FALSE
