SPECIFICATION Spec
CONSTANTS
    Nodes = {n1, n2, n3, n4, n5}
    ZoneSizes = {5}
    Calls = {"put"}
    Command <- MCCommand
    ZonePaths = {}
    Workloads <- MCCallsOnly
    MaxTerm = 3
    MaxRestarts = 0
SYMMETRY Symmetry
INVARIANTS
    CommittedStays
CHECK_DEADLOCK FALSE
