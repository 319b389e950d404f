SPECIFICATION FairSpec
CHECK_DEADLOCK FALSE
CONSTANTS
    p1 = p1
    p2 = p2
    e1 = e1
    e2 = e2
    e3 = e3
    z1 = z1
    z2 = z2
    Procs = {p1, p2}
    Events = {e1, e2, e3}
    ProcOf <- MCProcOf
    ZoneOf <- MCZoneOf
    Renames <- MCRenames
    Workloads <- MCWorkloads
    MaxPending = 2
    FlushRetries = 1
    BatchSize = 2
    MaxRetries = 2
    MaxFaults = 2
INVARIANTS
    TypeOK
    PendingHasTimer
    LoggedOnce
    DeliveredIsAccounted
    ExporterIsServed
PROPERTIES
    RowsSettleWhilePolled
