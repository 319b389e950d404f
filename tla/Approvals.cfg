SPECIFICATION FairSpec
CONSTANTS
    c1 = c1
    c2 = c2
    o1 = o1
    o2 = o2
    w1 = w1
    w2 = w2
    s1 = s1
    hub = hub
    None = None
    Workers = {w1, w2}
    Callers = {c1, c2}
    Operators = {o1}
    Sessions = {s1, hub}
    RealSessions = {s1}
    WorkerOf <- MCWorkerOf
    SessionOf <- MCSessionOf
    TimeoutOf <- MCTimeoutOf
    AutoDeny = 1
    Grace = 1
    Scopes = {"once", "session", "persist"}
    MaxFaults = 1
    MaxTime = 2
INVARIANTS
    TypeOK
    AuditExact
    AnswersHonest
    GrantsComeFromOperators
    ExpiredInTime
PROPERTIES
    TimeoutIsTrue
    DecisionReachesWaiters
CHECK_DEADLOCK FALSE
