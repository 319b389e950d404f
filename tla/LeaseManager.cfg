SPECIFICATION FairSpec
CONSTANTS
    h1 = h1
    h2 = h2
    r1 = r1
    Holders = {h1, h2}
    Resources = {r1}
    Calls <- MCCalls
    Ttls = {1}
    MaxLag = 1
    MaxTime = 2
    NoLease = NoLease
INVARIANTS
    TypeOK
    Exclusion
    IndexesAgree
PROPERTIES
    ImplementsLeaseService
    AcquireReturns
