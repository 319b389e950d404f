SPECIFICATION FFairSpec
CONSTANTS
    m1 = m1
    m2 = m2
    file = file
    id1 = id1
    id2 = id2
    Holders = {m1, m2}
    Resources = {file}
    Calls <- MCReads
    Setups <- MCSetups
    Writes <- MCWrites
    Ttls = {1}
    MaxLag = 0
    ContentIds = {id1, id2}
    FirstId = id1
    MaxVersion = 2
    MaxTime = 1
    NoLease = NoLease
    None = None
    Pending = Pending
    Error = Error
INVARIANTS
    RawReadsFresh
    EntriesSound
PROPERTIES
    ReadsReturn
CHECK_DEADLOCK FALSE
