SPECIFICATION Spec
CONSTANTS
    s1 = s1
    s2 = s2
    r1 = r1
    r2 = r2
    t1 = t1
    t2 = t2
    None = None
    Supervisor = {s1, s2}
    Reader = {}
    Clock = {t1, t2}
    Stamps <- OwnClocks
    MaxLog = 3
    MaxEpoch = 2
    MaxCheckpoint = 2
    MaxWaiting = 2
    V1Fails = TRUE
INVARIANTS
    MemoryIsDurable
PROPERTIES
    OneOwner
    ImplementsLog
CHECK_DEADLOCK FALSE
