SPECIFICATION Spec
CONSTANTS
    q1 = q1
    p1 = p1
    u1 = u1
    Input = {q1, p1, u1}
    Answer = {q1}
    Approval = {p1}
    YieldModes <- BothStores
    MaxTurns = 4
    QueueLimit = 1
    MaxRecoveries = 2
INVARIANTS
    ReadOnce
    OutcomeTrue
    NoneStranded
PROPERTIES
    CancelStays
    HeardEventually
CHECK_DEADLOCK FALSE
