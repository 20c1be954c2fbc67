SPECIFICATION Spec
CONSTANTS
    e1 = e1
    w1 = w1
    None = None
    Edit = {e1}
    Other = {w1}
    Events = {"refusal", "failure", "stale_execution", "quota", "conflict_fetch"}
    MaxOps = 2
    MaxSaves = 1
    MaxEdits = 0
    MaxLosses = 1
    MaxReloads = 2
INVARIANTS
    SentIsJournalled
PROPERTIES
    PendingResolved
CHECK_DEADLOCK FALSE
