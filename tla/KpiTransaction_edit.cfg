SPECIFICATION Spec
CONSTANTS
    e1 = e1
    w1 = w1
    None = None
    Edit = {e1}
    Other = {w1}
    Events = {"refresh", "load", "stale_execution", "conflict_fetch", "leave"}
    MaxOps = 2
    MaxSaves = 1
    MaxEdits = 1
    MaxLosses = 1
    MaxReloads = 1
INVARIANTS
    TypeOK
    SavesOwnWork
    RejectedNotSaved
PROPERTIES
    EditsKept
CHECK_DEADLOCK FALSE
