SPECIFICATION Spec
CONSTANTS
    a = a
    b = b
    g1 = g1
    g2 = g2
    t1 = t1
    t2 = t2
    w1 = w1
    w2 = w2
    e1 = e1
    None = None
    Scheduler = {a, b}
    Setting = {g1, g2}
    Target = {t1}
    Workspace = {w1, w2}
    Execution = {e1}
    LaneId = {1, 2, 3, 4}
    WorkspaceOf <- TwoWorkspaces
    ExecutionOf <- TwoExecutions
    Priorities <- Hovered
    QueueLimit = 1
    Budget = 1
    Events <- TheirEvents
    Outcomes = {"proposal", "unconfirmed"}
    MaxUpdates <- FirstMoves
    MaxRetries = 0
INVARIANTS
    ProviderAlone
    AppliesToCurrent
CONSTRAINT
    BackgroundEarly
CHECK_DEADLOCK FALSE
