SPECIFICATION Spec
CONSTANTS
    a = a
    b = b
    g1 = g1
    g2 = g2
    t1 = t1
    t2 = t2
    w1 = w1
    w2 = w2
    e1 = e1
    None = None
    Scheduler = {a}
    Setting = {g1}
    Target = {t1, t2}
    Workspace = {w1}
    Execution = {e1}
    LaneId = {1, 2}
    WorkspaceOf <- OneWorkspace
    ExecutionOf <- OneExecution
    Priorities <- HoverOrVisible
    QueueLimit = 1
    Budget = 1
    Events <- Interrupted
    Outcomes = {"proposal", "nothing", "nonsense", "error", "unconfirmed"}
    MaxUpdates <- SetTwice
    MaxRetries = 1
INVARIANTS
    TypeOK
PROPERTIES
    JobsKept
    PreparedEventually
CHECK_DEADLOCK FALSE
