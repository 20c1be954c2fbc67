SPECIFICATION Spec
CONSTANTS
    m1 = m1
    x1 = x1
    f1 = f1
    s1 = s1
    s2 = s2
    None = None
    Call = {m1, f1}
    ReadCall = {}
    ControlCall = {}
    FinishCall = {f1}
    Session = {s1, s2}
    MaxEpoch = 3
    MaxEdits = 1
SYMMETRY Sessions
CONSTRAINT EditedRunsAreShorter
INVARIANTS
    OneSuccessor
PROPERTIES
    NoOverlap
    FinishHolds
CHECK_DEADLOCK FALSE
