SPECIFICATION Spec
CONSTANTS
    m1 = m1
    x1 = x1
    f1 = f1
    s1 = s1
    s2 = s2
    None = None
    Call = {m1, x1}
    ReadCall = {}
    ControlCall = {x1}
    FinishCall = {}
    Session = {s1, s2}
    MaxEpoch = 2
    MaxEdits = 1
SYMMETRY Sessions
INVARIANTS
    AnswerTrue
    EditsReported
PROPERTIES
    ImplementsOnce
CHECK_DEADLOCK FALSE
