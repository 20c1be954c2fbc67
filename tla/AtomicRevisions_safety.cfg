CONSTANTS
    Keys = {k1, k2}
    CreateKeys = {k1}
    Procs = {p1, p2}
    None = None
    MaxOwners = 3
    MaxSlow = 1
    MaxCrash = 1
    MaxPowerLoss = 1
    MaxProject = 1
SPECIFICATION Spec
INVARIANTS
    TypeOK
    RowsCoherent
    LinearChain
    CommittedDurable
PROPERTIES
    Fenced
    PastFrozen
    ImplementsCas
SYMMETRY Symmetry
CHECK_DEADLOCK FALSE
