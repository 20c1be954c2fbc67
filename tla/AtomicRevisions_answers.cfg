CONSTANTS
    Keys = {k1, k2}
    CreateKeys = {}
    Procs = {p1}
    None = None
    MaxOwners = 2
    MaxSlow = 0
    MaxCrash = 1
    MaxPowerLoss = 0
    MaxProject = 1
SPECIFICATION FairSpec
PROPERTY AnswersUnlessNumberTaken
CHECK_DEADLOCK FALSE
