SPECIFICATION FairSpec
CONSTANTS
    Top = 4
    Flaws <- OneFlaw
    MaxWrites = 1
    MaxJournals = 4
    MaxBroken = 1
    MaxSlow = 1
    MaxCrash = 2
    MaxPowerLoss = 1
INVARIANTS
    TypeOK
    RestorePoint
    LatchTrue
PROPERTIES
    BlockedStays
    Settles
CHECK_DEADLOCK FALSE
