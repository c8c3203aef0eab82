SPECIFICATION FairSpec
CONSTANTS
    NSteps = 2
    MaxRows = 7
    MaxTroubles = 2
INVARIANTS
    TypeOK
    CompletedIsWhole
PROPERTIES
    ProgressGoesForward
    JobEndIsShown
CHECK_DEADLOCK FALSE
