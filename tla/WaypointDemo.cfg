SPECIFICATION FairSpec
CONSTANTS
    Route <- MCRoute
    Distance = 2
    QueueDepth = 3
    GoalDepth = 1
    Strays = {0, 4}
    MaxDrive = 3
    MaxLag = 4
    MaxCrashes = 2
CHECK_DEADLOCK FALSE
INVARIANTS
    TypeOK
    
PROPERTIES
    BackIsBounded
    TourGoesOn
