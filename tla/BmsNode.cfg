SPECIFICATION FairSpec
CONSTANTS
    Half = 4
    Depth = 2
    MaxSent = 3
INVARIANTS
    TypeOK
    SettledIsTrue
PROPERTY
    UpdatePublished
