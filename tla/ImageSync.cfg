SPECIFICATION Spec
CONSTANTS
    Subscribe <- Launch
    InterSlop = 3
    InnerSlop = 1
    MaxStamp = 4
INVARIANTS
    TypeOK
    NothingUsefulDropped
PROPERTIES
    LatestGoOut
    PublicationIsSound
