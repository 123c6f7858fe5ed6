SPECIFICATION Spec
CONSTANTS
    left = left
    right = right
    Drives <- MCDrives
    InitSequence <- MCInitSequence
    KillDrives <- MCDrives
    EmptyLimit = 1
    MaxCalls = 2
    MaxHalts = 1
    MaxRestarts = 1
INVARIANTS
    TypeOK
    TopicsTellState
    QueueSound
    CleanKillIsFinal
PROPERTIES
    ArmingNeedsLink
    ImplementsGate
