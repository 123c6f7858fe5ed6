SPECIFICATION FairSpec
CONSTANTS
    left = left
    right = right
    Drives <- MCDrives
    InitSequence <- MCInitSequence
    KillDrives <- MCDrives
    EmptyLimit = 1
    MaxCalls = 1
    MaxHalts = 1
    MaxRestarts = 0
PROPERTIES
    DeadLinkKills
    SwitchIsHeard
