SPECIFICATION FairSpec
CONSTANTS
    left = left
    right = right
    Drives <- MCDrives
    StartServices <- MCServices
    StopServices <- MCServices
    MaxAttempts = 3
    Depth = 2
    MaxRemote = 2
    MaxPending = 2
INVARIANTS
    TypeOK
    RunMeansInitialised
    QuietOutsideRun
    EchoAgrees
PROPERTY
    CallsEnd
