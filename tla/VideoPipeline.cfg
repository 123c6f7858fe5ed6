SPECIFICATION FairSpec
CONSTANTS
    c1 = c1
    c2 = c2
    Cams <- MCCams
    floor_cams <- MCFloorCams
    RecordMax = 1
    HWM = 2
    SocketOpened = TRUE
    MaxFrames = 1
    MaxCanvas = 3
INVARIANTS
    TypeOK
    NoLostWakeup
    RecordingIsComplete
PROPERTIES
    PublishedWhole
    RecordingAndQuitEnd
