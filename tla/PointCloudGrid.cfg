SPECIFICATION GridSpec
CONSTANTS
    Sizes = {1, 2}
    Clouds <- MCClouds
    CellSize = 4
    Filter <- MCFilter
    Maps <- MCMaps
    Images <- MCImages
    Contribution = 60
    Weight = 1
    Scale = 12
    Switches = {"normal", "moving", "ror", "voxel"}
    MaxFrames = 3
INVARIANTS
    GridTypeOK
    AveragesAreSound
    OverrunNeedsResize
