SPECIFICATION Spec
CONSTANTS
    Place <- MCPlace
    BoardAt <- MCBoardAt
    Turn = 36
    Noise = {0, 1}
    Levels = {"low", "high"}
    Unit = 1000
    Cos <- MCCos
    Sin <- MCSin
    Short <- MCShort
    Drift = 4
    MaxKeys = 2
CHECK_DEADLOCK FALSE
INVARIANT
    ProcedureCalibrates
