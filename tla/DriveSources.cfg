SPECIFICATION Spec
CONSTANTS
    KEY_PULSE_DURATION = 3
    Timeout <- MCTimeout
    CmdTimeout = 5
    Commands <- MCCommands
    Longest = 2
INVARIANTS
    TypeOK
    MotionEnds
    NudgeKept
