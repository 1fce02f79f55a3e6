\* Moves that start after the e-stop flag went up.
CONSTANTS
    Faults <- NoFaults
    Readings <- FewReadings
    PressLengths <- MCPressLengths
    Gains <- MCGains
    FirstMotor = 1
    DoorTimeout = 1
    MaxLost = 1
SPECIFICATION Spec
PROPERTIES
    NoMoveStartsWhenFlagged
