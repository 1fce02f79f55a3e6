\* The press that wakes IDLE against the one whose length it reads.
CONSTANTS
    Faults <- NoFaults
    Readings <- PlaceholderReadings
    PressLengths <- MCPressLengths
    Gains <- MCGains
    FirstMotor = 1
    DoorTimeout = 1
    MaxLost = 1
SPECIFICATION Spec
PROPERTIES
    PressDecides
