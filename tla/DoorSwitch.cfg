\* The level of the limit switch against the position of the door.
CONSTANTS
    Faults <- NoFaults
    Readings <- PlaceholderReadings
    PressLengths <- MCPressLengths
    Gains <- MCGains
    FirstMotor = 1
    DoorTimeout = 1
    MaxLost = 1
SPECIFICATION Spec
PROPERTIES
    LocksOnlyClosedDoor
