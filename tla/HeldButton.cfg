\* A button held down since before the wait of WASH_CYCLE.
CONSTANTS
    Faults <- NoFaults
    Readings <- PlaceholderReadings
    PressLengths <- MCPressLengths
    Gains <- MCGains
    FirstMotor = 1
    DoorTimeout = 1
    MaxLost = 1
SPECIFICATION Spec
PROPERTIES
    WaitsForNewPress
