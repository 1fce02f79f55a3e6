\* The start-up succeeds, and heater, fans and wick servo obey; the thermistor and
\* the door may fail.  Motor numbers as motor_move takes them.
CONSTANTS
    Faults <- SomeFaults
    Readings <- FewReadings
    PressLengths <- MCPressLengths
    Gains <- MCGains
    FirstMotor = 1
    DoorTimeout = 1
    MaxLost = 1
SPECIFICATION Spec
INVARIANTS
    HeaterConfined
    HeaterRearmWindow
    FansConfined
PROPERTIES
    ScrewSpec
    OvertempCutsHeater
    EstopReached
    MainComesBack
