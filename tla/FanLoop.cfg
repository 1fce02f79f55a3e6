\* Whether the monitoring loop of the fans runs while the candle cools.
CONSTANTS
    Faults <- NoFaults
    Readings <- FewReadings
    PressLengths <- MCPressLengths
    Gains <- MCGains
    FirstMotor = 1
    DoorTimeout = 1
    MaxLost = 1
SPECIFICATION Spec
INVARIANTS
    FansAreMonitored
