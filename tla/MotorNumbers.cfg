\* Motor numbers as the enum that stateMachine.c includes counts them.
CONSTANTS
    Faults <- NoFaults
    Readings <- FewReadings
    PressLengths <- MCPressLengths
    Gains <- MCGains
    FirstMotor = 0
    DoorTimeout = 1
    MaxLost = 1
SPECIFICATION Spec
INVARIANTS
    MovesTheRightDriver
