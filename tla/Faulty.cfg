\* Any driver may fail at any call; motor numbers as in Testing/motor_step.h.
CONSTANTS
    Faults <- AllFaults
    Readings <- MCReadings
    PressLengths <- MCPressLengths
    Gains <- MCGains
    FirstMotor = 0
    DoorTimeout = 2
    MaxLost = 1
SPECIFICATION Spec
INVARIANTS
    TypeOK
    HeaterBehindLockedDoor
    StirrerRaised
    FreshWick
PROPERTIES
    NoUnlockDuringEstop
    CycleSpec
    ScrewSpec
