CONSTANTS
    Faults <- NoFaults
    Gains <- MCGains
    MaxCalls = 4
SPECIFICATION Spec
INVARIANTS
    TypeOK
PROPERTIES
    NoHunting
    ControlSettles
    StopEndsMonitoring
\* After the last of the calls the thread may wait for a start that never comes.
CHECK_DEADLOCK FALSE
