\* A stop that comes in while the tach thread samples the fans.
CONSTANTS
    Faults <- NoFaults
    Gains <- OneGain
    MaxCalls = 3
SPECIFICATION Spec
INVARIANTS
    StoppedFansStayOff
CHECK_DEADLOCK FALSE
