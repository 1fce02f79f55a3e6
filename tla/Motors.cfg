CONSTANTS
    c1 = c1
    c2 = c2
    Faults <- NoFaults
    Callers <- MCCallers
    Stoppers <- OneStopper
    NumMotors = 2
    Requests <- MCRequests
    Travel = 1
    MaxStops = 1
SPECIFICATION Spec
INVARIANTS
    TypeOK
    OneAtATime
    NoLostWakeup
    NobodyStranded
PROPERTIES
    ServiceSpec
    BusyIsTrue
    CallsReturn
