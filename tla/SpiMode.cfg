CONSTANTS
    c1 = c1
    c2 = c2
    Faults <- NoFaults
    Callers <- MCCallers
    Stoppers <- NoStoppers
    NumMotors = 2
    Requests <- MCRequests
    Travel = 1
    MaxStops = 1
SPECIFICATION RegistersSpec
PROPERTY StaysInSpiMode
