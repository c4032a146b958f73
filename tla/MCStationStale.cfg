CONSTANTS
    P1 = P1
    P2 = P2
    P3 = P3
    None = None
    Uuids <- MCUuids
    FaultKinds <- CleanFault
    MaxFaults = 0
    MaxCrashes = 2
    MaxAttempts = 2
SPECIFICATION Spec
SYMMETRY Symmetry
INVARIANT NetworkRemembered
