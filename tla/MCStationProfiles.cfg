CONSTANTS
    P1 = P1
    P2 = P2
    P3 = P3
    None = None
    Uuids <- MCUuids
    FaultKinds <- CleanFault
    MaxFaults = 3
    MaxCrashes = 2
    MaxAttempts = 2
SYMMETRY Symmetry
SPECIFICATION Spec
INVARIANTS OneSavedName DhcpNeverServesStation
PROPERTY SavedNetworkKept
