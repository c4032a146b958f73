CONSTANTS
    A1 = A1
    A2 = A2
    None = None
    Admins <- MCAdmins
    MaxFaults = 1
    MaxKills = 1
    MaxCuts = 2
SPECIFICATION Spec
INVARIANTS PointersNameWholeVersion ActivationSurvives
PROPERTIES OnlyQualified VersionsAreFinal
SYMMETRY Symmetry
