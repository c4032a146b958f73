CONSTANTS
    Home = Home
    Shop = Shop
    NoSsid = NoSsid
    Ssids <- MCSsids
    Absent = Absent
    OsReleases <- MCOsReleases
    Temperatures <- MCTemperatures
    ShownMax = 5
    MaxRestarts = 1
SPECIFICATION Spec
SYMMETRY Symmetry
INVARIANT NoHiddenWork
