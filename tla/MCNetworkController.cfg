CONSTANTS
    Home = Home
    Shop = Shop
    NoSsid = NoSsid
    Ssids <- MCSsids
    Absent = Absent
    OsReleases <- MCOsReleases
    Temperatures <- MCTemperatures
    ShownMax = 5
    MaxRestarts = 1
SPECIFICATION FairSpec
INVARIANTS BackendExclusive StatusCoherent PollIsServed
PROPERTIES RunsWholeItems BusyEnds LossIsNoticed AcceptedConnectionRuns
