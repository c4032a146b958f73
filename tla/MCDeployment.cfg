SPECIFICATION DeploymentSpec
CONSTANTS
    Trees <- MCTrees
    EditedTrees <- MCFewTrees
    KeyFiles <- MCKeyFiles
    FirstKey <- ReviewedKey
    Rootfs <- MCRootfs
    ConfigurationOf <- MCConfigurationOf
    KeyText <- MCKeyText
    None = None
    Devices = {d1, d2}
    MaxEdits = 1
    MaxBuilds = 2
    MaxPackages = 2
    MaxStops = 1
    MaxBoots = 2
    MaxBootFaults = 1
    CardsAt <- Undisturbed
    ReleasesGoOn = FALSE
    LongReleases <- MCFewTrees
INVARIANTS
    ManifestIsTrue
    InterfacesAreSeparate
    DevicesDiffer
PROPERTIES
    SshComesUp
    ManagementComesUp
CHECK_DEADLOCK FALSE
