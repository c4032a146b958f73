CONSTANTS
    None = None
    SsidMaxBytes = 2
    MaxNetworks = 2
    Percent <- MCPercent
    Airs <- MCAirs
    Typeable <- MCTypeable
    Fits <- MCFits
    MaxPosts = 2
SPECIFICATION Spec
INVARIANTS ScanIsAccepted RefusalMeansChange ProfileHasPassword
PROPERTY ListIsTheAir
