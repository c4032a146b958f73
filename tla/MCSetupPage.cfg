CONSTANTS
    FetchTimeout = 1
    RetryDelay = 1
    PollDelay = 1
    ValidFor = 1
    ScanTimeout = 3
    PostTimeout = 2
    ActionTimeout = 3
    Off = Off
    MaxScans = 1
    MaxActions = 2
SPECIFICATION FairSpec
INVARIANTS ShownIsRecent InProgressIsPending
PROPERTIES PollingContinues ActionEnds
