CONSTANTS
    ImageSize = 2
    MaxDevice = 6
    Slack = 1
    NoRecord = NoRecord
    MaxFaults = 2
    MaxCuts = 2
SPECIFICATION FairSpec
INVARIANTS ClaimIsTrue SuccessSurvives ClaimWithinDisk
PROPERTY BootCompletes
