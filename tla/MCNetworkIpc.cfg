CONSTANTS
    C1 = C1
    C2 = C2
    None = None
    Boot = Boot
    Recovery = Recovery
    Calls <- MCCalls
    Backlog = 1
    MaxRestarts = 1
    MaxLosses = 1
SPECIFICATION FairSpec
CHECK_DEADLOCK FALSE
INVARIANTS RejectedLeavesNothing AcceptedIsReal AnsweredInOrder
PROPERTY ServerReturns
