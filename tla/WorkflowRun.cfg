SPECIFICATION FairSpec
CONSTANTS
    e1 = e1
    e2 = e2
    Effects <- MCEffects
    ToolCallLists <- MCToolCallLists
    MaxTurns = 2
    RetryPolicies = {1, 2}
    MaxCalls = 3
INVARIANTS
    CheckpointsAdvance
    ReceiptsMatchJournal
    SuccessEventIsBacked
PROPERTIES
    SucceededRunIsFinal
    CallTerminates
CHECK_DEADLOCK FALSE
