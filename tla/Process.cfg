SPECIFICATION FairSpec
CONSTANTS
    ExitStatuses = {0}
    MaxTid = 3
    MaxFiles = 1
    MaxCalls = 2
INVARIANTS
    RecordsLive
    WritableAfterWait
    LockReleased
PROPERTIES
    ResultsRight
    
    
CHECK_DEADLOCK FALSE
