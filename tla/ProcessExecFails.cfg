SPECIFICATION Spec
CONSTANTS
    ExitStatuses = {0}
    MaxTid = 3
    MaxFiles = 1
    MaxCalls = 2
INVARIANTS
    ExecReportsFailure
CHECK_DEADLOCK FALSE
