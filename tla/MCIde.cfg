SPECIFICATION Spec
CONSTANTS
    Threads = {t1, t2}
    boot = boot
    Disks = {0, 1}
    Layouts <- MCLayouts
    Width = 8
    Huge = 7
    MaxDepth = 3
    MaxRequests = 2
    MaxSpurious = 2
INVARIANTS Protocol ReadsLatest InsidePartition
PROPERTY RequestsComplete
CHECK_DEADLOCK FALSE
