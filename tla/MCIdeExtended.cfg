SPECIFICATION Spec
CONSTANTS
    Threads = {t1, t2}
    boot = boot
    Disks = {0}
    Layouts <- MCExtended
    Width = 8
    Huge = 7
    MaxDepth = 3
    MaxRequests = 1
    MaxSpurious = 1
INVARIANTS ScansSector
CHECK_DEADLOCK FALSE
