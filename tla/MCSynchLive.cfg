SPECIFICATION FairSpec
CONSTANTS
    Threads = {main, idle, t1, t2}
    initial_thread = main
    Idle = idle
    NULL = NULL
    TIME_SLICE = 1
    Semas = {idle_started}
    idle_started = idle_started
    L = L
    Locks = {tid_lock, L}
    tid_lock = tid_lock
    Conds = {C}
    lock_of <- MC_lock_of
    MaxValue = 1
    MaxTid = 4
INVARIANTS
    LockExclusive
    BlockedExact
    CondLive
PROPERTIES
    LockProgress
    SignalledWakes
    ReadyRuns
