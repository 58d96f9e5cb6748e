SPECIFICATION Spec
CONSTANTS
    Threads = {main, idle, t1, t2, t3}
    initial_thread = main
    Idle = idle
    NULL = NULL
    TIME_SLICE = 1
    Semas = {idle_started, S}
    idle_started = idle_started
    L = L
    Locks = {tid_lock}
    tid_lock = tid_lock
    Conds = {}
    lock_of <- MC_lock_of
    MaxValue = 2
    MaxTid = 5
INVARIANTS
    TidsDistinct
    NoLostWakeup
    RunQueueExact
PROPERTIES
    ThreadSpec
SYMMETRY Symmetry
