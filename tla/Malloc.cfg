SPECIFICATION Spec
CONSTANTS
    Threads = {t1, t2}
    Desc = {small, large}
    Pages = 3
    PerArena = 2
    BigPages = 2
    MaxHeld = 2
    None = None
INVARIANTS BlocksDisjoint FreeListsExact ContentsKept
PROPERTY CallsReturn
