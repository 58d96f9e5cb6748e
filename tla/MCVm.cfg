SPECIFICATION Spec
CONSTANTS
    c = c
    s0 = s0
    s1 = s1
    NULL = NULL
    Proc = {p1, p2}
    Code = {c}
    Top = s0
    Below = {s1}
    Kva = {1, 2}
    Addr = {a1, a2, a3}
    Slot = {x}
    Buffer <- MCBuffer
INVARIANTS FramesAccounted ClaimUnmapped PinsEnd FileLockReturned
SYMMETRY Symmetry
CHECK_DEADLOCK FALSE
