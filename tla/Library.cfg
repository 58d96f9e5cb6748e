SPECIFICATION Spec
CONSTANTS
    Elems = {1, 2, 3, 4}
    HashElems = {1, 2, 3, 4, 6}
    MinBuckets = 1
    BestElems = 1
    BitCnt = 5
    ELEM_BITS = 2
    BufSize = 12
    PerLine = 4
    HalfBits = 4
    TableSize = 4
    MemorySize = 6
    MaxArray = 5
    MaxDraws = 6
    SectorSize = 2
    MaxLength = 5
    NameSize = 4
    SizeDigits = 5
    ScratchSize = 7
    MaxLine = 8
    ROW_CNT = 2
    COL_CNT = 4
    TabStop = 2
    MaxLines = 3
INVARIANTS
    StructuresAgree TextAgrees NumbersAgree FilesAgree
CHECK_DEADLOCK FALSE
