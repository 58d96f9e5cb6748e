SPECIFICATION FairSpec
CONSTANTS
    Readers = {r1, r2}
    INTQ_BUFSIZE = 3
    MaxOut = 5
    MaxIn = 4
INVARIANTS
    BytesInOrder
    WaitersExact
PROPERTIES
    OutputDrains
    ReaderServed
CHECK_DEADLOCK FALSE
