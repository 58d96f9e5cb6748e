SPECIFICATION Spec
CONSTANTS
    Names = {a, b}
    Sizes = {0, 1, 2}
    Values = {0, 1}
    NSectors = 7
    DirEntries = 2
    NFiles = 2
SYMMETRY NameSymmetry
INVARIANTS
    SectorsAccounted
    DiskSound
    OpenCounts
PROPERTY ImplementsFiles
