SPECIFICATION Spec
CONSTANTS
    MAX_TRANSFER = 256
    SUPER = 536
    RECORD = 34956
    BITMAP = 25600
    BLOCK = 1024
    DFS_MAX_SUB_ENTRIES = 128
    BLOCKS = 3
    BITS = 2
    Parts = {"sda1"}
    Images <- MCNew
    Paths = {"/m"}
    Deep = {}
    Names = {"a"}
    Vals = {"old", "new"}
    Lengths = {1, 1025}
    NULL = NULL
    Dangling = Dangling
    Faulty = FALSE
    MaxMounts = 1
    MaxOps = 1
PROPERTIES
    FormatWorks
CHECK_DEADLOCK FALSE
