SPECIFICATION Spec
CONSTANTS
    MAX_TRANSFER = 34956
    SUPER = 536
    RECORD = 34956
    BITMAP = 25600
    BLOCK = 1024
    DFS_MAX_SUB_ENTRIES = 128
    BLOCKS = 3
    BITS = 2
    Parts = {"sda1"}
    Images <- MCNew
    Paths = {"/m", "/d/n"}
    Deep = {"/d/n"}
    Names = {"a"}
    Vals = {"old", "new"}
    Lengths = {1, 1025}
    NULL = NULL
    Dangling = Dangling
    Faulty = FALSE
    MaxMounts = 1
    MaxOps = 3
INVARIANTS
    EntriesLive
CHECK_DEADLOCK FALSE
