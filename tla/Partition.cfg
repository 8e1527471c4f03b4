SPECIFICATION FairSpec
CONSTANTS
    MAX_PARTS_PER_DRIVE = 2
    SECTOR_SIZE = 2
    LBA_WRAP = 5
    U32 = 8
    U64 = 32
    MAX_LEN = 2
    Disks = {"chain", "plain", "far"}
    DiskSectors = 6
    Layout <- MCLayout
    MaxDrives = 2
    MaxSwaps = 1
    Offsets = {0, 1, 3, 31}
    Lengths = {1, 2, 3}
INVARIANTS
    TypeOK
    TablesMatchDisks
PROPERTIES
    TransferConfined
    LockReleased
