SPECIFICATION FairSpec
CONSTANTS
    MAX_PORTS = 2
    SECTOR_SIZE = 2
    MAX_LEN = 2
    TIMEOUT = 1
    Buses = 2
    Disks = {"d1", "d2"}
    AtBoot <- MCAtBoot
    Requests <- MCRequests
    DiskSectors = 2
    Bytes = {0, 1, 2}
    Zero = 0
    Junk = Junk
    Payload <- MCPayload
    None = None
    Gone = Gone
    MaxCalls = 2
    MaxPlugs = 2
INVARIANTS
    TypeOK
PROPERTIES
    IndexStable
    DiskConfined
    SuccessIsComplete
    AlwaysReturns
CHECK_DEADLOCK FALSE
