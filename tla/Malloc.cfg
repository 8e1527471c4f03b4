SPECIFICATION FairSpec
CONSTANTS
    End = 16
    PoolSize = 48
    MB = 24
    AddrSpace = 384
    MemSizes <- MCMemSizes
    ReqSizes <- MCReqSizes
INVARIANTS
    TypeOK
    BlocksApart
    HeapTiled
    LiveUsable
PROPERTIES
    NullOnlyWhenExhausted
    MallocReturns
    ContractSpec
