SPECIFICATION Spec
CONSTANTS
    Threads <- MCThreads
    BlockSize = 2
    PoolSize = 2
    IndexSize = 2
    MaxHeap = 3
    MaxLogs <- MCMaxLogs
    MaxExits <- MCMaxExits
    MaxAllocFails <- MCMaxAllocFails
INVARIANTS
    BlocksAreAccounted
    MemoryHoldsTheEntries
PROPERTY
    IsAQueue
CHECK_DEADLOCK FALSE
