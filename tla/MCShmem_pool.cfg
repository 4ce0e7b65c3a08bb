SPECIFICATION Spec
CONSTANTS
    Page = 2
    MaxPool = 4
    MaxLends = 1
    MaxBorrows = 1
    MaxAllocs = 2
    MemoryFaults = {}
    ComputeFaults = {}
    LockMayFail = FALSE
INVARIANTS BufferInPool
