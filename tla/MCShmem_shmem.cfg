SPECIFICATION Spec
CONSTANTS
    Page = 2
    MaxPool = 3
    MaxLends = 3
    MaxBorrows = 2
    MaxAllocs = 2
    MemoryFaults <- PoolFaults
    ComputeFaults <- AttachFaults
    LockMayFail = TRUE
INVARIANTS InitializedIsRegistered BuffersDisjoint 
PROPERTIES TeardownReleases
