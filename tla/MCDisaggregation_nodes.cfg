SPECIFICATION Spec
CONSTANTS
    Unwritten = Unwritten
    MemBlock = 2
    Circuits = {i1, i2}
    NoHotplugged = {i2}
    Afu = a1
    NBlocks = 2
    MaxLends = 2
    MaxBorrows = 2
    MemoryFaults <- LenderFaults
    ComputeFaults <- BorrowerFaults
    ReleaseCommands = {"memory_detach", "compute_detach"}
INVARIANTS BorrowedMemoryLives LentMatches BorrowedMatches OnlineIsBorrowed RegisteredAsTyped
           StrandedBySlips
