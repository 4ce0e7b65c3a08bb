SPECIFICATION Spec
CONSTANTS
    Unwritten = Unwritten
    MemBlock = 2
    Circuits = {i1}
    NoHotplugged = {}
    Afu = a1
    NBlocks = 1
    MaxLends = 1
    MaxBorrows = 1
    MemoryFaults = {}
    ComputeFaults <- RefusingKernel
    ReleaseCommands = {"memory_detach"}
INVARIANTS BorrowedMemoryLives
