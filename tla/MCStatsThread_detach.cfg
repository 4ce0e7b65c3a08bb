SPECIFICATION StatsFairSpec
CONSTANTS
    Conns = {k1, k2}
    PipeSize = 2
    MmioFails = TRUE
    CreateFails = TRUE
INVARIANTS ThreadHasDevice AgentOutlivesDetach
PROPERTIES DetachReturns
CHECK_DEADLOCK FALSE
