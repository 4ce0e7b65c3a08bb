SPECIFICATION FairSpec
CONSTANTS
    left = left
    right = right
    Nodes <- Pair
    Slots = 3
    Copies = 3
    RoundTrip = 3
    BurstTogether = TRUE
    MaxWrites <- BothWays
    MaxErrors = 3
    MaxFlight = 6
INVARIANTS NoTornFrame StallIsAnswered
PROPERTIES ReliableChannel EveryFrameArrives
CHECK_DEADLOCK FALSE
