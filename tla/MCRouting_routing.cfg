SPECIFICATION FairSpec
CONSTANTS
    Opcodes <- Mixed
    Nets <- Circuits
    LinkDepth = 1
    MaxPackets = 3
INVARIANTS PacketsWhole NotPassedOver
PROPERTIES LinksImplemented EveryPacketArrives
