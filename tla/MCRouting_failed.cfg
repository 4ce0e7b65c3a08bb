SPECIFICATION Spec
CONSTANTS
    Opcodes <- WithFailedWrites
    Nets <- Circuits
    LinkDepth = 1
    MaxPackets = 3
INVARIANTS PacketsWhole
