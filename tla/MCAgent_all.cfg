SPECIFICATION Spec
CONSTANTS
    Circuits = {c1, c2}
    Afus = {a1}
    Ports = {1, 2}
    Addrs = {7}
    NBlocks = 1
    Sides = {"memory", "compute"}
    MaxConns = 2
    Faults <- AllFaults
INVARIANTS TypeOK UniqueCircuits
PROPERTIES RegistryImplemented DetachEndsCircuit
