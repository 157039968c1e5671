CONSTANTS
    Names = {1}
    Hash <- MCHash
    NRM = 0
    RAR = 1
    Addrs = {1, 2, 3, 4, 5}
    Lists = {L1, L2}
    InjectFaults = TRUE

SPECIFICATION Spec
SYMMETRY ListSymmetry

INVARIANT CloseResolvesDuplicates
INVARIANT NoLeak
