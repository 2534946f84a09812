SPECIFICATION Spec
CONSTANTS
    Key = {k1, k2, k3, k4}
    None = None
    Entries = 3
    RingRoom = 3
    FreeOnDel = FALSE
    Depth = 2
SYMMETRY Symmetric
INVARIANTS TypeOK PositionsConserved PacketKeepsItsSession RefusedOnlyWhenSpent
PROPERTY SessionMapSpec
