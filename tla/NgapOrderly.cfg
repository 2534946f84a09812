SPECIFICATION FairSpec
CONSTANTS
    Ues = {u1}
    Gens = {g1, g2}
    MaxSetups = 2
    Env = {"sendFails", "linkLoss"}
    None = None
INVARIANTS SetupPendingIsOwed
PROPERTIES ReleaseEnds
