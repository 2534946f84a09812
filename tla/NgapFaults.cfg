SPECIFICATION Spec
CONSTANTS
    Ues = {u1}
    Gens = {g1, g2, g3}
    MaxSetups = 1
    Env = {"crossing", "sendFails", "linkLoss", "lateSetup"}
    None = None
CHECK_DEADLOCK FALSE
SYMMETRY Symmetry
INVARIANTS TypeOK TimersOfState
PROPERTIES NoSetupDuringRelease ServiceSpec
