SPECIFICATION FairSpec
CONSTANTS
    Ues = {u1}
    Gens = {g1, g2}
    MaxSetups = 1
    Env = {"lateSetup"}
    None = None
CHECK_DEADLOCK FALSE
PROPERTIES SetupEnds
