SPECIFICATION Spec
CONSTANTS
    Objs = {f1, f2}
    Requests = {"A", "B"}
    MaxAuthRetries = 2
    Env = {"collision", "crossing", "radioLoss", "sendFails", "failure", "supersede"}
    None = None
SYMMETRY Symmetry
INVARIANTS TypeOK TimerMatchesState RegisteredHasFsm
