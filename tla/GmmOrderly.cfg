SPECIFICATION FairSpec
CONSTANTS
    Objs = {f1, f2}
    Requests = {"A", "B"}
    MaxAuthRetries = 3
    Env = {"failure", "radioLoss", "supersede"}
    None = None
INVARIANTS WaitIsGuarded RetransmitsOwnMessage StateAgrees RejectedIsRemoved
PROPERTIES RegistrationEnds
