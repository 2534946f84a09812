SPECIFICATION FairSpec
CONSTANTS
    Keys = {"T3550|1", "T3512|2"}
    UEs = {"1", "2"}
    UeOf <- MCUeOf
    Opt <- MCOpt
    Entries = {e1, e2, e3}
    MaxLag = 1
    None = None
INVARIANTS TypeOK CancelIsFinal RetransmitsBeforeExpiry
PROPERTIES ServiceSpec TimerEnds ExpiryDelivered
