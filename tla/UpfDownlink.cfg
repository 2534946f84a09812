SPECIFICATION FairSpec
CONSTANTS
    Packets = 4
    Slots = 2
    ReportRoom = 2
    Releases = 2
CHECK_DEADLOCK FALSE
INVARIANTS TypeOK OneLostPerFlush StrayAtMostOne WaitingIsReported
PROPERTIES ReportedIsDelivered
