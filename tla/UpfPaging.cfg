SPECIFICATION FairSpec
CONSTANTS
    Packets = 1
    Slots = 2
    ReportRoom = 2
    Releases = 1
CHECK_DEADLOCK FALSE
PROPERTIES KeptIsDelivered
