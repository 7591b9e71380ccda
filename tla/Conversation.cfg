CONSTANTS
    MaxRequests = 4
    UplinkRoom = 2
    DownlinkRoom = 4
    IOV_MAX = 8
SPECIFICATION FairSpec
INVARIANTS
    AnswersMatch
    PendingIsOnTheWay
    IInv
PROPERTIES
    WaitEnds
    FlushCompletes
CHECK_DEADLOCK FALSE
