CONSTANTS
    MaxRequests = 3
    UplinkRoom = 6
    DownlinkRoom = 6
    IOV_MAX = 2
SPECIFICATION Spec
INVARIANT
    AnswersMatch
CHECK_DEADLOCK FALSE
