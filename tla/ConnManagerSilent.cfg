SPECIFICATION FairSpec
CONSTANTS
    Fds = {1, 2}
PROPERTY
    SilentIsClosed
CHECK_DEADLOCK FALSE
