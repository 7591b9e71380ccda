SPECIFICATION FairSpec
CONSTANTS
    Fds = {1, 2}
INVARIANTS
    CounterNeverOverstates
    NoOrphan
    BufferDiesWithConnection
    IInv

    
    
CHECK_DEADLOCK FALSE
