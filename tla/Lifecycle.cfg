CONSTANTS
    MaxRequests = 3
    MaxErrors = 2
    MaxQueued = 2
SPECIFICATION LifecycleFairSpec
INVARIANTS
    NoUseAfterDestroy
    ExportedNeverAhead
    LifecycleIInv
    SnapshotsGrow
PROPERTIES
    
    MetricsCatchUp
CHECK_DEADLOCK FALSE
