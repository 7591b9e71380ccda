SPECIFICATION Spec
CONSTANTS
    k1 = k1
    k2 = k2
    k3 = k3
    Keys = {k1, k2, k3}
    Values = {v1, v2}
    NoKey = NoKey
    NoValue = NoValue
    Hash <- GatheringHash
    InitialSize = 2
    UsePrimeNumbers = TRUE
    Primes <- TwoResizes
    MaxTableSize = 0
    BUCKET_SIZE = 1
    MAX_READ_WRITE_ATTEMPTS = 2
INVARIANTS
    FreeListSound
    AllocateFindsEntry
    IInv
    LiveEntriesReachable
    ReadYourWrite
    NoHoleBeforeKey
    Placement
    ProbesSpread
PROPERTY
    RefinesVersionedMap
\* Once the generator of table sizes is exhausted the store stops.
CHECK_DEADLOCK FALSE
