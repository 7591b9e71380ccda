SPECIFICATION Spec
CONSTANTS
    k1 = k1
    k2 = k2
    k3 = k3
    Keys = {k1, k2, k3}
    Values = {v1, v2}
    NoKey = NoKey
    NoValue = NoValue
    Hash <- CollidingHash
    InitialSize = 5
    UsePrimeNumbers = TRUE
    Primes <- OneResize
    MaxTableSize = 0
    BUCKET_SIZE = 2
    MAX_READ_WRITE_ATTEMPTS = 2
INVARIANTS
    DeletedIsGone
CHECK_DEADLOCK FALSE
