CONSTANTS
    Args <- SomeArgs
    Bytes <- SomeBytes
    MaxArgs = 4
    MaxEdits = 2
    CHUNK_SIZE = 4
    MIN_SIZE_TO_COMPRESS = 4
SPECIFICATION InputSpec
INVARIANTS
    RoundTrip
    CutIsIncompleteUnlessTorn
    
    RepliesUnderstood
    ValuesSurviveCompression
CHECK_DEADLOCK FALSE
