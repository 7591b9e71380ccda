SPECIFICATION Spec
CONSTANTS
    Conns = {c1, c2}
    Keys = {k1}
    Values = {short, long}
    Compressed = {long}
    Buffers = {b1, b2}
    NoKey = NoKey
    NoValue = NoValue
    NoConn = NoConn
    MaxQueue = 2
    MaxBatch = 2
SYMMETRY Symmetry
INVARIANTS
    RepliesKeepTheirValue
