SPECIFICATION Spec
CONSTANTS
    Conns = {c1, c2}
    Keys = {k1}
    Values = {short}
    Compressed = {}
    Buffers = {b1, b2}
    NoKey = NoKey
    NoValue = NoValue
    NoConn = NoConn
    MaxQueue = 2
    MaxBatch = 2
SYMMETRY Symmetry
INVARIANTS
    TransactionsAgree
    ExecAnswersInOrder
    BuffersOwned
