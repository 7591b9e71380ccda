CONSTANTS
    Packets = {p1, p2, p3}
    RESP_INLINE_SLOTS = 2
    Capacities = {0, 2, 3}
    Lengths = {1, 2, 3}
SYMMETRY Symmetry
SPECIFICATION ArenaSpec
INVARIANTS
    SlotsExclusive
    PointersValid
    SlotsConserved
    ArenaIInv
