CONSTANTS
    Messages <- Both
    MaxMessages = 3
    ReadLimit = 20
SPECIFICATION Spec
INVARIANTS
    PiecesAreInvisible
    NothingLeftBehind
CHECK_DEADLOCK FALSE
