CONSTANTS
    a = a
    b = b
    c = c
    Viewers = {a, b}
    MaxPlays = 2
    MaxWaits = 1
SPECIFICATION Spec
INVARIANTS NoWriteToDeletedStream
CHECK_DEADLOCK FALSE
