CONSTANTS
    a = a
    b = b
    c = c
    Elems = {a, b}
    Values <- MCValues
    MaxTimeout = 2
    MaxLate = 1
    Deletes = TRUE
    Shutdown = TRUE
    NoElem = NoElem
    IdleThread = IdleThread
SPECIFICATION FairSpec
INVARIANTS Membership SleepCovers DeletedHasNoTimer
PROPERTIES TimerFires ThreadExits
CHECK_DEADLOCK FALSE
