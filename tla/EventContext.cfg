CONSTANTS
    a = a
    b = b
    s1 = s1
    s2 = s2
    Contexts = {a, b}
    Handles = {s1, s2}
    FirstID = 1
    LastID = 8
    MaxOpens = 2
    Quits = TRUE
    NoContext = NoContext
    NoHandle = NoHandle
SPECIFICATION FairSpec
ACTION_CONSTRAINT FirstIsA
INVARIANTS ResolvedIsAlive EventIsOwn
PROPERTIES DataIsSignalled CleanupReturns
CHECK_DEADLOCK FALSE
