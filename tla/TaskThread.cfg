CONSTANTS
    a = a
    b = b
    c = c
    s1 = s1
    s2 = s2
    kReadEvent = kReadEvent
    Tasks = {a, b}
    Signallers = {s1, s2}
    SignalEvents = {kReadEvent}
    NumThreads = 2
    MaxTimeout = 2
    MaxLate = 1
    MaxSignals = 3
    LockTasks = {a}
    PromptRuns = TRUE
    Shutdown = TRUE
    NoTask = NoTask
    NoThread = NoThread
SPECIFICATION FairSpec
INVARIANTS AtMostOnePlace AliveIsScheduled GlobalLockExclusive CalledBackLocked DeadIsNowhere
PROPERTIES EventIsTaken RemoveThreadsReturns ImplementsTask
CHECK_DEADLOCK FALSE
