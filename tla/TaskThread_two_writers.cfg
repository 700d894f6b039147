CONSTANTS
    a = a
    b = b
    c = c
    s1 = s1
    s2 = s2
    kReadEvent = kReadEvent
    Tasks = {a, b}
    Signallers = {s1}
    SignalEvents = {kReadEvent}
    NumThreads = 2
    MaxTimeout = 1
    MaxLate = 1
    MaxSignals = 2
    LockTasks = {a, b}
    PromptRuns = FALSE
    Shutdown = FALSE
    NoTask = NoTask
    NoThread = NoThread
SPECIFICATION Spec
INVARIANTS GlobalLockExclusive
