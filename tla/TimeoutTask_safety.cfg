CONSTANTS
    a = a
    b = b
    c = c
    Timers = {a, b}
    MaxTimers = 2
    MaxTimeout = 4
    MaxLate = 1
    Interval = 3
    Slack = 2
SYMMETRY MCSymmetry
SPECIFICATION Spec
INVARIANTS OverdueBounded PunctualTimers
