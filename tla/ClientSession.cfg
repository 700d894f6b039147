CONSTANTS
    a = a
    b = b
    Sessions = {a}
    NumStreams = 2
    MaxParts = 2
    Timeouts = TRUE
SPECIFICATION FairSpec
INVARIANTS TearDownRemembered ReportedBeforeDeath CanBeWoken TearDownIsSent
PROPERTIES TearDownEnds
CHECK_DEADLOCK FALSE
