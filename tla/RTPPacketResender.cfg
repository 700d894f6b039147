CONSTANTS
    NumStreams = 2
    SeqNums = {0, 1}
    Sizes = {2}
    MaxPackets = 2
    kMaximumSegmentSize = 2
    ClientWindow = 4
    UseSlowStart = TRUE
    Word = 16
SPECIFICATION FairSpec
INVARIANTS ListExact BytesAccounted WindowBounded PassLeavesNoOld
PROPERTIES PlayStartsEmpty FlowReopens
