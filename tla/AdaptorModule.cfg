CONSTANTS
    a = a
    b = b
    c = c
    Viewers = {a, b}
    MaxPlays = 2
    MaxWaits = 1
SPECIFICATION FairSpec
INVARIANTS ListMatchesSessions EveryViewerServed MetaDataFirst MetaDataNotGivenUp OneLatePacket
PROPERTIES ViewerIsServed
CHECK_DEADLOCK FALSE
