SPECIFICATION FairSpec
CONSTANTS
    wild = wild
    tame = tame
    Subs = {wild, tame}
    Scripts <- Typed
    Capacity = 1
    MaxDatagrams = 1
    MaxSent = 3
    MayStop = TRUE
INVARIANTS
    TypeOK
    CommandsAsTyped
    GoodOnesStay
PROPERTIES
    SharesHistory
    SendsComplete
    EverythingSeen
    StopsWithServer
    LinesTaken
\* The server may stop, and waits for subscribers that need not type.
CHECK_DEADLOCK FALSE
