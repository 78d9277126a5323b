SPECIFICATION Spec
CONSTANTS
    Pubs = {1, 2}
    CommandLines <- Started
    FreePorts = {40000, 40001}
    MaxSends = 2
    IpText <- One
    HeaderSize = 11
    TopicLen = 2
    IntSize = 1
    BufSize = 16
    SubBufSize = 27
    Wanted <- WantedTopics
    Garbage <- Stacks
INVARIANTS
    TypeOK
    KeepsMode
    NothingMissed
    OnlyLongOnesKill
PROPERTIES
    ShowsFeed
\* The publishers end, and nobody waits for more.
CHECK_DEADLOCK FALSE
