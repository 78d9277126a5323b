SPECIFICATION Spec
CONSTANTS
    a = a
    b = b
    Names = {a, b}
    Plus = Plus
    Star = Star
    Clients = {c1, c2}
    Patterns <- PlainPatterns
    Topics <- AllTopics
    MaxSegments = 3
    MaxSeen = 8
    MaxEntries = 2
    MayFail = FALSE
INVARIANTS
    TypeOK
    BackRefs
    TreeShape
    NoDeadBranches
    NoDanglingClient
PROPERTIES
    Refines
\* client_destroy of the last client is the end of the program.
CHECK_DEADLOCK FALSE
