SPECIFICATION Spec
CONSTANTS
    a = a
    b = b
    Names = {a, b}
    Plus = Plus
    Star = Star
    Clients = {c1, c2}
    Patterns <- StarPatterns
    Topics <- AllTopics
    MaxSegments = 3
    MaxSeen = 8
    MaxEntries = 1
    MayFail = FALSE
INVARIANTS
    EveryMatchServed
\* client_destroy of the last client is the end of the program.
CHECK_DEADLOCK FALSE
