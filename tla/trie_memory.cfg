SPECIFICATION Spec
CONSTANTS
    a = a
    b = b
    Names = {a, b}
    Plus = Plus
    Star = Star
    Clients = {c1, c2}
    Patterns <- DeepPatterns
    Topics <- FewTopics
    MaxSegments = 3
    MaxSeen = 1
    MaxEntries = 2
    MayFail = TRUE
INVARIANTS
    BackRefs
    TreeShape
PROPERTIES
    Refines
\* client_destroy of the last client is the end of the program.
CHECK_DEADLOCK FALSE
