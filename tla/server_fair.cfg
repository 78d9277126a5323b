SPECIFICATION FairChurnSpec
CONSTANTS
    p = p
    q = q
    t = t
    Ids = {c1, c2}
    Patterns = {p}
    Topics = {t}
    Ops = {"sub"}
    Match <- OneMatch
    NumConns = 2
    NumFds = 2
    MaxCommands = 1
    MaxDatagrams = 0
    Input <- ExitOnly
    MayFail = TRUE
INVARIANTS
    TypeOK
    Registry
    ShiftedByOne
PROPERTIES
    ExitObeyed
    CommandsReceived
\* The server exits, or waits for subscribers that are not bound to come.
CHECK_DEADLOCK FALSE
