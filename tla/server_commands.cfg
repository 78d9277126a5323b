SPECIFICATION Spec
CONSTANTS
    p = p
    q = q
    t = t
    Ids = {c1, c2}
    Patterns = {p}
    Topics = {t}
    Ops = {"sub", "unsub"}
    Match <- OneMatch
    NumConns = 2
    NumFds = 2
    MaxCommands = 3
    MaxDatagrams = 1
    Input <- Silence
    MayFail = FALSE
INVARIANTS
    SubscriptionsKept
    CommandsInOrder
PROPERTIES
    KeepsSessions
    PublishedToSubscribers
\* The server exits, or waits for subscribers that are not bound to come.
CHECK_DEADLOCK FALSE
SYMMETRY SwapIds
