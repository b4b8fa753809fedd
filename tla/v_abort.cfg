CONSTANTS
    c1 = c1
    c2 = c2
    t1 = t1
    t2 = t2
    None = None
    Caller = {c1, c2}
    Workers = 2
    Target = {t1, t2}
    RegisterTimeout = TRUE
    Malformed = {}
    TooWide = {}
    ListenerFails = FALSE
    Reconnecting = {}
    Capacity = 1
    NumOutputs = 1
SPECIFICATION Spec
INVARIANT AbortedPushesNothing
