CONSTANTS
    c1 = c1
    c2 = c2
    t1 = t1
    t2 = t2
    None = None
    Caller = {c1, c2}
    Workers = 1
    Target = {t1, t2}
    RegisterTimeout = FALSE
    Malformed = {t2}
    TooWide = {t1}
    ListenerFails = TRUE
    Reconnecting = {c1}
    Capacity = 1
    NumOutputs = 1
SPECIFICATION Spec
INVARIANT CleanExitOnlyWhenTold
PROPERTY ImplementsStaticPush
