CONSTANTS
    c1 = c1
    c2 = c2
    t1 = t1
    None = None
    Caller = {c1, c2}
    Workers = 2
    Target = {t1}
    RegisterTimeout = FALSE
    Malformed = {}
    Unencodable = {}
    TooWide = {}
    ListenerFails = FALSE
    Reconnecting = {c1}
    Capacity = 1
    NumOutputs = 1
SPECIFICATION DFairSpec
INVARIANT SuccessIsRecorded
PROPERTY ScanCompletes
