CONSTANTS
    host = host
    w1 = w1
    w2 = w2
    None = None
    Shard <- MCShard
    Finding <- MCFinding
    Worker = {w1, w2}
    Window = 1
    MaxInt32 = 3
    Capacity = 1
    NumOutputs = 1
SPECIFICATION FairSpec
INVARIANTS TypeOK SuccessIsComplete OneResultEach FailureIsShown
PROPERTIES Exits ImplementsReporter
