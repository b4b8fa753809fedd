CONSTANTS
    w1 = w1
    w2 = w2
    None = None
    AddressBits = 2
    MaxPort = 2
    Configs <- MCConfigs
    Worker = {w1, w2}
    Capacity = 1
    NumOutputs = 2
SPECIFICATION FairSpec
INVARIANTS TypeOK SameOrder CleanAfterDrain NoSendOnClosed OneRecordEach CompleteUnlessCancelled EmittedAccounted
PROPERTY Terminates
