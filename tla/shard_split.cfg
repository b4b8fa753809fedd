CONSTANTS
    MaxLen = 9
    MaxWorkers = 5
SPECIFICATION Spec
INVARIANTS TypeOK InBounds Contiguous ImplementsEvenShards
