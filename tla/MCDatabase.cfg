SPECIFICATION Spec
CONSTANTS
    k1 = k1
    k2 = k2
    v1 = v1
    v2 = v2
    Key = {k1, k2}
    Value = {v1, v2}
    Nil = Nil
    KeyArgs <- MCKeyArgs
    Batches <- MCBatches
    Indices <- MCIndices
    Seconds = {1}
    TicksPerSecond = 2
    MaxLag = 1
    MAX_SAMPLE = 1
    MaxListLen = 2
INVARIANTS
    OneTypePerKey
    NoOrphanDeadline
    NoEmptyList
PROPERTIES
    NewKeyHasNoDeadline
    ImplementsKeyspace
