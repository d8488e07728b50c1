SPECIFICATION PSpec
CONSTANTS
    k1 = k1
    k2 = k2
    v1 = v1
    Key = {k1, k2}
    Value = {v1}
    Nil = Nil
    KeyArgs <- MCKeyArgs
    Batches <- MCBatches
    Indices <- MCIndices
    Seconds = {1}
    TicksPerSecond = 2
    TicksPerMs = 2
    MaxLag = 0
    MAX_SAMPLE = 1
    MaxListLen = 1
    Faults = {"open", "write", "reopen", "checksum", "append", "rename", "crash"}
INVARIANT PTypeOK
PROPERTIES LoadRestoresSaved OldDumpGoesLast
SYMMETRY KeySymmetry
