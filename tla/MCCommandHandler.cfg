SPECIFICATION HSpec
CONSTANTS
    k1 = k1
    v1 = v1
    v2 = v2
    ch = ch
    c1 = c1
    c2 = c2
    Key = {k1}
    Value = {v1, v2}
    Nil = Nil
    KeyArgs <- MCKeyArgs
    Batches <- MCBatches
    ChannelArgs <- MCChannelArgs
    Channel = {ch}
    Client = {c1, c2}
    Commands <- MCCommands
    MaxQueue = 2
    Indices <- MCIndices
    Seconds = {1}
    TicksPerSecond = 1
    MaxLag = 0
    MAX_SAMPLE = 1
    MaxListLen = 2
INVARIANTS HTypeOK NoStuckTransaction
PROPERTIES ExecIffUnchanged ExecIsIsolated ErrorsChangeNothing
