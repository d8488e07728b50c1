SPECIFICATION SSpec
CONSTANTS
    k1 = k1
    v1 = v1
    ch = ch
    c1 = c1
    c2 = c2
    Key = {k1}
    Value = {v1}
    Nil = Nil
    KeyArgs <- MCKeyArgs
    Batches <- MCBatches
    ChannelArgs <- MCChannelArgs
    Channel = {ch}
    Client = {c1, c2}
    Commands <- OneCommand
    MaxQueue = 1
    Indices = {0}
    Seconds = {1}
    TicksPerSecond = 1
    MaxLag = 0
    MAX_SAMPLE = 1
    MaxListLen = 1
    ConfigFiles <- NoFiles
    Listen = Listen
    MaxRead = 3
PROPERTIES StopEnds EveryoneServed
