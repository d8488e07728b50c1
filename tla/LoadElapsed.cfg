SPECIFICATION RSpec
CONSTANTS
    Key = {k1}
    Value = {v1}
    Nil = Nil
    KeyArgs = {}
    Batches = {}
    Indices = {}
    Seconds = {1}
    TicksPerSecond = 2
    TicksPerMs = 2
    MaxLag = 0
    MAX_SAMPLE = 1
    MaxListLen = 1
    Faults = {"crash"}
PROPERTY ElapsedKeysAreSkipped
