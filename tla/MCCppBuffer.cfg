\* Any statements on two C++ buffers.
CONSTANTS
    Tables = {"short", "long"}
    BadName = BadName
    NameLen <- MCNameLen
    MaxI64 = 4095
    MaxBufSize = 4
    Addr = {1, 2, 3}
    Bufs = {x, y}
    MaxNameLens = {127, 128}
    MaxTokens = 4
    Times <- MCTimes
SYMMETRY Symmetric
SPECIFICATION BufferSpec
PROPERTIES BuffersOwned ActsAsValue
