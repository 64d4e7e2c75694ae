\* Three rows, read in chunks of three bytes.
CONSTANTS
    Rows <- MCRows
    MaxRows = 3
    ChunkLen = 3
SPECIFICATION MockSpec
INVARIANTS NothingLost
PROPERTIES RecvReturns
