\* Flushes over one TCP connection, and over HTTP with retries.
CONSTANTS
    b1 = b1
    b2 = b2
    t1 = t1
    t2 = t2
    Setups <- MCSetups
    Tables = {t1, t2}
    BadName = BadName
    MaxI64 = 4095
    Codes <- MCCodes
    SocketRoom = 2
    MaxFlushes = 2
    MaxPosts = 2
SPECIFICATION Spec
INVARIANTS StreamIntact RefusalsJustified KeptUnlessFlushed OkMeansHandedOver
PROPERTIES FlushReturns
