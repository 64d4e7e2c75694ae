\* The programs in C and C++, with every failure that they can meet.
CONSTANTS
    Tables = {"trades"}
    BadName = BadName
    NameLen <- MCNameLen
    MaxI64 = 4095
    MaxBufSize = 9
    Addr = {1, 2, 3, 4}
    Bufs = {b}
    MaxNameLens = {127}
    MaxTokens = 9
    Times <- MCTimes
    Opts = {}
    Senders = {s}
    Ps = {}
    Confs = {}
    Args <- NoArgs
    MaxSet = 5
    MaxObjects = 2
    MaxArgs = 2
    BuildNet = {"Ok", "CouldNotResolveAddr", "SocketError", "TlsError", "AuthError"}
    FlushNet = {"Ok", "SocketError"}
SPECIFICATION ExamplesSpec
INVARIANTS WhatIsLeft
PROPERTIES ExitCodeTells
