\* A flush_and_keep of a buffer without a C buffer through a closed sender.
CONSTANTS
    Tables = {"t"}
    BadName = BadName
    NameLen <- MCNameLen
    MaxI64 = 4095
    MaxBufSize = 3
    Addr = {1, 2, 3, 4}
    Bufs = {x}
    MaxNameLens = {127}
    MaxTokens = 3
    Times = {}
    Opts = {o}
    Senders = {s, t}
    Ps = {"http"}
    Confs <- MCConfs
    Args <- AllArgs
    MaxSet = 1
    MaxObjects = 2
    BuildNet = {"Ok", "SocketError"}
    FlushNet = {"Ok", "SocketError"}
SYMMETRY Symmetric
SPECIFICATION Spec
PROPERTIES ClosedSenderThrows
