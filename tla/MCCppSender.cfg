\* Options, senders and a buffer, with setters, connections and flushes that
\* fail.
CONSTANTS
    Tables = {"t"}
    BadName = BadName
    NameLen <- MCNameLen
    MaxI64 = 4095
    MaxBufSize = 3
    Addr = {1, 2, 3, 4}
    Bufs = {x}
    MaxNameLens = {127}
    MaxTokens = 3
    Times = {}
    Opts = {o, p}
    Senders = {s, t}
    Ps = {"https"}
    Confs <- MCConfs
    Args <- AllArgs
    MaxSet = 1
    MaxObjects = 2
    BuildNet = {"Ok", "SocketError"}
    FlushNet = {"Ok", "SocketError"}
SYMMETRY Symmetric
SPECIFICATION Spec
PROPERTIES AllOwned ActsAsValues
