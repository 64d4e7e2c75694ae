\* Any sequence of calls on one buffer.
CONSTANTS
    Tables = {t1, t2}
    BadName = BadName
    MaxI64 = 4095
    MaxTokens = 8
    TsInputs <- MCTsInputs
SYMMETRY Symmetric
SPECIFICATION Spec
INVARIANTS TypeOK StateDescribesOutput OutputIsLines MarkerIsSnapshot
PROPERTIES RewindRestores ErrorsContained ImplementsRowBatch
