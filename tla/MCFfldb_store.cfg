CONSTANTS
    Blocks = {b1, b2}
    Size <- MCSize
    Keys = {k}
    Values = {v}
    WriteLoc = WriteLoc
    None = None
    MaxBlockFileSize = 3
    MaxFile = 1
    MaxPending = 2
    MaxFaults = 2
    PowerLoss = TRUE
    CloseSyncs = TRUE
SPECIFICATION Spec
INVARIANTS
    TypeOK
    RowsReadable
    AlwaysOpens
PROPERTY
    Durable
CHECK_DEADLOCK FALSE
