CONSTANTS
    Blocks = {b1, b2}
    Size <- MCSize
    Keys = {k}
    Values = {v}
    WriteLoc = WriteLoc
    None = None
    MaxBlockFileSize = 3
    MaxFile = 1
    MaxPending = 2
    MaxFaults = 2
    PowerLoss = TRUE
    CloseSyncs = FALSE
SPECIFICATION Spec
INVARIANT RowsReadable
CHECK_DEADLOCK FALSE
