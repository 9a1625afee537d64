CONSTANTS
    a1 = a1
    v1 = v1
    v2 = v2
    None = None
    Addrs = {a1}
    Algos = {v1, v2}
    MaxBlocks = 2
    PoolTxs = TRUE
SPECIFICATION Spec
INVARIANTS
    TypeOK
    CoinbasesComplete
PROPERTIES
    JobsConverge
CHECK_DEADLOCK FALSE
