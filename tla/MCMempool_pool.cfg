CONSTANTS
    t1 = t1
    t2 = t2
    t3 = t3
    t4 = t4
    t5 = t5
    t6 = t6
    c1 = c1
    c2 = c2
    o1 = o1
    o2 = o2
    o4 = o4
    u1 = u1
    u3 = u3
    p1 = p1
    None = None
    Txs = {t1, t2, t3, t4, t5, t6}
    OutPoints = {c1, c2, o1, o2, o4, u1, u3}
    Ins <- MCIns
    TxOut <- MCTxOut
    Coins <- MCCoins
    NonStd = {}
    Free = {t1, t5}
    Blocks <- MCBlocks
    Peers = {p1}
    MaxOrphanTxs = 2
    Expiry = TRUE
    MaxChain = 6
SPECIFICATION Spec
INVARIANTS
    TypeOK
    SpendsIndexed
    OrphansIndexed
    OrphansLimited
    PoolMinable
    NoOrphanLeft
    OrphansNoConflict
CHECK_DEADLOCK FALSE
