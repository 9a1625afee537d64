CONSTANTS
    p1 = p1
    p2 = p2
    t1 = t1
    None = None
    Peers = {p1, p2}
    FullNodes = {p1}
    HeaderPeers = {p1}
    Blocks <- Fork3
    Genesis = 0
    Path <- ForkPath3
    Checkpoints = {2}
    Recent = {3}
    FirstTip = 0
    RemoteTip <- OneAt1
    Local = {2, 11}
    Txs = {t1}
    MaxBlocksPerMsg = 2
    MaxHeadersPerMsg = 1
    MaxInvPerMsg = 2
    MinInFlight = 1
    MaxRequested = 2
    MaxRejected = 2
    MaxConnects = 1
    MaxFailures = 1
    SlowHandshake = TRUE
SPECIFICATION Spec
INVARIANTS
 TypeOK
 HeadersFirstSafe
 RequestsCovered
 RejectedNotRequested
CHECK_DEADLOCK FALSE
