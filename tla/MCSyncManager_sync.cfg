CONSTANTS
    p1 = p1
    p2 = p2
    t1 = t1
    None = None
    Peers = {p1, p2}
    FullNodes = {p1, p2}
    HeaderPeers = {}
    Blocks <- Chain4
    Genesis = 0
    Path <- Path4
    Checkpoints = {1, 3}
    Recent = {4}
    FirstTip = 0
    RemoteTip <- OneBehind
    Local = {}
    Txs = {}
    MaxBlocksPerMsg = 1
    MaxHeadersPerMsg = 1
    MaxInvPerMsg = 1
    MinInFlight = 1
    MaxRequested = 50
    MaxRejected = 50
    MaxConnects = 2
    MaxFailures = 0
    SlowHandshake = FALSE
SPECIFICATION Spec
INVARIANTS
    RequestsCovered
    OwedIsListed
    HeadersFetched
PROPERTIES
    SyncProgress
CHECK_DEADLOCK FALSE
