----------------------------- MODULE SyncManager -----------------------------
(***************************************************************************)
(* The sync manager (pkg/chain/sync/manager.go): one goroutine handles the *)
(* messages of all peers, decides from whom the chain is downloaded, in    *)
(* headers-first mode up to the last checkpoint and by inventory after it, *)
(* and keeps track of what has been requested from whom.                   *)
(*                                                                         *)
(* The remote peers run the same program (pkg/rpc/chainrpc/server.go) and  *)
(* are honest: they answer what they are asked, in order, from a chain     *)
(* that only grows.  What a peer sends waits in the inbox of its link      *)
(* until blockHandler takes it; the inboxes of different peers are drained *)
(* in any order.  Of the block chain only what the manager asks it is      *)
(* kept: which blocks it has, which of them are orphans, and its tip.      *)
(***************************************************************************)
EXTENDS Integers, Sequences, FiniteSets

CONSTANTS
    Peers,             \* remote nodes
    FullNodes,         \* those that announce SFNodeNetwork
    HeaderPeers,       \* those that announce a block with its header
    Blocks,            \* every block that exists, Genesis included
    Genesis,
    Path,              \* Path[b]: the blocks from Genesis to b
    Checkpoints,       \* chainParams.Checkpoints, as blocks
    Recent,            \* blocks whose timestamp is less than 24 hours old
    FirstTip,          \* tip of the node's chain when the manager is created
    RemoteTip,         \* RemoteTip[p]: tip of p's chain at the start
    Local,             \* blocks the miner or the RPC server may submit
    Txs,               \* transactions the peers may announce
    None,              \* nil: no peer, block, checkpoint or request
    MaxBlocksPerMsg,   \* blocks in the answer to a getblocks message
    MaxHeadersPerMsg,  \* wire.MaxBlockHeadersPerMsg
    MaxInvPerMsg,      \* entries of a getdata message
    MinInFlight,       \* minInFlightBlocks
    MaxRequested,      \* maxRequestedBlocks and maxRequestedTxns
    MaxRejected,       \* maxRejectedTxns
    MaxConnects,       \* bound: connections made to one peer
    MaxFailures,       \* bound: blocks the database fails to store
    SlowHandshake      \* the handler may be busy for a whole negotiateTimeout

ASSUME SyncAssumption ==
    /\ FullNodes \cup HeaderPeers \subseteq Peers /\ None \notin Peers \cup Blocks
    /\ Path \in [Blocks -> Seq(Blocks)]
    /\ {Genesis, FirstTip} \cup Checkpoints \cup Recent \cup Local \subseteq Blocks
    /\ RemoteTip \in [Peers -> Blocks]
    /\ {MaxBlocksPerMsg, MaxHeadersPerMsg, MaxInvPerMsg, MaxRequested, MaxRejected}
         \subseteq Nat \ {0}
    /\ {MinInFlight, MaxConnects, MaxFailures} \subseteq Nat
    /\ SlowHandshake \in BOOLEAN

VARIABLES
    known,             \* blocks in the block index
    orphans,           \* blocks in the orphan pool
    tip,               \* BestSnapshot
    pool,              \* transactions in the memory pool
    failures,          \* blocks the database has failed to store
    peerStates,        \* peers that have a peerSyncState
    syncCandidate,     \* those of them with syncCandidate set
    peerBlocks,        \* peerBlocks[p]: state.requestedBlocks
    peerTxns,          \* peerTxns[p]: state.requestedTxns
    requestedBlocks, requestedTxns, rejectedTxns,
    syncPeer,
    headersFirstMode, headerList, startHeader, nextCheckpoint,
    arriving,          \* peers whose newPeerMsg has not been handled
    link,              \* link[p]: the connection to p
    remote,            \* remote[p]: the tip of p's own chain
    heightUpdates      \* UpdatePeerHeights messages on their way to the server

chainVars == <<known, orphans, tip, failures>>
txVars == <<pool, requestedTxns, rejectedTxns, peerTxns>>
headerVars == <<headersFirstMode, headerList, startHeader, nextCheckpoint>>
vars == <<chainVars, txVars, headerVars, peerStates, syncCandidate, peerBlocks,
          requestedBlocks, syncPeer, arriving, link, remote, heightUpdates>>

-----------------------------------------------------------------------------
(***************************************************************************)
(* The block tree.                                                         *)
(***************************************************************************)
Height(b) == Len(Path[b]) - 1
Parent(b) == Path[b][Len(Path[b]) - 1]
OnChain(b) == {Path[b][i] : i \in 1..Len(Path[b])}
Elements(s) == {s[i] : i \in 1..Len(s)}

\* Path[b] leads from Genesis to b, and every part of it to the block it ends in.
ASSUME PathAssumption ==
    \A b \in Blocks :
        /\ Path[b] # <<>> /\ Path[b][1] = Genesis /\ Path[b][Len(Path[b])] = b
        /\ \A i \in 1..Len(Path[b]) : Path[Path[b][i]] = SubSeq(Path[b], 1, i)

(***************************************************************************)
(* What the chain answers: HaveBlock, IsCurrent and GetOrphanRoot.         *)
(***************************************************************************)
HaveBlock(b) == b \in known \cup orphans

ChainIsCurrent(t) == t \in Recent /\ \A c \in Checkpoints : Height(c) <= Height(t)

OrphanRoot(orph, b) ==
    CHOOSE r \in OnChain(b) :
        /\ \A c \in OnChain(b) : Height(c) >= Height(r) => c \in orph
        /\ r = Genesis \/ Parent(r) \notin orph

(***************************************************************************)
(* findNextHeaderCheckpoint.                                               *)
(***************************************************************************)
findNextHeaderCheckpoint(h) ==
    IF \A c \in Checkpoints : Height(c) <= h
    THEN None
    ELSE CHOOSE c \in Checkpoints :
            /\ Height(c) > h
            /\ \A d \in Checkpoints : Height(d) > h => Height(c) <= Height(d)

(***************************************************************************)
(* limitMap after every insertion: once the map is full, entries go at     *)
(* random, the new ones included, until MaxRequested - 1 are left.         *)
(***************************************************************************)
limitMap(S, limit) ==
    IF Cardinality(S) + 1 > limit
    THEN {T \in SUBSET S : Cardinality(T) = limit - 1}
    ELSE {S}

-----------------------------------------------------------------------------
(***************************************************************************)
(* The remote side.  A request that is put on the link is answered at once *)
(* at the end of its inbox; a closed link drops it.                        *)
(***************************************************************************)
Message(t, bs) == [type |-> t, items |-> bs]

Deliver(l, msgs) == IF l.up THEN [l EXCEPT !.inbox = @ \o msgs] ELSE l

(***************************************************************************)
(* LocateBlocks and LocateHeaders: the blocks of chain c after the newest  *)
(* one it shares with the locator, up to stop, at most max.                *)
(***************************************************************************)
Locate(c, locator, stop, max) ==
    LET p == Path[c]
        start == CHOOSE i \in 1..Len(p) :
                    /\ p[i] \in locator \cup {Genesis}
                    /\ \A j \in (i + 1)..Len(p) : p[j] \notin locator
        end == IF stop # None /\ stop \in OnChain(c) /\ Height(stop) >= start
               THEN Height(stop) + 1 ELSE Len(p)
    IN  SubSeq(p, start + 1, IF end > start + max THEN start + max ELSE end)

(***************************************************************************)
(* PushGetBlocksMsg ignores a request equal to the one before; OnGetBlocks *)
(* answers with an inventory, and remembers its last block when the answer *)
(* may not be complete.                                                    *)
(***************************************************************************)
PushGetBlocksMsg(l, c, begin, locator, stop) ==
    LET inv == Locate(c, locator, stop, MaxBlocksPerMsg) IN
    IF l.prevGetBlocks = <<begin, stop>> \/ ~l.up THEN l
    ELSE [Deliver(l, IF inv = <<>> THEN <<>> ELSE <<Message("inv", inv)>>) EXCEPT
            !.prevGetBlocks = <<begin, stop>>,
            !.continueHash = IF Len(inv) = MaxBlocksPerMsg THEN inv[Len(inv)] ELSE @]

PushGetHeadersMsg(l, c, begin, locator, stop) ==
    IF l.prevGetHdrs = <<begin, stop>> \/ ~l.up THEN l
    ELSE [Deliver(l, <<Message("headers", Locate(c, locator, stop, MaxHeadersPerMsg))>>)
            EXCEPT !.prevGetHdrs = <<begin, stop>>]

(***************************************************************************)
(* OnGetData and PushBlockMsg: the blocks in the order of the request.     *)
(* The block that ended an incomplete inventory is followed by the tip, so *)
(* that the requester asks for the next ones.                              *)
(***************************************************************************)
AfterLast(c) == <<Message("inv", <<c>>)>>

SendGetData(l, c, bs) ==
    LET Served(i) == IF bs[i] \notin OnChain(c) THEN <<>>
                     ELSE <<Message("block", <<bs[i]>>)>>
                          \o IF bs[i] = l.continueHash THEN AfterLast(c) ELSE <<>>
        all[i \in 0..Len(bs)] == IF i = 0 THEN <<>> ELSE all[i - 1] \o Served(i)
    IN  [Deliver(l, all[Len(bs)]) EXCEPT
            !.continueHash = IF @ \in Elements(bs) THEN None ELSE @]

(***************************************************************************)
(* The connection is closed.  What the handler's queue has taken in of the *)
(* inbox is still handled, and then PeerDoneHandler's donePeerMsg.         *)
(***************************************************************************)
Close(l) ==
    IF ~l.up THEN {l}
    ELSE {[l EXCEPT !.up = FALSE,
                    !.inbox = SubSeq(@, 1, n) \o <<Message("done", <<>>)>>] :
            n \in 0..Len(l.inbox)}

Pop(p) == [link[p] EXCEPT !.inbox = Tail(@)]

-----------------------------------------------------------------------------
(***************************************************************************)
(* New: the manager is created on a chain that ends in FirstTip.           *)
(***************************************************************************)
NoLink == [up |-> FALSE, inbox |-> <<>>, connects |-> 0, lastBlock |-> 0,
           announced |-> None, prevGetBlocks |-> None, prevGetHdrs |-> None,
           continueHash |-> None, invTxs |-> {}]

Init ==
    /\ known = OnChain(FirstTip) /\ orphans = {} /\ tip = FirstTip
    /\ failures = 0 /\ pool = {}
    /\ peerStates = {} /\ syncCandidate = {} /\ syncPeer = None
    /\ peerBlocks = [p \in Peers |-> {}] /\ peerTxns = [p \in Peers |-> {}]
    /\ requestedBlocks = {} /\ requestedTxns = {} /\ rejectedTxns = {}
    /\ nextCheckpoint = findNextHeaderCheckpoint(Height(FirstTip))
    /\ headersFirstMode = FALSE /\ startHeader = None
    /\ headerList = IF nextCheckpoint = None THEN <<>> ELSE <<FirstTip>>
    /\ arriving = {} /\ link = [p \in Peers |-> NoLink] /\ remote = RemoteTip
    /\ heightUpdates = {}

(***************************************************************************)
(* current.                                                                *)
(***************************************************************************)
current(t, lk) ==
    ChainIsCurrent(t) /\ (syncPeer # None => Height(t) >= lk[syncPeer].lastBlock)

(***************************************************************************)
(* resetHeaderState.                                                       *)
(***************************************************************************)
resetHeaderState ==
    /\ headerList' = IF nextCheckpoint = None THEN <<>> ELSE <<tip>>
    /\ startHeader' = None

(***************************************************************************)
(* startSync without a sync peer, for the candidates, requested blocks,    *)
(* mode and links its caller leaves.  Candidates whose last block is below *)
(* the tip are dropped; any other may be chosen, for Go iterates over a    *)
(* map in no particular order.                                             *)
(***************************************************************************)
startSync(candidates, requested, mode, lk) ==
    LET left == {p \in candidates : lk[p].lastBlock >= Height(tip)}
        useHeaders == nextCheckpoint # None /\ Height(tip) < Height(nextCheckpoint)
    IN  /\ syncCandidate' = left
        /\ \/ /\ left = {}
              /\ syncPeer' = None
              /\ requestedBlocks' = requested
              /\ headersFirstMode' = mode
              /\ link' = lk
           \/ \E p \in left :
              /\ syncPeer' = p
              /\ requestedBlocks' = {}
              /\ headersFirstMode' = (mode \/ useHeaders)
              /\ link' = [lk EXCEPT ![p] =
                    IF useHeaders
                    THEN PushGetHeadersMsg(@, remote[p], tip, OnChain(tip), nextCheckpoint)
                    ELSE PushGetBlocksMsg(@, remote[p], tip, OnChain(tip), None)]

(***************************************************************************)
(* fetchHeaderBlocks for the header list hl and the links lk its caller    *)
(* leaves: asks the sync peer for the blocks from startHeader on that the  *)
(* chain does not have.  An element that has left the list has no next.    *)
(* The getdata message is cut after MaxInvPerMsg blocks; NextStart is      *)
(* where the next call begins when s[1..last] were looked at, and the      *)
(* fault skips a header.                                                   *)
(***************************************************************************)
HeadersFrom(hl, start) ==
    LET at == {i \in 1..Len(hl) : hl[i] = start}
    IN  IF at = {} THEN <<start>> ELSE SubSeq(hl, CHOOSE i \in at : TRUE, Len(hl))

CutAfter(s, have) ==
    LET Missing(n) == {i \in 1..n : s[i] \notin have}
    IN  IF Cardinality(Missing(Len(s))) < MaxInvPerMsg THEN Len(s)
        ELSE CHOOSE n \in 1..Len(s) : /\ Cardinality(Missing(n)) = MaxInvPerMsg
                                      /\ s[n] \notin have

NextStartSkips(s, last) == IF last + 1 < Len(s) THEN s[last + 2] ELSE None
NextStart(s, last) == IF last < Len(s) THEN s[last + 1] ELSE None

Wanted(s, have) == SelectSeq(s, LAMBDA b : b \notin have)

fetchHeaderBlocks(hl, start, have, pb, requested, lk) ==
    LET s == HeadersFrom(hl, start)
        last == CutAfter(s, have)
        asked == {s[i] : i \in 1..last} \ have
    IN  /\ startHeader' = NextStart(s, last)
        /\ requestedBlocks' = requested \cup asked
        /\ peerBlocks' = [pb EXCEPT ![syncPeer] = @ \cup asked]
        /\ link' = [lk EXCEPT ![syncPeer] =
              SendGetData(@, remote[syncPeer], Wanted(SubSeq(s, 1, last), have))]

-----------------------------------------------------------------------------
(***************************************************************************)
(* handleNewPeerMsg.                                                       *)
(***************************************************************************)
handleNewPeerMsg(p) ==
    /\ arriving' = arriving \ {p}
    /\ peerStates' = peerStates \cup {p}
    /\ peerBlocks' = [peerBlocks EXCEPT ![p] = {}]
    /\ peerTxns' = [peerTxns EXCEPT ![p] = {}]
    /\ LET cands == IF p \in FullNodes THEN syncCandidate \cup {p} ELSE syncCandidate
       IN  IF p \in FullNodes /\ syncPeer = None
           THEN startSync(cands, requestedBlocks, headersFirstMode, link)
           ELSE /\ syncCandidate' = cands
                /\ UNCHANGED <<requestedBlocks, headersFirstMode, syncPeer, link>>
    /\ UNCHANGED <<chainVars, pool, requestedTxns, rejectedTxns, headerList, startHeader,
                   nextCheckpoint, remote, heightUpdates>>

(***************************************************************************)
(* handleDonePeerMsg.  What was requested from p is free to be requested   *)
(* elsewhere, another sync peer is looked for if p was the sync peer, and  *)
(* headers-first mode ends with it.  Each of the faults forgets one of     *)
(* these, the second one outside of headers-first mode.                    *)
(***************************************************************************)
RequestsKept(p) == requestedBlocks
RequestsWithout(p) == requestedBlocks \ peerBlocks[p]

LosesSyncPeerInHeadersFirst(p) == syncPeer = p /\ headersFirstMode
LosesSyncPeer(p) == syncPeer = p

ModeKept == headersFirstMode
ModeAfterReset == FALSE

handleDonePeerMsg(p) ==
    LET lk == [link EXCEPT ![p] = Pop(p)]
        candidates == syncCandidate \ {p}
    IN  /\ p \in peerStates
        /\ peerStates' = peerStates \ {p}
        /\ requestedTxns' = requestedTxns \ peerTxns[p]
        /\ peerBlocks' = [peerBlocks EXCEPT ![p] = {}]
        /\ peerTxns' = [peerTxns EXCEPT ![p] = {}]
        /\ IF LosesSyncPeer(p)
           THEN /\ IF headersFirstMode THEN resetHeaderState
                                       ELSE UNCHANGED <<headerList, startHeader>>
                /\ startSync(candidates, RequestsWithout(p), ModeAfterReset, lk)
           ELSE /\ syncCandidate' = candidates
                /\ requestedBlocks' = RequestsWithout(p)
                /\ link' = lk
                /\ UNCHANGED <<syncPeer, headersFirstMode, headerList, startHeader>>
        /\ UNCHANGED <<chainVars, pool, rejectedTxns, nextCheckpoint, remote, heightUpdates>>

(***************************************************************************)
(* peer.Disconnect: the manager throws the peer out.                       *)
(***************************************************************************)
Disconnect(p) == \E l \in Close(Pop(p)) : link' = [link EXCEPT ![p] = l]

(***************************************************************************)
(* The headers of a message that handleHeadersMsg appends to the list:     *)
(* its loop ends at the first one that does not follow the one before it,  *)
(* or that has the height of the next checkpoint.                          *)
(***************************************************************************)
Connects(hs, i) ==
    LET prev == IF i > 1 THEN hs[i - 1]
                ELSE IF headerList = <<>> THEN None ELSE headerList[Len(headerList)]
    IN  prev # None /\ hs[i] # Genesis /\ Parent(hs[i]) = prev

StopsAt(hs) ==
    {i \in 1..Len(hs) : ~Connects(hs, i) \/ Height(hs[i]) = Height(nextCheckpoint)}

FirstStop(hs) == CHOOSE i \in StopsAt(hs) : \A j \in StopsAt(hs) : i <= j

Taken(hs) ==
    IF StopsAt(hs) = {} THEN hs
    ELSE SubSeq(hs, 1, IF Connects(hs, FirstStop(hs)) THEN FirstStop(hs) ELSE FirstStop(hs) - 1)

(***************************************************************************)
(* handleHeadersMsg.  If the headers reach the next checkpoint, the entry  *)
(* the first of them was linked to is dropped and the blocks are fetched;  *)
(* if they end before it, more headers are asked for.                      *)
(***************************************************************************)
handleHeadersMsg(p, hs) ==
    LET start == IF startHeader = None /\ Taken(hs) # <<>> THEN hs[1] ELSE startHeader
        received == LET i == FirstStop(hs) IN Connects(hs, i) /\ hs[i] = nextCheckpoint
        lk == [link EXCEPT ![p] = Pop(p)]
    IN  /\ p \in peerStates
        /\ \/ /\ ~headersFirstMode
              /\ Disconnect(p)
              /\ UNCHANGED <<headerList, startHeader, requestedBlocks, peerBlocks>>
           \/ /\ headersFirstMode /\ hs = <<>>
              /\ link' = lk
              /\ UNCHANGED <<headerList, startHeader, requestedBlocks, peerBlocks>>
           \/ /\ headersFirstMode /\ hs # <<>> /\ StopsAt(hs) = {}
              /\ headerList' = headerList \o hs
              /\ startHeader' = start
              /\ LET b == hs[Len(hs)] IN
                 link' = [lk EXCEPT ![p] =
                            PushGetHeadersMsg(@, remote[p], b, {b}, nextCheckpoint)]
              /\ UNCHANGED <<requestedBlocks, peerBlocks>>
           \/ /\ headersFirstMode /\ StopsAt(hs) # {} /\ received
              /\ headerList' = Tail(headerList \o Taken(hs))
              /\ fetchHeaderBlocks(headerList', start, known \cup orphans, peerBlocks,
                                   requestedBlocks, lk)
           \/ /\ headersFirstMode /\ StopsAt(hs) # {} /\ ~received
              /\ headerList' = headerList \o Taken(hs)
              /\ startHeader' = start
              /\ Disconnect(p)
              /\ UNCHANGED <<requestedBlocks, peerBlocks>>
        /\ UNCHANGED <<chainVars, txVars, headersFirstMode, nextCheckpoint, peerStates,
                       syncCandidate, syncPeer, remote, heightUpdates>>

-----------------------------------------------------------------------------
(***************************************************************************)
(* ProcessBlock: an orphan is kept, any other block joins the index with   *)
(* the orphans that were waiting for it, Accepted(b).                      *)
(***************************************************************************)
IsOrphan(b) == Parent(b) \notin known

Accepted(b) ==
    {o \in {b} \cup orphans :
        b \in OnChain(o) /\ \A c \in OnChain(o) : Height(c) > Height(b) => c \in orphans}

(***************************************************************************)
(* Where connectBestChain leaves the tip once the blocks A of Accepted(b)  *)
(* have been accepted.  A block on the tip extends it.  Any other block    *)
(* becomes the tip or not, whatever its height: its own work is compared   *)
(* with the tip's work sum, and work is not modelled.                      *)
(***************************************************************************)
connectBestChain(b, A) ==
    (IF Parent(b) = tip /\ A # {} THEN {} ELSE {tip})
        \cup {c \in A : \A d \in A : Parent(d) # c}

ProcessBlock(b) ==
    /\ ~HaveBlock(b)
    /\ IF IsOrphan(b)
       THEN orphans' = orphans \cup {b} /\ UNCHANGED <<known, tip>>
       ELSE /\ known' = known \cup Accepted(b)
            /\ orphans' = orphans \ Accepted(b)
            /\ tip' \in connectBestChain(b, Accepted(b))
    /\ UNCHANGED failures

(***************************************************************************)
(* The rules of checkBlockHeaderContext about checkpoints, when the tip is *)
(* t.  maybeAcceptBlock applies them to some blocks and not to others,     *)
(* depending on the algorithms of a block and its parent.                  *)
(***************************************************************************)
BreaksCheckpoint(b, t) ==
    \E c \in Checkpoints : \/ Height(b) = Height(c) /\ b # c
                           \/ c \in OnChain(t) /\ Height(b) < Height(c)

DatabaseFails == failures < MaxFailures /\ failures' = failures + 1

(***************************************************************************)
(* ProcessBlock returns an error: the block is there already, or the       *)
(* database fails, or the blocks A have been accepted and x is refused, or *)
(* x is in the index and connecting it fails, at any step of a             *)
(* reorganization.  x has left the orphan pool, what waits for it has not. *)
(***************************************************************************)
reorganizeChain(t, x) ==
    {c \in OnChain(t) \cup OnChain(Parent(x)) : OnChain(t) \cap OnChain(x) \subseteq OnChain(c)}

MaybeAcceptFails(b, x, A) ==
    /\ x \notin A /\ \A c \in A \cup {x} : OnChain(c) \cap Accepted(b) \subseteq A \cup {c}
    /\ orphans' = orphans \ (A \cup {x})
    /\ \E t \in connectBestChain(b, A) :
          \/ /\ known' = known \cup A /\ tip' = t
             /\ DatabaseFails \/ (BreaksCheckpoint(x, t) /\ UNCHANGED failures)
          \/ /\ known' = known \cup A \cup {x} /\ tip' \in reorganizeChain(t, x)
             /\ DatabaseFails

ProcessBlockFails(b) ==
    \/ HaveBlock(b) /\ UNCHANGED chainVars
    \/ ~HaveBlock(b) /\ DatabaseFails /\ UNCHANGED <<known, orphans, tip>>
    \/ /\ ~HaveBlock(b) /\ ~IsOrphan(b)
       /\ \E x \in Accepted(b) : \E A \in SUBSET Accepted(b) : MaybeAcceptFails(b, x, A)

(***************************************************************************)
(* handleBlockMsg, when the block was not requested from this peer.        *)
(***************************************************************************)
UnrequestedBlock(p, b) ==
    /\ p \in peerStates /\ b \notin peerBlocks[p]
    /\ Disconnect(p)
    /\ UNCHANGED <<chainVars, txVars, headerVars, peerStates, syncCandidate, peerBlocks,
                   requestedBlocks, syncPeer, remote, heightUpdates>>

(***************************************************************************)
(* handleBlockMsg, up to ProcessBlock: in headers-first mode the first     *)
(* entry of the header list goes with its block, unless it is the          *)
(* checkpoint, which the next headers are linked to.                       *)
(***************************************************************************)
IsFirstHeader(b) == headersFirstMode /\ headerList # <<>> /\ Head(headerList) = b
IsCheckpointBlock(b) == IsFirstHeader(b) /\ b = nextCheckpoint
HeadersLeft(b) == IF IsFirstHeader(b) /\ ~IsCheckpointBlock(b)
                  THEN Tail(headerList) ELSE headerList
NotRequested(p, b) == [peerBlocks EXCEPT ![p] = @ \ {b}]

(***************************************************************************)
(* handleBlockMsg, when ProcessBlock returns an error.                     *)
(***************************************************************************)
RejectedBlock(p, b) ==
    /\ p \in peerStates /\ b \in peerBlocks[p]
    /\ ProcessBlockFails(b)
    /\ headerList' = HeadersLeft(b)
    /\ peerBlocks' = NotRequested(p, b)
    /\ requestedBlocks' = requestedBlocks \ {b}
    /\ link' = [link EXCEPT ![p] = Pop(p)]
    /\ UNCHANGED <<txVars, headersFirstMode, startHeader, nextCheckpoint, peerStates,
                   syncCandidate, syncPeer, remote, heightUpdates>>

(***************************************************************************)
(* handleBlockMsg, when ProcessBlock takes the block.  More blocks of the  *)
(* header list are fetched when few are on their way; the fault waits for  *)
(* one block too many.                                                     *)
(***************************************************************************)
FewerInFlight(n) == n + 1 < MinInFlight
FewInFlight(n) == n < MinInFlight

ProcessedBlock(p, b) ==
    LET height == IF IsOrphan(b) THEN Height(b) ELSE Height(tip')
        hash == IF IsOrphan(b) THEN b ELSE tip'
        asked == IF IsOrphan(b)
                 THEN PushGetBlocksMsg(Pop(p), remote[p], tip, OnChain(tip),
                                       OrphanRoot(orphans', b))
                 ELSE Pop(p)
        lk == [link EXCEPT ![p] = [asked EXCEPT !.lastBlock = height]]
        next == findNextHeaderCheckpoint(Height(nextCheckpoint))
        hl == HeadersLeft(b)
        pb == NotRequested(p, b)
        requested == requestedBlocks \ {b}
    IN  /\ p \in peerStates /\ b \in peerBlocks[p]
        /\ ProcessBlock(b)
        /\ rejectedTxns' = IF IsOrphan(b) THEN rejectedTxns ELSE {}
        /\ heightUpdates' =
              IF IsOrphan(b) \/ current(tip', lk)
              THEN heightUpdates \cup {[hash |-> hash, height |-> height, origin |-> p]}
              ELSE heightUpdates
        /\ \/ \* normal mode
              /\ ~headersFirstMode
              /\ link' = lk /\ requestedBlocks' = requested /\ peerBlocks' = pb
              /\ UNCHANGED headerVars
           \/ \* more blocks up to the checkpoint
              /\ headersFirstMode /\ ~IsCheckpointBlock(b)
              /\ headerList' = hl
              /\ IF startHeader # None /\ FewInFlight(Cardinality(pb[p]))
                 THEN fetchHeaderBlocks(hl, startHeader, known' \cup orphans', pb,
                                        requested, lk)
                 ELSE /\ link' = lk /\ requestedBlocks' = requested /\ peerBlocks' = pb
                      /\ UNCHANGED startHeader
              /\ UNCHANGED <<headersFirstMode, nextCheckpoint>>
           \/ \* the next headers after the checkpoint
              /\ IsCheckpointBlock(b) /\ next # None
              /\ nextCheckpoint' = next
              /\ link' = [lk EXCEPT ![p] = PushGetHeadersMsg(@, remote[p], b, {b}, next)]
              /\ requestedBlocks' = requested /\ peerBlocks' = pb
              /\ UNCHANGED <<headersFirstMode, headerList, startHeader>>
           \/ \* the final checkpoint
              /\ IsCheckpointBlock(b) /\ next = None
              /\ nextCheckpoint' = None /\ headersFirstMode' = FALSE /\ headerList' = <<>>
              /\ link' = [lk EXCEPT ![p] = PushGetBlocksMsg(@, remote[p], b, {b}, None)]
              /\ requestedBlocks' = requested /\ peerBlocks' = pb
              /\ UNCHANGED startHeader
        /\ UNCHANGED <<pool, requestedTxns, peerTxns, peerStates, syncCandidate, syncPeer,
                       remote>>

-----------------------------------------------------------------------------
(***************************************************************************)
(* handleInvMsg for an inventory of blocks.  Every inventory fits into one *)
(* getdata message, so the peer's requestQueue is empty between messages.  *)
(* The fault answers inventories in headers-first mode too.                *)
(***************************************************************************)
AskAgain(p, l, inv) ==
    LET \* the getblocks messages for the blocks that are known already
        More(k, i) ==
            CASE inv[i] \in orphans ->
                    PushGetBlocksMsg(k, remote[p], tip, OnChain(tip),
                                     OrphanRoot(orphans, inv[i]))
              [] inv[i] \in known /\ i = Len(inv) ->
                    PushGetBlocksMsg(k, remote[p], inv[i], OnChain(inv[i]), None)
              [] OTHER -> k
        asked[i \in 0..Len(inv)] == IF i = 0 THEN l ELSE More(asked[i - 1], i)
    IN  asked[Len(inv)]

IsNew(b) == ~HaveBlock(b) /\ b \notin requestedBlocks
NewBlocks(inv) == SelectSeq(inv, IsNew)

InvTakenInHeadersFirst(p) == p # syncPeer /\ ~current(tip, link)
InvIgnored(p) == (p # syncPeer /\ ~current(tip, link)) \/ headersFirstMode

handleInvMsg(p, inv) ==
    LET last == inv[Len(inv)]
        isCurrent == current(tip, link)
        l == [Pop(p) EXCEPT
                 !.announced = IF p # syncPeer \/ isCurrent THEN last ELSE @,
                 !.lastBlock = IF isCurrent /\ last \in OnChain(tip)
                               THEN Height(last) ELSE @]
        new == {b \in Elements(inv) : IsNew(b)}
    IN  /\ p \in peerStates
        /\ IF InvIgnored(p)
           THEN /\ link' = [link EXCEPT ![p] = l]
                /\ UNCHANGED <<requestedBlocks, peerBlocks>>
           ELSE /\ requestedBlocks' \in limitMap(requestedBlocks \cup new, MaxRequested)
                /\ peerBlocks' = [peerBlocks EXCEPT ![p] = @ \cup new]
                /\ link' = [link EXCEPT ![p] =
                              SendGetData(AskAgain(p, l, inv), remote[p], NewBlocks(inv))]
        /\ UNCHANGED <<chainVars, txVars, headerVars, peerStates, syncCandidate, syncPeer,
                       remote, heightUpdates>>

(***************************************************************************)
(* handleInvMsg for a transaction, which is ignored when it is known or    *)
(* requested already.  One that was rejected is ignored if the inventory   *)
(* is of the type InvTypeTx, and asked for again if it is of the type      *)
(* InvTypeWitnessTx.  The fault forgets the rejected ones.                 *)
(***************************************************************************)
RejectedTxIsNew(type, t) == t \in pool \cup requestedTxns
TxNeedsNoRequest(type, t) ==
    t \in pool \cup requestedTxns \/ (type = "invTx" /\ t \in rejectedTxns)

handleInvTx(p, type, t) ==
    LET ignored == \/ p # syncPeer /\ ~current(tip, link)
                   \/ headersFirstMode
                   \/ TxNeedsNoRequest(type, t)
    IN  /\ p \in peerStates
        /\ IF ignored
           THEN /\ link' = [link EXCEPT ![p] = Pop(p)]
                /\ UNCHANGED <<requestedTxns, peerTxns>>
           ELSE /\ requestedTxns' \in limitMap(requestedTxns \cup {t}, MaxRequested)
                /\ peerTxns' = [peerTxns EXCEPT ![p] = @ \cup {t}]
                /\ link' = [link EXCEPT ![p] = Deliver(Pop(p), <<Message("tx", <<t>>)>>)]
        /\ UNCHANGED <<chainVars, headerVars, pool, rejectedTxns, peerStates, syncCandidate,
                       peerBlocks, requestedBlocks, syncPeer, remote, heightUpdates>>

(***************************************************************************)
(* handleTxMsg: a rejected transaction is ignored, any other one goes to   *)
(* the memory pool, which may take it or not.                              *)
(***************************************************************************)
handleTxMsg(p, t) ==
    /\ p \in peerStates
    /\ link' = [link EXCEPT ![p] = Pop(p)]
    /\ \/ /\ t \in rejectedTxns
          /\ UNCHANGED txVars
       \/ /\ t \notin rejectedTxns
          /\ requestedTxns' = requestedTxns \ {t}
          /\ peerTxns' = [peerTxns EXCEPT ![p] = @ \ {t}]
          /\ \/ /\ t \notin pool
                /\ pool' = pool \cup {t}
                /\ UNCHANGED rejectedTxns
             \/ /\ rejectedTxns' \in limitMap(rejectedTxns \cup {t}, MaxRejected)
                /\ UNCHANGED pool
    /\ UNCHANGED <<chainVars, headerVars, peerStates, syncCandidate, peerBlocks,
                   requestedBlocks, syncPeer, remote, heightUpdates>>

(***************************************************************************)
(* A message of a peer that has no state is dropped.                       *)
(***************************************************************************)
FromUnknownPeer(p) ==
    /\ p \notin peerStates
    /\ link' = [link EXCEPT ![p] = Pop(p)]
    /\ UNCHANGED <<chainVars, txVars, headerVars, peerStates, syncCandidate, peerBlocks,
                   requestedBlocks, syncPeer, remote, heightUpdates>>

(***************************************************************************)
(* blockHandler takes the next message of p.  Its newPeerMsg comes before  *)
(* all others, but a connection may end while OnVersion, which announces   *)
(* it, still waits for the answer of IsCurrent: if the handler is busy for *)
(* a whole negotiateTimeout, DonePeer overtakes NewPeer.                   *)
(***************************************************************************)
Overtakes(m) == SlowHandshake /\ m.type = "done"

HandleMessage(p, m) ==
    LET is(t) == m.type = t /\ (t \in {"headers", "block", "inv"} => m.items \in Seq(Blocks))
    IN  \/ FromUnknownPeer(p)
        \/ is("done") /\ handleDonePeerMsg(p)
        \/ is("headers") /\ handleHeadersMsg(p, m.items)
        \/ is("block") /\ UnrequestedBlock(p, m.items[1])
        \/ is("block") /\ RejectedBlock(p, m.items[1])
        \/ is("block") /\ ProcessedBlock(p, m.items[1])
        \/ is("inv") /\ handleInvMsg(p, m.items)
        \/ is("invTx") /\ handleInvTx(p, "invTx", m.items[1])
        \/ is("invWitnessTx") /\ handleInvTx(p, "invWitnessTx", m.items[1])
        \/ is("tx") /\ handleTxMsg(p, m.items[1])

blockHandler(p) ==
    \/ /\ p \in arriving
       /\ handleNewPeerMsg(p)
    \/ /\ link[p].inbox # <<>>
       /\ p \in arriving => Overtakes(Head(link[p].inbox))
       /\ HandleMessage(p, Head(link[p].inbox))
       /\ UNCHANGED arriving

(***************************************************************************)
(* blockHandler takes a processBlockMsg of the miner or the RPC server.    *)
(***************************************************************************)
SubmitBlock(b) ==
    /\ b \in Local
    /\ ProcessBlock(b) \/ ProcessBlockFails(b)
    /\ UNCHANGED <<txVars, headerVars, peerStates, syncCandidate, peerBlocks,
                   requestedBlocks, syncPeer, arriving, link, remote, heightUpdates>>

(***************************************************************************)
(* The server applies an UpdatePeerHeights message.                        *)
(***************************************************************************)
HandleUpdatePeerHeights(u) ==
    /\ heightUpdates' = heightUpdates \ {u}
    /\ link' = [p \in Peers |->
                  IF p # u.origin /\ link[p].announced = u.hash
                  THEN [link[p] EXCEPT !.lastBlock = u.height, !.announced = None]
                  ELSE link[p]]
    /\ UNCHANGED <<chainVars, txVars, headerVars, peerStates, syncCandidate, peerBlocks,
                   requestedBlocks, syncPeer, arriving, remote>>

-----------------------------------------------------------------------------
(***************************************************************************)
(* The environment: connections are made and end, and peers announce what  *)
(* is new.  OnVersion tells the manager of a new connection with NewPeer.  *)
(***************************************************************************)
EnvUnchanged == UNCHANGED <<chainVars, txVars, headerVars, peerStates, syncCandidate,
                            peerBlocks, requestedBlocks, syncPeer, heightUpdates>>

Connect(p) ==
    /\ ~link[p].up /\ link[p].inbox = <<>> /\ p \notin peerStates \cup arriving
    /\ link[p].connects < MaxConnects
    /\ arriving' = arriving \cup {p}
    /\ link' = [link EXCEPT ![p] = [NoLink EXCEPT !.up = TRUE, !.connects = link[p].connects + 1,
                                                 !.lastBlock = Height(remote[p])]]
    /\ EnvUnchanged /\ UNCHANGED remote

LoseConnection(p) ==
    /\ link[p].up
    /\ \E l \in Close(link[p]) : link' = [link EXCEPT ![p] = l]
    /\ EnvUnchanged /\ UNCHANGED <<arriving, remote>>

(***************************************************************************)
(* A remote peer extends its chain, and announces the block with an inv    *)
(* message or, unasked, with a headers message.                            *)
(***************************************************************************)
Announce(p, b) ==
    /\ b # Genesis /\ Parent(b) = remote[p]
    /\ remote' = [remote EXCEPT ![p] = b]
    /\ link' = [link EXCEPT ![p] =
          Deliver(@, <<Message(IF p \in HeaderPeers THEN "headers" ELSE "inv", <<b>>)>>)]
    /\ EnvUnchanged /\ UNCHANGED arriving

(***************************************************************************)
(* A remote peer announces a transaction, once per connection, a full node *)
(* with an inventory of the type InvTypeTx and the light client of         *)
(* cmd/spv with one of the type InvTypeWitnessTx; other wallets send it    *)
(* without being asked.  invTxs keeps what was announced, with its type.   *)
(***************************************************************************)
AnnounceTx(p, t) ==
    /\ link[p].up /\ \A a \in link[p].invTxs : a[2] # t
    /\ \E type \in IF p \in FullNodes THEN {"invTx"} ELSE {"invWitnessTx", "tx"} :
          link' = [link EXCEPT ![p] =
              [Deliver(@, <<Message(type, <<t>>)>>) EXCEPT !.invTxs = @ \cup {<<type, t>>}]]
    /\ EnvUnchanged /\ UNCHANGED <<arriving, remote>>

Next ==
    \/ \E p \in Peers :
          \/ blockHandler(p) \/ Connect(p) \/ LoseConnection(p)
          \/ \E b \in Blocks : Announce(p, b)
          \/ \E t \in Txs : AnnounceTx(p, t)
    \/ \E b \in Blocks : SubmitBlock(b)
    \/ \E u \in heightUpdates : HandleUpdatePeerHeights(u)

(***************************************************************************)
(* The handler's goroutine runs as long as there are messages.  Nothing    *)
(* makes a peer connect, leave, or announce anything.                      *)
(***************************************************************************)
Fairness == \A p \in Peers : WF_vars(blockHandler(p))

Spec == Init /\ [][Next]_vars /\ Fairness

-----------------------------------------------------------------------------
(***************************************************************************)
(* Type correctness of what the manager keeps about peers and modes.  The  *)
(* sync peer and the candidates are peers that have a state.               *)
(***************************************************************************)
TypeOK ==
    /\ peerStates \subseteq Peers /\ arriving \subseteq Peers /\ syncCandidate \subseteq peerStates
    /\ syncPeer \in peerStates \cup {None}
    /\ DOMAIN peerBlocks = Peers /\ DOMAIN peerTxns = Peers
    /\ headersFirstMode \in BOOLEAN
    /\ nextCheckpoint \in Checkpoints \cup {None}
    /\ failures \in 0..MaxFailures

(***************************************************************************)
(* handleHeadersMsg dereferences nextCheckpoint and fetchHeaderBlocks and  *)
(* handleBlockMsg dereference syncPeer and its state without a test        *)
(* (manager.go 378, 796, 605): whenever headers-first mode is on they are  *)
(* there, whichever peers come and go in between.                          *)
(***************************************************************************)
HeadersFirstSafe == headersFirstMode => syncPeer # None /\ nextCheckpoint # None

(***************************************************************************)
(* A block or transaction that the manager takes for requested, and so     *)
(* asks no other peer for, is still owed by a peer that has a state: no    *)
(* request is lost with the peer it went to (manager.go 717-725).          *)
(***************************************************************************)
RequestsCovered ==
    /\ \A b \in requestedBlocks : \E p \in peerStates : b \in peerBlocks[p]
    /\ \A t \in requestedTxns : \E p \in peerStates : t \in peerTxns[p]

(***************************************************************************)
(* handleTxMsg ignores a transaction that is among the rejected ones and   *)
(* leaves it in the request maps, where it stays until its peer goes       *)
(* (manager.go 1049-1055).  That happens only to what was asked for after  *)
(* an inventory of the type InvTypeWitnessTx: no rejected transaction is   *)
(* taken for requested unless a peer that announced it so owes it.         *)
(***************************************************************************)
RejectedNotRequested ==
    \A t \in requestedTxns \cap rejectedTxns :
        \E p \in peerStates : t \in peerTxns[p] /\ <<"invWitnessTx", t>> \in link[p].invTxs

(***************************************************************************)
(* No branch leaves a checkpoint out.  Where one does, the chain may leave *)
(* a checkpoint it has passed: most blocks are accepted without the rules  *)
(* about checkpoints, and a lower block may become the tip.                *)
(***************************************************************************)
CheckpointsPassed ==
    \A b \in Blocks, c \in Checkpoints : b \in OnChain(c) \/ c \in OnChain(b)

(***************************************************************************)
(* Every block of the header list before startHeader is there already or   *)
(* owed by the sync peer: headers-first mode skips no block between two    *)
(* checkpoints, however the downloads are cut into getdata messages, as    *)
(* long as the database stores what arrives.                               *)
(***************************************************************************)
HeadersFetched ==
    headersFirstMode /\ failures = 0 =>
        \A i \in 1..Len(headerList) :
            (\A j \in 1..i : headerList[j] # startHeader) =>
                HaveBlock(headerList[i]) \/ headerList[i] \in peerBlocks[syncPeer]

(***************************************************************************)
(* What is on its way in headers-first mode belongs to the download: only  *)
(* the sync peer owes blocks, and it owes blocks of the header list before *)
(* startHeader, although inventories were answered before the mode began   *)
(* and other peers have come and gone.  handleBlockMsg relies on it: it    *)
(* takes the front of the list for the block that arrives, and counts what *)
(* the peer owes to decide whether to ask for more (manager.go 461, 582).  *)
(***************************************************************************)
OwedIsListed ==
    headersFirstMode =>
        \A p \in Peers : \A b \in peerBlocks[p] :
            /\ p = syncPeer
            /\ \E i \in 1..Len(headerList) :
                  b = headerList[i] /\ \A j \in 1..i : headerList[j] # startHeader

(***************************************************************************)
(* As long as a peer stays the sync peer, the chain catches up with its    *)
(* chain: the duplicate filter of getblocks, the ends of inventories, the  *)
(* change from headers to blocks and the checkpoints stop it nowhere.      *)
(***************************************************************************)
SyncProgress ==
    \A p \in Peers :
        (syncPeer = p) ~> (syncPeer # p \/ Height(tip) >= Height(remote[p]))
=============================================================================
