-------------------------- MODULE SyncManager_proofs --------------------------
(***************************************************************************)
(* Proofs about the sync manager.  Nothing is assumed about what the peers *)
(* send: the links are not typed, so the theorems hold whatever the remote *)
(* side answers.  The second half follows a headers-first download from    *)
(* the first getheaders to the last checkpoint: what is owed are blocks of *)
(* the header list, and no header is skipped.                              *)
(***************************************************************************)
EXTENDS SyncManager, FiniteSetTheorems, WellFoundedInduction, TLAPS

(***************************************************************************)
(* The inductive invariant.  A peer whose newPeerMsg is still to come has  *)
(* no state yet; handleNewPeerMsg would otherwise drop what it owes.       *)
(***************************************************************************)
NewPeersNew == arriving \cap peerStates = {}

Inv == TypeOK /\ HeadersFirstSafe /\ RequestsCovered /\ NewPeersNew

(***************************************************************************)
(* limitMap only takes entries away.                                       *)
(***************************************************************************)
LEMMA LimitMapShrinks ==
    ASSUME NEW S, NEW n, NEW T \in limitMap(S, n)
    PROVE  T \subseteq S
BY DEF limitMap

(***************************************************************************)
(* A non-empty set of naturals has a least element.                        *)
(***************************************************************************)
LEMMA LeastNatural ==
    ASSUME NEW T \in SUBSET Nat, T # {}
    PROVE  \E x \in T : \A y \in T : x <= y
<1>1. PICK x \in T : \A y \in T : ~(<<y, x>> \in OpToRel(<, Nat))
  BY NatLessThanWellFounded, WFMin
<1>2. \A y \in T : ~(y < x)
  BY <1>1 DEF OpToRel
<1>. QED  BY <1>2

(***************************************************************************)
(* findNextHeaderCheckpoint returns a checkpoint or nil.                   *)
(***************************************************************************)
LEMMA HeightType == ASSUME NEW b \in Blocks PROVE Height(b) \in Int
<1>1. Path[b] \in Seq(Blocks)
  BY SyncAssumption
<1>. QED  BY <1>1 DEF Height

LEMMA CheckpointAbove ==
    ASSUME NEW h \in Int, ~(\A c \in Checkpoints : Height(c) <= h)
    PROVE  \E c \in Checkpoints :
              /\ Height(c) > h
              /\ \A d \in Checkpoints : Height(d) > h => Height(c) <= Height(d)
<1>. DEFINE Above == {c \in Checkpoints : Height(c) > h}
            D == {Height(c) - h : c \in Above}
<1>0. Checkpoints \subseteq Blocks
  BY SyncAssumption
<1>1. Above # {}
  BY <1>0, HeightType
<1>2. D \in SUBSET Nat /\ D # {}
  BY <1>0, <1>1, HeightType
<1>3. PICK d \in D : \A e \in D : d <= e
  BY <1>2, LeastNatural
<1>4. PICK c \in Above : d = Height(c) - h
  BY <1>3
<1>5. \A e \in Checkpoints : Height(e) > h => Height(c) <= Height(e)
  <2>1. SUFFICES ASSUME NEW e \in Checkpoints, Height(e) > h
                 PROVE  Height(c) <= Height(e)
    OBVIOUS
  <2>2. Height(e) - h \in D
    BY <2>1
  <2>3. Height(c) - h <= Height(e) - h
    BY <1>3, <1>4, <2>2
  <2>. QED  BY <1>0, <2>3, HeightType
<1>. QED  BY <1>4, <1>5

LEMMA NextCheckpointType ==
    ASSUME NEW h \in Int
    PROVE  findNextHeaderCheckpoint(h) \in Checkpoints \cup {None}
<1>1. CASE \A c \in Checkpoints : Height(c) <= h
  BY <1>1 DEF findNextHeaderCheckpoint
<1>2. CASE ~(\A c \in Checkpoints : Height(c) <= h)
  <2>1. \E c \in Checkpoints :
           /\ Height(c) > h
           /\ \A d \in Checkpoints : Height(d) > h => Height(c) <= Height(d)
    BY <1>2, CheckpointAbove
  <2>. QED  BY <1>2, <2>1 DEF findNextHeaderCheckpoint
<1>. QED  BY <1>1, <1>2

-----------------------------------------------------------------------------
(***************************************************************************)
(* What startSync leaves when headers-first mode is off.                   *)
(***************************************************************************)
LEMMA StartSyncFacts ==
    ASSUME NEW cands \in SUBSET Peers, NEW requested, NEW mode, mode = FALSE, NEW lk,
           startSync(cands, requested, mode, lk)
    PROVE  /\ syncCandidate' \subseteq cands
           /\ syncPeer' \in cands \cup {None}
           /\ requestedBlocks' \subseteq requested
           /\ headersFirstMode' \in BOOLEAN
           /\ headersFirstMode' => syncPeer' # None /\ nextCheckpoint # None
<1>1. None \notin Peers
  BY SyncAssumption
<1>2. {p \in cands : lk[p].lastBlock >= Height(tip)} \subseteq cands
  OBVIOUS
<1>. DEFINE left == {p \in cands : lk[p].lastBlock >= Height(tip)}
            useHeaders == nextCheckpoint # None /\ Height(tip) < Height(nextCheckpoint)
<1>3. /\ syncCandidate' = left
      /\ \/ left = {} /\ syncPeer' = None /\ requestedBlocks' = requested
            /\ headersFirstMode' = mode
         \/ \E p \in left : syncPeer' = p /\ requestedBlocks' = {}
               /\ headersFirstMode' = (mode \/ useHeaders)
  BY DEF startSync
<1>4. CASE left = {} /\ syncPeer' = None /\ requestedBlocks' = requested
           /\ headersFirstMode' = mode
  BY <1>2, <1>3, <1>4
<1>5. CASE \E p \in left : syncPeer' = p /\ requestedBlocks' = {}
               /\ headersFirstMode' = (mode \/ useHeaders)
  BY <1>1, <1>2, <1>3, <1>5
<1>. QED  BY <1>3, <1>4, <1>5

LEMMA NewPeerInv ==
    ASSUME Inv, NEW p \in Peers, p \in arriving, handleNewPeerMsg(p)
    PROVE  Inv'
<1>. USE DEF Inv, TypeOK, NewPeersNew
<1>. DEFINE cands == IF p \in FullNodes THEN syncCandidate \cup {p} ELSE syncCandidate
<1>0. p \notin peerStates /\ cands \in SUBSET Peers /\ cands \subseteq peerStates'
  BY DEF handleNewPeerMsg
<1>1. /\ arriving' = arriving \ {p} /\ peerStates' = peerStates \cup {p}
      /\ peerBlocks' = [peerBlocks EXCEPT ![p] = {}]
      /\ peerTxns' = [peerTxns EXCEPT ![p] = {}]
      /\ nextCheckpoint' = nextCheckpoint /\ failures' = failures
      /\ requestedTxns' = requestedTxns
  BY DEF handleNewPeerMsg, chainVars
<1>2. /\ syncCandidate' \subseteq cands
      /\ syncPeer' \in peerStates' \cup {None}
      /\ requestedBlocks' \subseteq requestedBlocks
      /\ headersFirstMode' \in BOOLEAN
      /\ headersFirstMode' => syncPeer' # None /\ nextCheckpoint # None
  <2>1. CASE p \in FullNodes /\ syncPeer = None
    <3>1. startSync(cands, requestedBlocks, headersFirstMode, link) /\ headersFirstMode = FALSE
      BY <2>1 DEF handleNewPeerMsg, HeadersFirstSafe
    <3>. QED  BY <1>0, <3>1, StartSyncFacts
  <2>2. CASE ~(p \in FullNodes /\ syncPeer = None)
    BY <1>1, <2>2 DEF handleNewPeerMsg, HeadersFirstSafe
  <2>. QED  BY <2>1, <2>2
<1>3. TypeOK'
  BY <1>0, <1>1, <1>2
<1>4. HeadersFirstSafe'
  BY <1>1, <1>2 DEF HeadersFirstSafe
<1>5. RequestsCovered'
  BY <1>0, <1>1, <1>2 DEF RequestsCovered
<1>6. NewPeersNew'
  BY <1>0, <1>1
<1>. QED  BY <1>3, <1>4, <1>5, <1>6

LEMMA DonePeerInv ==
    ASSUME Inv, NEW p \in Peers, handleDonePeerMsg(p), arriving' = arriving
    PROVE  Inv'
<1>. USE DEF Inv, TypeOK, NewPeersNew
<1>1. /\ p \in peerStates /\ peerStates' = peerStates \ {p}
      /\ peerBlocks' = [peerBlocks EXCEPT ![p] = {}]
      /\ peerTxns' = [peerTxns EXCEPT ![p] = {}]
      /\ nextCheckpoint' = nextCheckpoint /\ failures' = failures
      /\ requestedTxns' = requestedTxns \ peerTxns[p]
  BY DEF handleDonePeerMsg, chainVars
<1>2. /\ syncCandidate' \subseteq syncCandidate \ {p}
      /\ syncPeer' \in peerStates' \cup {None}
      /\ requestedBlocks' \subseteq requestedBlocks \ peerBlocks[p]
      /\ headersFirstMode' \in BOOLEAN
      /\ headersFirstMode' => syncPeer' # None /\ nextCheckpoint # None
  <2>1. CASE syncPeer = p
    <3>1. startSync(syncCandidate \ {p}, RequestsWithout(p), FALSE,
                    [link EXCEPT ![p] = Pop(p)])
      BY <2>1 DEF handleDonePeerMsg, LosesSyncPeer, ModeAfterReset
    <3>2. syncCandidate \ {p} \in SUBSET Peers /\ syncCandidate \ {p} \subseteq peerStates'
      BY <1>1
    <3>. QED  BY <3>1, <3>2, StartSyncFacts DEF RequestsWithout
  <2>2. CASE syncPeer # p
    BY <1>1, <2>2 DEF handleDonePeerMsg, LosesSyncPeer, HeadersFirstSafe, RequestsWithout
  <2>. QED  BY <2>1, <2>2
<1>3. TypeOK'
  BY <1>1, <1>2
<1>4. HeadersFirstSafe'
  BY <1>1, <1>2 DEF HeadersFirstSafe
<1>5. RequestsCovered'
  BY <1>1, <1>2 DEF RequestsCovered
<1>6. NewPeersNew'
  BY <1>1
<1>. QED  BY <1>3, <1>4, <1>5, <1>6

-----------------------------------------------------------------------------
(***************************************************************************)
(* A step that only adds requests to a peer with a state, and takes away   *)
(* the same request from a peer and from the global map, keeps             *)
(* RequestsCovered for blocks.                                             *)
(***************************************************************************)
BlocksCovered(requested, pb) ==
    \A b \in requested : \E p \in peerStates : b \in pb[p]

LEMMA AddRequests ==
    ASSUME NEW pb, DOMAIN pb = Peers, NEW requested, BlocksCovered(requested, pb),
           NEW q \in peerStates, peerStates \subseteq Peers, NEW asked
    PROVE  /\ BlocksCovered(requested \cup asked, [pb EXCEPT ![q] = @ \cup asked])
           /\ DOMAIN [pb EXCEPT ![q] = @ \cup asked] = Peers
BY DEF BlocksCovered

LEMMA DropRequest ==
    ASSUME NEW pb, DOMAIN pb = Peers, NEW requested, BlocksCovered(requested, pb),
           NEW q \in peerStates, peerStates \subseteq Peers, NEW b
    PROVE  /\ BlocksCovered(requested \ {b}, [pb EXCEPT ![q] = @ \ {b}])
           /\ DOMAIN [pb EXCEPT ![q] = @ \ {b}] = Peers
<1>1. SUFFICES ASSUME NEW c \in requested \ {b}
               PROVE  \E p \in peerStates : c \in [pb EXCEPT ![q] = @ \ {b}][p]
  BY DEF BlocksCovered
<1>2. PICK p \in peerStates : c \in pb[p]
  BY DEF BlocksCovered
<1>3. c \in [pb EXCEPT ![q] = @ \ {b}][p]
  BY <1>2
<1>. QED  BY <1>3

LEMMA FetchFacts ==
    ASSUME NEW hl, NEW start, NEW have, NEW pb, DOMAIN pb = Peers, NEW requested, NEW lk,
           peerStates \subseteq Peers, syncPeer \in peerStates,
           BlocksCovered(requested, pb),
           fetchHeaderBlocks(hl, start, have, pb, requested, lk)
    PROVE  BlocksCovered(requestedBlocks', peerBlocks') /\ DOMAIN peerBlocks' = Peers
<1>1. PICK asked : /\ requestedBlocks' = requested \cup asked
                   /\ peerBlocks' = [pb EXCEPT ![syncPeer] = @ \cup asked]
  BY DEF fetchHeaderBlocks
<1>. QED  BY <1>1, AddRequests

(***************************************************************************)
(* The invariant of a step that leaves the peers' states, the sync peer    *)
(* and the transactions alone.                                             *)
(***************************************************************************)
LEMMA BlockStepInv ==
    ASSUME Inv, UNCHANGED <<peerStates, syncCandidate, syncPeer, arriving>>,
           UNCHANGED <<requestedTxns, peerTxns>>,
           failures' \in 0..MaxFailures,
           BlocksCovered(requestedBlocks', peerBlocks'), DOMAIN peerBlocks' = Peers,
           nextCheckpoint' \in Checkpoints \cup {None}, headersFirstMode' \in BOOLEAN,
           headersFirstMode' => headersFirstMode /\ nextCheckpoint' # None
    PROVE  Inv'
<1>. USE DEF Inv, TypeOK, NewPeersNew
<1>1. TypeOK'
  OBVIOUS
<1>2. HeadersFirstSafe'
  BY DEF HeadersFirstSafe
<1>3. RequestsCovered'
  BY DEF RequestsCovered, BlocksCovered
<1>4. NewPeersNew'
  OBVIOUS
<1>. QED  BY <1>1, <1>2, <1>3, <1>4

LEMMA HeadersInv ==
    ASSUME Inv, NEW p \in Peers, NEW hs, handleHeadersMsg(p, hs), arriving' = arriving
    PROVE  Inv'
<1>. USE DEF Inv, TypeOK
<1>1. /\ UNCHANGED <<peerStates, syncCandidate, syncPeer, nextCheckpoint, headersFirstMode>>
      /\ UNCHANGED <<requestedTxns, peerTxns, failures>>
  BY DEF handleHeadersMsg, chainVars, txVars
<1>2. BlocksCovered(requestedBlocks, peerBlocks)
  BY DEF RequestsCovered, BlocksCovered
<1>3. BlocksCovered(requestedBlocks', peerBlocks') /\ DOMAIN peerBlocks' = Peers
  <2>1. \/ UNCHANGED <<requestedBlocks, peerBlocks>>
        \/ /\ headersFirstMode
           /\ \E hl, start, lk : fetchHeaderBlocks(hl, start, known \cup orphans, peerBlocks,
                                                   requestedBlocks, lk)
    BY DEF handleHeadersMsg
  <2>2. CASE UNCHANGED <<requestedBlocks, peerBlocks>>
    BY <1>1, <1>2, <2>2 DEF BlocksCovered
  <2>3. CASE /\ headersFirstMode
             /\ \E hl, start, lk : fetchHeaderBlocks(hl, start, known \cup orphans, peerBlocks,
                                                     requestedBlocks, lk)
    <3>1. syncPeer \in peerStates
      BY <2>3 DEF HeadersFirstSafe
    <3>. QED  BY <1>2, <2>3, <3>1, FetchFacts
  <2>. QED  BY <2>1, <2>2, <2>3
<1>4. headersFirstMode' => headersFirstMode /\ nextCheckpoint' # None
  BY <1>1 DEF HeadersFirstSafe
<1>. QED  BY <1>1, <1>3, <1>4, BlockStepInv

LEMMA UnrequestedInv ==
    ASSUME Inv, NEW p \in Peers, NEW b, UnrequestedBlock(p, b), arriving' = arriving
    PROVE  Inv'
<1>1. /\ UNCHANGED <<peerStates, syncCandidate, syncPeer, nextCheckpoint, headersFirstMode>>
      /\ UNCHANGED <<requestedTxns, peerTxns, failures>>
      /\ UNCHANGED <<requestedBlocks, peerBlocks>>
  BY DEF UnrequestedBlock, chainVars, txVars, headerVars
<1>. QED  BY <1>1, BlockStepInv
     DEF Inv, TypeOK, RequestsCovered, BlocksCovered, HeadersFirstSafe

LEMMA FailuresType ==
    ASSUME NEW b, ProcessBlock(b) \/ ProcessBlockFails(b), failures \in 0..MaxFailures
    PROVE  failures' \in 0..MaxFailures
<1>1. failures' = failures \/ DatabaseFails
  BY DEF ProcessBlock, ProcessBlockFails, MaybeAcceptFails, chainVars
<1>. QED  BY <1>1, SyncAssumption DEF DatabaseFails

LEMMA RejectedInv ==
    ASSUME Inv, NEW p \in Peers, NEW b, RejectedBlock(p, b), arriving' = arriving
    PROVE  Inv'
<1>. USE DEF Inv, TypeOK
<1>1. /\ UNCHANGED <<peerStates, syncCandidate, syncPeer, nextCheckpoint, headersFirstMode>>
      /\ UNCHANGED <<requestedTxns, peerTxns>>
      /\ ProcessBlockFails(b)
      /\ p \in peerStates
      /\ peerBlocks' = [peerBlocks EXCEPT ![p] = @ \ {b}]
      /\ requestedBlocks' = requestedBlocks \ {b}
  BY DEF RejectedBlock, txVars, NotRequested
<1>2. failures' \in 0..MaxFailures
  BY <1>1, FailuresType
<1>3. BlocksCovered(requestedBlocks, peerBlocks)
  BY DEF RequestsCovered, BlocksCovered
<1>4. BlocksCovered(requestedBlocks', peerBlocks') /\ DOMAIN peerBlocks' = Peers
  BY <1>1, <1>3, DropRequest
<1>. QED  BY <1>1, <1>2, <1>4, BlockStepInv DEF HeadersFirstSafe

LEMMA ProcessedInv ==
    ASSUME Inv, NEW p \in Peers, NEW b, ProcessedBlock(p, b), arriving' = arriving
    PROVE  Inv'
<1>. USE DEF Inv, TypeOK
<1>. DEFINE next == findNextHeaderCheckpoint(Height(nextCheckpoint))
            pb == NotRequested(p, b)
            requested == requestedBlocks \ {b}
<1>1. /\ UNCHANGED <<peerStates, syncCandidate, syncPeer>>
      /\ UNCHANGED <<requestedTxns, peerTxns, failures>>
      /\ p \in peerStates
  BY DEF ProcessedBlock, ProcessBlock
<1>2. BlocksCovered(requestedBlocks, peerBlocks)
  BY DEF RequestsCovered, BlocksCovered
<1>3. BlocksCovered(requested, pb) /\ DOMAIN pb = Peers
  BY <1>1, <1>2, DropRequest DEF NotRequested
<1>4. \/ /\ ~headersFirstMode /\ requestedBlocks' = requested /\ peerBlocks' = pb
         /\ UNCHANGED <<headersFirstMode, nextCheckpoint>>
      \/ /\ headersFirstMode
         /\ UNCHANGED <<headersFirstMode, nextCheckpoint>>
         /\ \/ requestedBlocks' = requested /\ peerBlocks' = pb
            \/ \E hl, start, have, lk : fetchHeaderBlocks(hl, start, have, pb, requested, lk)
      \/ /\ IsCheckpointBlock(b) /\ next # None
         /\ nextCheckpoint' = next /\ headersFirstMode' = headersFirstMode
         /\ requestedBlocks' = requested /\ peerBlocks' = pb
      \/ /\ IsCheckpointBlock(b) /\ next = None
         /\ nextCheckpoint' = None /\ headersFirstMode' = FALSE
         /\ requestedBlocks' = requested /\ peerBlocks' = pb
  BY DEF ProcessedBlock, headerVars
<1>5. BlocksCovered(requestedBlocks', peerBlocks') /\ DOMAIN peerBlocks' = Peers
  <2>1. CASE requestedBlocks' = requested /\ peerBlocks' = pb
    BY <1>3, <2>1
  <2>2. CASE /\ headersFirstMode
             /\ \E hl, start, have, lk :
                   fetchHeaderBlocks(hl, start, have, pb, requested, lk)
    <3>1. syncPeer \in peerStates
      BY <2>2 DEF HeadersFirstSafe
    <3>. QED  BY <1>3, <2>2, <3>1, FetchFacts
  <2>. QED  BY <1>4, <2>1, <2>2
<1>6. /\ nextCheckpoint' \in Checkpoints \cup {None} /\ headersFirstMode' \in BOOLEAN
      /\ headersFirstMode' => headersFirstMode /\ nextCheckpoint' # None
  <2>1. CASE UNCHANGED <<headersFirstMode, nextCheckpoint>>
    BY <2>1 DEF HeadersFirstSafe
  <2>2. CASE /\ IsCheckpointBlock(b) /\ next # None
             /\ nextCheckpoint' = next /\ headersFirstMode' = headersFirstMode
    <3>1. headersFirstMode /\ nextCheckpoint \in Blocks
      BY <2>2, SyncAssumption DEF IsCheckpointBlock, IsFirstHeader, HeadersFirstSafe
    <3>2. next \in Checkpoints \cup {None}
      BY <3>1, HeightType, NextCheckpointType
    <3>. QED  BY <2>2, <3>1, <3>2
  <2>3. CASE nextCheckpoint' = None /\ headersFirstMode' = FALSE
    BY <2>3
  <2>. QED  BY <1>4, <2>1, <2>2, <2>3
<1>. QED  BY <1>1, <1>5, <1>6, BlockStepInv

LEMMA InvMsgInv ==
    ASSUME Inv, NEW p \in Peers, NEW inv, handleInvMsg(p, inv), arriving' = arriving
    PROVE  Inv'
<1>. USE DEF Inv, TypeOK
<1>1. /\ UNCHANGED <<peerStates, syncCandidate, syncPeer, nextCheckpoint, headersFirstMode>>
      /\ UNCHANGED <<requestedTxns, peerTxns, failures>>
      /\ p \in peerStates
      /\ \/ UNCHANGED <<requestedBlocks, peerBlocks>>
         \/ \E asked : /\ requestedBlocks' \in limitMap(requestedBlocks \cup asked, MaxRequested)
                       /\ peerBlocks' = [peerBlocks EXCEPT ![p] = @ \cup asked]
  BY DEF handleInvMsg, chainVars, txVars, headerVars
<1>2. BlocksCovered(requestedBlocks, peerBlocks)
  BY DEF RequestsCovered, BlocksCovered
<1>3. BlocksCovered(requestedBlocks', peerBlocks') /\ DOMAIN peerBlocks' = Peers
  <2>1. CASE UNCHANGED <<requestedBlocks, peerBlocks>>
    BY <1>2, <2>1
  <2>2. ASSUME NEW asked,
               requestedBlocks' \in limitMap(requestedBlocks \cup asked, MaxRequested),
               peerBlocks' = [peerBlocks EXCEPT ![p] = @ \cup asked]
        PROVE  BlocksCovered(requestedBlocks', peerBlocks') /\ DOMAIN peerBlocks' = Peers
    <3>1. BlocksCovered(requestedBlocks \cup asked, peerBlocks') /\ DOMAIN peerBlocks' = Peers
      BY <1>1, <1>2, <2>2, AddRequests
    <3>2. requestedBlocks' \subseteq requestedBlocks \cup asked
      BY <2>2, LimitMapShrinks
    <3>. QED  BY <3>1, <3>2 DEF BlocksCovered
  <2>. QED  BY <1>1, <2>1, <2>2
<1>. QED  BY <1>1, <1>3, BlockStepInv DEF HeadersFirstSafe

(***************************************************************************)
(* The invariant of a step that changes nothing but transactions.          *)
(***************************************************************************)
LEMMA TxStepInv ==
    ASSUME Inv, UNCHANGED <<peerStates, syncCandidate, syncPeer, arriving, nextCheckpoint>>,
           UNCHANGED <<headersFirstMode, failures, requestedBlocks, peerBlocks>>,
           DOMAIN peerTxns' = Peers,
           \A t \in requestedTxns' : \E p \in peerStates : t \in peerTxns'[p]
    PROVE  Inv'
<1>. USE DEF Inv, TypeOK, NewPeersNew
<1>1. TypeOK' /\ NewPeersNew'
  OBVIOUS
<1>2. HeadersFirstSafe'
  BY DEF HeadersFirstSafe
<1>3. RequestsCovered'
  BY DEF RequestsCovered
<1>. QED  BY <1>1, <1>2, <1>3

LEMMA InvTxInv ==
    ASSUME Inv, NEW p \in Peers, NEW type, NEW t, handleInvTx(p, type, t), arriving' = arriving
    PROVE  Inv'
<1>. USE DEF Inv, TypeOK
<1>1. /\ UNCHANGED <<peerStates, syncCandidate, syncPeer, nextCheckpoint, headersFirstMode>>
      /\ UNCHANGED <<failures, requestedBlocks, peerBlocks>>
      /\ p \in peerStates
  BY DEF handleInvTx, chainVars, headerVars
<1>2. CASE UNCHANGED <<requestedTxns, peerTxns>>
  BY <1>1, <1>2, TxStepInv DEF RequestsCovered
<1>3. CASE /\ requestedTxns' \in limitMap(requestedTxns \cup {t}, MaxRequested)
           /\ peerTxns' = [peerTxns EXCEPT ![p] = @ \cup {t}]
  <2>1. requestedTxns' \subseteq requestedTxns \cup {t}
    BY <1>3, LimitMapShrinks
  <2>3. ASSUME NEW u \in requestedTxns'
        PROVE  \E q \in peerStates : u \in peerTxns'[q]
    <3>1. CASE u = t
      BY <1>1, <1>3, <3>1
    <3>2. CASE u # t
      <4>1. PICK q \in peerStates : u \in peerTxns[q]
        BY <2>1, <3>2 DEF RequestsCovered
      <4>. QED  BY <1>1, <1>3, <4>1
    <3>. QED  BY <3>1, <3>2
  <2>. QED  BY <1>1, <1>3, <2>3, TxStepInv
<1>. QED  BY <1>2, <1>3 DEF handleInvTx

LEMMA TxMsgInv ==
    ASSUME Inv, NEW p \in Peers, NEW t, handleTxMsg(p, t), arriving' = arriving
    PROVE  Inv'
<1>. USE DEF Inv, TypeOK
<1>1. /\ UNCHANGED <<peerStates, syncCandidate, syncPeer, nextCheckpoint, headersFirstMode>>
      /\ UNCHANGED <<failures, requestedBlocks, peerBlocks>>
      /\ p \in peerStates
  BY DEF handleTxMsg, chainVars, headerVars
<1>2. CASE UNCHANGED <<requestedTxns, peerTxns>>
  BY <1>1, <1>2, TxStepInv DEF RequestsCovered
<1>3. CASE /\ requestedTxns' = requestedTxns \ {t}
           /\ peerTxns' = [peerTxns EXCEPT ![p] = @ \ {t}]
  <2>3. ASSUME NEW u \in requestedTxns'
        PROVE  \E q \in peerStates : u \in peerTxns'[q]
    <3>1. PICK q \in peerStates : u \in peerTxns[q]
      BY <1>3 DEF RequestsCovered
    <3>. QED  BY <1>1, <1>3, <3>1
  <2>. QED  BY <1>1, <1>3, <2>3, TxStepInv
<1>. QED  BY <1>2, <1>3 DEF handleTxMsg, txVars

-----------------------------------------------------------------------------
LEMMA UnchangedInv ==
    ASSUME Inv, UNCHANGED <<peerStates, syncCandidate, syncPeer, arriving, nextCheckpoint>>,
           UNCHANGED <<headersFirstMode, requestedBlocks, peerBlocks>>,
           UNCHANGED <<requestedTxns, peerTxns>>, failures' \in {failures} \cup 0..MaxFailures
    PROVE  Inv'
BY DEF Inv, TypeOK, NewPeersNew, HeadersFirstSafe, RequestsCovered

LEMMA InitInv == Init => Inv
<1>. SUFFICES ASSUME Init PROVE Inv
  OBVIOUS
<1>1. Height(FirstTip) \in Int
  BY SyncAssumption, HeightType
<1>2. nextCheckpoint \in Checkpoints \cup {None}
  BY <1>1, NextCheckpointType DEF Init
<1>3. failures \in 0..MaxFailures
  BY SyncAssumption DEF Init
<1>. QED  BY <1>2, <1>3
     DEF Init, Inv, TypeOK, NewPeersNew, HeadersFirstSafe, RequestsCovered

LEMMA StepInv == Inv /\ [Next]_vars => Inv'
<1>. SUFFICES ASSUME Inv, [Next]_vars PROVE Inv'
  OBVIOUS
<1>1. ASSUME NEW p \in Peers, blockHandler(p) PROVE Inv'
  <2>1. CASE p \in arriving /\ handleNewPeerMsg(p)
    BY <2>1, NewPeerInv
  <2>2. ASSUME NEW m, HandleMessage(p, m), arriving' = arriving PROVE Inv'
    <3>1. CASE FromUnknownPeer(p)
      BY <2>2, <3>1, UnchangedInv DEF FromUnknownPeer, chainVars, txVars, headerVars
    <3>2. CASE handleDonePeerMsg(p)
      BY <2>2, <3>2, DonePeerInv
    <3>3. CASE handleHeadersMsg(p, m.items)
      BY <2>2, <3>3, HeadersInv
    <3>4. CASE UnrequestedBlock(p, m.items[1])
      BY <2>2, <3>4, UnrequestedInv
    <3>5. CASE RejectedBlock(p, m.items[1])
      BY <2>2, <3>5, RejectedInv
    <3>6. CASE ProcessedBlock(p, m.items[1])
      BY <2>2, <3>6, ProcessedInv
    <3>7. CASE handleInvMsg(p, m.items)
      BY <2>2, <3>7, InvMsgInv
    <3>8. CASE \E type : handleInvTx(p, type, m.items[1])
      BY <2>2, <3>8, InvTxInv
    <3>9. CASE handleTxMsg(p, m.items[1])
      BY <2>2, <3>9, TxMsgInv
    <3>. QED  BY <2>2, <3>1, <3>2, <3>3, <3>4, <3>5, <3>6, <3>7, <3>8, <3>9 DEF HandleMessage
  <2>. QED  BY <1>1, <2>1, <2>2 DEF blockHandler
<1>2. ASSUME NEW p \in Peers, Connect(p) PROVE Inv'
  BY <1>2 DEF Connect, EnvUnchanged, chainVars, txVars, headerVars,
     Inv, TypeOK, NewPeersNew, HeadersFirstSafe, RequestsCovered
<1>3. ASSUME NEW p \in Peers, LoseConnection(p) PROVE Inv'
  BY <1>3, UnchangedInv DEF LoseConnection, EnvUnchanged, chainVars, txVars, headerVars
<1>4. ASSUME NEW p \in Peers, NEW b \in Blocks, Announce(p, b) PROVE Inv'
  BY <1>4, UnchangedInv DEF Announce, EnvUnchanged, chainVars, txVars, headerVars
<1>5. ASSUME NEW p \in Peers, NEW t \in Txs, AnnounceTx(p, t) PROVE Inv'
  BY <1>5, UnchangedInv DEF AnnounceTx, EnvUnchanged, chainVars, txVars, headerVars
<1>6. ASSUME NEW b \in Blocks, SubmitBlock(b) PROVE Inv'
  <2>1. failures' \in 0..MaxFailures
    BY <1>6, FailuresType DEF SubmitBlock, Inv, TypeOK
  <2>. QED  BY <1>6, <2>1, UnchangedInv DEF SubmitBlock, txVars, headerVars
<1>7. ASSUME NEW u \in heightUpdates, HandleUpdatePeerHeights(u) PROVE Inv'
  BY <1>7, UnchangedInv DEF HandleUpdatePeerHeights, chainVars, txVars, headerVars
<1>8. CASE UNCHANGED vars
  BY <1>8, UnchangedInv DEF vars, chainVars, txVars, headerVars
<1>. QED  BY <1>1, <1>2, <1>3, <1>4, <1>5, <1>6, <1>7, <1>8 DEF Next

(***************************************************************************)
(* The manager's control state is well-typed: the sync peer and the        *)
(* candidates always have a state, also after peers have come and gone.    *)
(***************************************************************************)
THEOREM SyncTypeCorrect == Spec => []TypeOK
<1>1. Inv => TypeOK
  BY DEF Inv
<1>. QED  BY <1>1, InitInv, StepInv, PTL DEF Spec

(***************************************************************************)
(* Headers-first mode is never on without a sync peer and a checkpoint     *)
(* ahead: the pointers handleHeadersMsg, fetchHeaderBlocks and             *)
(* handleBlockMsg dereference are there.                                   *)
(***************************************************************************)
THEOREM SyncHeadersFirstSafe == Spec => []HeadersFirstSafe
<1>1. Inv => HeadersFirstSafe
  BY DEF Inv
<1>. QED  BY <1>1, InitInv, StepInv, PTL DEF Spec

(***************************************************************************)
(* Every block or transaction in the global request maps is owed by a peer *)
(* that has a state: handleDonePeerMsg leaves no request behind, whatever  *)
(* limitMap and startSync throw away.                                      *)
(***************************************************************************)
THEOREM SyncRequestsCovered == Spec => []RequestsCovered
<1>1. Inv => RequestsCovered
  BY DEF Inv
<1>. QED  BY <1>1, InitInv, StepInv, PTL DEF Spec

-----------------------------------------------------------------------------
(***************************************************************************)
(* The rest of the module is about OwedIsListed and HeadersFetched: the    *)
(* headers-first download.  First the block tree.                          *)
(***************************************************************************)
LEMMA PathFacts ==
    ASSUME NEW b \in Blocks
    PROVE  /\ Path[b] \in Seq(Blocks) /\ Len(Path[b]) \in Nat \ {0}
           /\ Height(b) \in Nat /\ b \in OnChain(b) /\ Genesis \in OnChain(b)
           /\ OnChain(b) \subseteq Blocks
<1>1. /\ Path[b] \in Seq(Blocks) /\ Path[b] # <<>>
      /\ Path[b][1] = Genesis /\ Path[b][Len(Path[b])] = b
  BY SyncAssumption, PathAssumption
<1>2. Len(Path[b]) \in Nat \ {0}
  BY <1>1
<1>. QED  BY <1>1, <1>2 DEF Height, OnChain

LEMMA AncestorFacts ==
    ASSUME NEW b \in Blocks, NEW c \in OnChain(b)
    PROVE  /\ c \in Blocks /\ OnChain(c) \subseteq OnChain(b) /\ Height(c) <= Height(b)
           /\ Height(c) = Height(b) => c = b
           /\ \A d \in OnChain(b) : Height(d) <= Height(c) => d \in OnChain(c)
<1>1. PICK i \in 1..Len(Path[b]) : c = Path[b][i]
  BY DEF OnChain
<1>2. /\ Path[b] \in Seq(Blocks) /\ Len(Path[b]) \in Nat /\ Path[b][Len(Path[b])] = b
      /\ Path[c] = SubSeq(Path[b], 1, i)
  BY <1>1, PathFacts, PathAssumption
<1>3. Len(Path[c]) = i /\ \A k \in 1..i : Path[c][k] = Path[b][k]
  BY <1>1, <1>2
<1>4. c \in Blocks
  BY <1>1, <1>2
<1>5. OnChain(c) \subseteq OnChain(b)
  BY <1>1, <1>2, <1>3 DEF OnChain
<1>6. Height(c) <= Height(b) /\ (Height(c) = Height(b) => c = b)
  BY <1>1, <1>2, <1>3 DEF Height
<1>7. ASSUME NEW d \in OnChain(b), Height(d) <= Height(c) PROVE d \in OnChain(c)
  <2>1. PICK j \in 1..Len(Path[b]) : d = Path[b][j]
    BY DEF OnChain
  <2>2. Path[d] = SubSeq(Path[b], 1, j)
    BY <2>1, PathAssumption
  <2>3. Len(Path[d]) = j
    BY <1>2, <2>1, <2>2
  <2>4. j \in 1..i
    BY <1>1, <1>2, <1>3, <1>7, <2>1, <2>3 DEF Height
  <2>. QED  BY <1>3, <2>1, <2>4 DEF OnChain
<1>. QED  BY <1>4, <1>5, <1>6, <1>7

LEMMA ParentFacts ==
    ASSUME NEW b \in Blocks, b # Genesis
    PROVE  /\ Parent(b) \in Blocks /\ Height(b) = Height(Parent(b)) + 1
           /\ OnChain(b) = OnChain(Parent(b)) \cup {b}
<1>. DEFINE n == Len(Path[b])
<1>1. /\ Path[b] \in Seq(Blocks) /\ n \in Nat \ {0} /\ Path[b][1] = Genesis /\ Path[b][n] = b
  BY PathFacts, PathAssumption
<1>2. n > 1
  BY <1>1
<1>3. Parent(b) = Path[b][n - 1] /\ n - 1 \in 1..n
  BY <1>1, <1>2 DEF Parent
<1>4. Parent(b) \in Blocks /\ Path[Parent(b)] = SubSeq(Path[b], 1, n - 1)
  BY <1>1, <1>3, PathAssumption
<1>5. Len(Path[Parent(b)]) = n - 1 /\ \A k \in 1..(n - 1) : Path[Parent(b)][k] = Path[b][k]
  BY <1>1, <1>3, <1>4
<1>6. Height(b) = Height(Parent(b)) + 1
  BY <1>1, <1>5 DEF Height
<1>7. 1..n = 1..(n - 1) \cup {n}
  BY <1>1, <1>2
<1>8. OnChain(b) = {Path[b][k] : k \in 1..(n - 1)} \cup {b}
  BY <1>1, <1>7 DEF OnChain
<1>9. OnChain(Parent(b)) = {Path[b][k] : k \in 1..(n - 1)}
  BY <1>5 DEF OnChain
<1>. QED  BY <1>4, <1>6, <1>8, <1>9

LEMMA NotEmpty ==
    ASSUME NEW s \in Seq(Blocks), Len(s) >= 1
    PROVE  s # <<>>
OBVIOUS

LEMMA TailFacts ==
    ASSUME NEW s \in Seq(Blocks), s # <<>>
    PROVE  /\ Tail(s) \in Seq(Blocks) /\ Len(Tail(s)) = Len(s) - 1
           /\ \A i \in 1..Len(Tail(s)) : Tail(s)[i] = s[i + 1]
OBVIOUS

(***************************************************************************)
(* Each header follows the one before it.                                  *)
(***************************************************************************)
Linked(s) ==
    \A j, k \in 1..Len(s) :
        j <= k => s[j] \in OnChain(s[k]) /\ Height(s[k]) = Height(s[j]) + (k - j)

LEMMA LinkedDistinct ==
    ASSUME NEW s \in Seq(Blocks), Linked(s), NEW j \in 1..Len(s), NEW k \in 1..Len(s), s[j] = s[k]
    PROVE  j = k
<1>1. s[j] \in Blocks /\ Height(s[j]) \in Nat
  BY PathFacts
<1>2. CASE j <= k
  BY <1>1, <1>2 DEF Linked
<1>3. CASE k <= j
  BY <1>1, <1>3 DEF Linked
<1>. QED  BY <1>2, <1>3

LEMMA LinkedAppend ==
    ASSUME NEW s \in Seq(Blocks), s # <<>>, Linked(s), NEW t \in Seq(Blocks),
           \A i \in 1..Len(t) : /\ t[i] # Genesis
                                /\ Parent(t[i]) = IF i > 1 THEN t[i - 1] ELSE s[Len(s)]
    PROVE  Linked(s \o t)
<1>0. PICK u : u = s \o t
  OBVIOUS
<1>. DEFINE P(k) == \A j \in 1..k : /\ u[j] \in OnChain(u[k])
                                    /\ Height(u[k]) = Height(u[j]) + (k - j)
<1>1. /\ u \in Seq(Blocks) /\ Len(u) = Len(s) + Len(t) /\ Len(s) \in Nat \ {0} /\ Len(t) \in Nat
      /\ \A k \in 1..Len(s) : u[k] = s[k]
      /\ \A k \in 1..Len(t) : u[Len(s) + k] = t[k]
  BY <1>0
<1>. HIDE DEF P
<1>2. ASSUME NEW k \in 1..Len(u), \A l \in 1..(k - 1) : P(l) PROVE P(k)
  <2>1. CASE k <= Len(s)
    <3>1. k \in 1..Len(s) /\ \A j \in 1..k : j \in 1..Len(s) /\ j <= k
      BY <1>1, <2>1
    <3>2. u[k] = s[k] /\ \A j \in 1..k : u[j] = s[j]
      BY <1>1, <3>1
    <3>. QED  BY <3>1, <3>2 DEF Linked, P
  <2>2. CASE k > Len(s)
    <3>1. PICK i \in 1..Len(t) : k = Len(s) + i
      <4>1. k - Len(s) \in 1..Len(t) /\ k = Len(s) + (k - Len(s))
        BY <1>1, <2>2
      <4>. QED  BY <4>1
    <3>2. u[k] = t[i] /\ k - 1 \in 1..Len(u)
      BY <1>1, <3>1
    <3>3. u[k - 1] = IF i > 1 THEN t[i - 1] ELSE s[Len(s)]
      <4>1. CASE i > 1
        <5>1. i - 1 \in 1..Len(t) /\ k - 1 = Len(s) + (i - 1)
          BY <1>1, <3>1, <4>1
        <5>. QED  BY <1>1, <4>1, <5>1
      <4>2. CASE ~(i > 1)
        <5>1. k - 1 = Len(s) /\ Len(s) \in 1..Len(s)
          BY <1>1, <3>1, <4>2
        <5>. QED  BY <1>1, <4>2, <5>1
      <4>. QED  BY <4>1, <4>2
    <3>4. u[k] # Genesis /\ Parent(u[k]) = u[k - 1] /\ u[k] \in Blocks /\ u[k - 1] \in Blocks
      BY <1>1, <3>2, <3>3
    <3>5. Height(u[k]) = Height(u[k - 1]) + 1 /\ OnChain(u[k]) = OnChain(u[k - 1]) \cup {u[k]}
      BY <3>4, ParentFacts
    <3>6. Height(u[k]) \in Nat /\ Height(u[k - 1]) \in Nat
      BY <3>4, PathFacts
    <3>7. \A j \in 1..(k - 1) : /\ u[j] \in OnChain(u[k - 1])
                               /\ Height(u[k - 1]) = Height(u[j]) + ((k - 1) - j)
      <4>1. k - 1 \in 1..(k - 1)
        BY <1>1, <3>2
      <4>. QED  BY <1>2, <4>1 DEF P
    <3>8. ASSUME NEW j \in 1..k
          PROVE  u[j] \in OnChain(u[k]) /\ Height(u[k]) = Height(u[j]) + (k - j)
      <4>1. CASE j = k
        BY <3>5, <3>6, <4>1
      <4>2. CASE j \in 1..(k - 1)
        <5>1. j \in 1..Len(u) /\ u[j] \in Blocks
          BY <1>1, <4>2
        <5>2. Height(u[j]) \in Nat
          BY <5>1, PathFacts
        <5>. QED  BY <3>5, <3>6, <3>7, <4>2, <5>2
      <4>. QED  BY <1>1, <4>1, <4>2
    <3>. QED  BY <3>8 DEF P
  <2>. QED  BY <1>1, <2>1, <2>2
<1>3. \A k \in 1..Len(u) : P(k)
  <2>1. SUFFICES ASSUME {k \in 1..Len(u) : ~P(k)} # {} PROVE FALSE
    OBVIOUS
  <2>2. {k \in 1..Len(u) : ~P(k)} \in SUBSET Nat
    BY <1>1
  <2>3. PICK k \in {k \in 1..Len(u) : ~P(k)} : \A l \in {l \in 1..Len(u) : ~P(l)} : k <= l
    BY <2>1, <2>2, LeastNatural
  <2>4. \A l \in 1..(k - 1) : P(l)
    BY <1>1, <2>3
  <2>. QED  BY <1>2, <2>3, <2>4
<1>4. Linked(u)
  BY <1>1, <1>3 DEF Linked, P
<1>. QED  BY <1>0, <1>4

LEMMA LinkedTail ==
    ASSUME NEW s \in Seq(Blocks), s # <<>>, Linked(s)
    PROVE  Linked(Tail(s)) /\ Tail(s) \in Seq(Blocks)
<1>1. Tail(s) \in Seq(Blocks) /\ Len(Tail(s)) = Len(s) - 1 /\ Len(s) \in Nat \ {0}
  OBVIOUS
<1>2. \A k \in 1..Len(Tail(s)) : Tail(s)[k] = s[k + 1] /\ k + 1 \in 1..Len(s)
  BY <1>1
<1>3. ASSUME NEW j \in 1..Len(Tail(s)), NEW k \in 1..Len(Tail(s)), j <= k
      PROVE  /\ Tail(s)[j] \in OnChain(Tail(s)[k])
             /\ Height(Tail(s)[k]) = Height(Tail(s)[j]) + (k - j)
  BY <1>1, <1>2, <1>3 DEF Linked
<1>. QED  BY <1>1, <1>3 DEF Linked

-----------------------------------------------------------------------------
(***************************************************************************)
(* The chain: the block index is closed under parents and holds no orphan. *)
(***************************************************************************)
ChainInv ==
    /\ known \subseteq Blocks /\ orphans \subseteq Blocks /\ tip \in known
    /\ known \cap orphans = {}
    /\ \A k \in known : OnChain(k) \subseteq known

LEMMA AcceptedFacts ==
    ASSUME ChainInv, NEW b \in Blocks, ~HaveBlock(b), ~IsOrphan(b)
    PROVE  /\ b # Genesis /\ b \in Accepted(b) /\ Accepted(b) \subseteq {b} \cup orphans
           /\ Accepted(b) \subseteq Blocks /\ Accepted(b) \cap known = {}
           /\ \A o \in Accepted(b) : OnChain(o) \subseteq known \cup Accepted(b)
<1>. USE DEF ChainInv
<1>1. b \notin known \cup orphans /\ b # Genesis
  <2>1. b \notin known \cup orphans
    BY DEF HaveBlock
  <2>2. Genesis \in known
    BY PathFacts
  <2>. QED  BY <2>1, <2>2
<1>2. Accepted(b) \subseteq {b} \cup orphans
  BY DEF Accepted
<1>3. b \in Accepted(b)
  <2>1. b \in OnChain(b)
    BY PathFacts
  <2>2. \A c \in OnChain(b) : ~(Height(c) > Height(b))
    BY AncestorFacts, PathFacts
  <2>. QED  BY <2>1, <2>2 DEF Accepted
<1>4. ASSUME NEW o \in Accepted(b), NEW c \in OnChain(o) PROVE c \in known \cup Accepted(b)
  <2>1. o \in Blocks /\ b \in OnChain(o)
    BY <1>2, <1>4 DEF Accepted
  <2>2. c \in Blocks /\ Height(c) \in Nat /\ Height(b) \in Nat /\ OnChain(c) \subseteq OnChain(o)
    BY <2>1, <1>4, AncestorFacts, PathFacts
  <2>3. CASE Height(c) > Height(b)
    <3>1. c \in orphans
      BY <1>4, <2>3 DEF Accepted
    <3>2. b \in OnChain(c)
      BY <1>4, <2>1, <2>2, <2>3, AncestorFacts
    <3>3. \A d \in OnChain(c) : Height(d) > Height(b) => d \in orphans
      BY <1>4, <2>2 DEF Accepted
    <3>. QED  BY <3>1, <3>2, <3>3 DEF Accepted
  <2>4. CASE ~(Height(c) > Height(b))
    <3>1. c \in OnChain(b)
      BY <1>4, <2>1, <2>2, <2>4, AncestorFacts
    <3>2. c \in OnChain(Parent(b)) \cup {b}
      BY <1>1, <3>1, ParentFacts
    <3>3. OnChain(Parent(b)) \subseteq known
      BY DEF IsOrphan
    <3>. QED  BY <1>3, <3>2, <3>3
  <2>. QED  BY <2>3, <2>4
<1>. QED  BY <1>1, <1>2, <1>3, <1>4

(***************************************************************************)
(* Where every branch passes the checkpoints, a block outside of a set     *)
(* that is closed under parents is above all checkpoints that are below a  *)
(* block of the set.                                                       *)
(***************************************************************************)
LEMMA AboveCheckpoints ==
    ASSUME CheckpointsPassed, NEW S, S \subseteq Blocks, \A k \in S : OnChain(k) \subseteq S,
           NEW t \in S, NEW x \in Blocks, x \notin S
    PROVE  /\ \A c \in Checkpoints : c \in OnChain(t) => c \in OnChain(x)
           /\ ~BreaksCheckpoint(x, t)
<1>1. ASSUME NEW c \in Checkpoints
      PROVE  /\ c \in Blocks /\ Height(c) \in Nat /\ Height(x) \in Nat
             /\ x \in OnChain(c) \/ c \in OnChain(x)
             /\ c \in OnChain(t) => x \notin OnChain(c)
  <2>1. c \in Blocks /\ Height(c) \in Nat /\ Height(x) \in Nat
    BY SyncAssumption, PathFacts
  <2>2. x \in OnChain(c) \/ c \in OnChain(x)
    BY DEF CheckpointsPassed
  <2>3. c \in OnChain(t) => OnChain(c) \subseteq S
    OBVIOUS
  <2>. QED  BY <2>1, <2>2, <2>3
<1>2. ASSUME NEW c \in Checkpoints, c \in OnChain(t) PROVE c \in OnChain(x)
  BY <1>1, <1>2
<1>3. ASSUME NEW c \in Checkpoints, Height(x) = Height(c) PROVE x = c
  BY <1>1, <1>3, AncestorFacts
<1>4. ASSUME NEW c \in Checkpoints, c \in OnChain(t) PROVE ~(Height(x) < Height(c))
  <2>1. Height(c) <= Height(x)
    BY <1>2, <1>4, AncestorFacts
  <2>. QED  BY <1>1, <2>1
<1>. QED  BY <1>2, <1>3, <1>4 DEF BreaksCheckpoint

(***************************************************************************)
(* A part of the accepted blocks that holds the ancestors of its blocks,   *)
(* and a tip that connectBestChain may leave after it.                     *)
(***************************************************************************)
AcceptedPart(b, A) ==
    A \subseteq Accepted(b) /\ \A c \in A : OnChain(c) \cap Accepted(b) \subseteq A \cup {c}

KeepsCheckpoints(t) == \A c \in Checkpoints : c \in OnChain(tip) => c \in OnChain(t)

LEMMA PartFacts ==
    ASSUME CheckpointsPassed, ChainInv, NEW b \in Blocks, ~HaveBlock(b), ~IsOrphan(b),
           NEW A, AcceptedPart(b, A), NEW t \in connectBestChain(b, A)
    PROVE  /\ t \in known \cup A /\ A \subseteq Blocks /\ KeepsCheckpoints(t)
           /\ \A k \in known \cup A : OnChain(k) \subseteq known \cup A
<1>1. /\ Accepted(b) \subseteq Blocks /\ Accepted(b) \cap known = {}
      /\ \A o \in Accepted(b) : OnChain(o) \subseteq known \cup Accepted(b)
  BY AcceptedFacts
<1>2. A \subseteq Accepted(b) /\ \A c \in A : OnChain(c) \cap Accepted(b) \subseteq A \cup {c}
  BY DEF AcceptedPart
<1>3. t = tip \/ t \in A
  BY DEF connectBestChain
<1>4. /\ known \subseteq Blocks /\ tip \in known
      /\ \A k \in known : OnChain(k) \subseteq known
  BY DEF ChainInv
<1>5. t \in A => KeepsCheckpoints(t)
  <2>1. t \in A => t \in Blocks /\ t \notin known
    BY <1>1, <1>2
  <2>. QED  BY <1>4, <2>1, AboveCheckpoints DEF KeepsCheckpoints
<1>6. KeepsCheckpoints(t)
  BY <1>3, <1>5 DEF KeepsCheckpoints
<1>7. \A k \in known \cup A : OnChain(k) \subseteq known \cup A
  BY <1>1, <1>2, <1>4
<1>. QED  BY <1>1, <1>2, <1>3, <1>4, <1>6, <1>7

(***************************************************************************)
(* ProcessBlock forgets no block of the index, and, where every branch     *)
(* passes the checkpoints, does not leave a checkpoint of the best chain   *)
(* and refuses no new block unless the database fails.                     *)
(***************************************************************************)
Processed(b) ==
    /\ ChainInv' /\ known \subseteq known' /\ KeepsCheckpoints(tip')
    /\ \/ /\ failures' = failures
          /\ known \cup orphans \subseteq known' \cup orphans' /\ b \in known' \cup orphans'
       \/ failures' = failures + 1

LEMMA ProcessBlockFacts ==
    ASSUME CheckpointsPassed, ChainInv, NEW b \in Blocks, ProcessBlock(b)
    PROVE  Processed(b)
<1>1. ~HaveBlock(b) /\ failures' = failures
  BY DEF ProcessBlock
<1>2. CASE IsOrphan(b)
  BY <1>1, <1>2 DEF ProcessBlock, HaveBlock, Processed, ChainInv, KeepsCheckpoints
<1>3. CASE ~IsOrphan(b)
  <2>1. PICK A : A = Accepted(b)
    OBVIOUS
  <2>2. known' = known \cup A /\ orphans' = orphans \ A /\ tip' \in connectBestChain(b, A)
    BY <1>3, <2>1 DEF ProcessBlock
  <2>3. AcceptedPart(b, A)
    BY <2>1 DEF AcceptedPart
  <2>4. /\ tip' \in known \cup A /\ A \subseteq Blocks /\ KeepsCheckpoints(tip')
        /\ \A k \in known \cup A : OnChain(k) \subseteq known \cup A
    BY <1>1, <1>3, <2>2, <2>3, PartFacts
  <2>5. b \in A
    BY <1>1, <1>3, <2>1, AcceptedFacts
  <2>6. ChainInv'
    BY <2>2, <2>4 DEF ChainInv
  <2>. QED  BY <1>1, <2>2, <2>4, <2>5, <2>6 DEF Processed
<1>. QED  BY <1>2, <1>3

LEMMA ProcessBlockFailsFacts ==
    ASSUME CheckpointsPassed, ChainInv, NEW b \in Blocks, ProcessBlockFails(b)
    PROVE  Processed(b)
<1>1. CASE HaveBlock(b) /\ UNCHANGED chainVars
  BY <1>1 DEF HaveBlock, chainVars, Processed, ChainInv, KeepsCheckpoints
<1>2. CASE DatabaseFails /\ UNCHANGED <<known, orphans, tip>>
  BY <1>2 DEF DatabaseFails, Processed, ChainInv, KeepsCheckpoints
<1>3. ASSUME ~HaveBlock(b), ~IsOrphan(b), NEW x \in Accepted(b), NEW A \in SUBSET Accepted(b),
             MaybeAcceptFails(b, x, A)
      PROVE  Processed(b)
  <2>1. /\ x \notin A /\ OnChain(x) \cap Accepted(b) \subseteq A \cup {x}
        /\ AcceptedPart(b, A) /\ orphans' = orphans \ (A \cup {x})
    BY <1>3 DEF MaybeAcceptFails, AcceptedPart
  <2>2. PICK t \in connectBestChain(b, A) :
           \/ /\ known' = known \cup A /\ tip' = t
              /\ DatabaseFails \/ BreaksCheckpoint(x, t)
           \/ /\ known' = known \cup A \cup {x} /\ tip' \in reorganizeChain(t, x)
              /\ DatabaseFails
    BY <1>3 DEF MaybeAcceptFails
  <2>3. /\ t \in known \cup A /\ A \subseteq Blocks /\ KeepsCheckpoints(t)
        /\ \A k \in known \cup A : OnChain(k) \subseteq known \cup A
    BY <1>3, <2>1, PartFacts
  <2>4. /\ x \in Blocks /\ x \notin known \cup A
        /\ OnChain(x) \subseteq known \cup A \cup {x}
    BY <1>3, <2>1, AcceptedFacts
  <2>5. known \cup A \subseteq Blocks
    BY <2>3 DEF ChainInv
  <2>6. /\ \A c \in Checkpoints : c \in OnChain(t) => c \in OnChain(x)
        /\ ~BreaksCheckpoint(x, t)
    BY <2>3, <2>4, <2>5, AboveCheckpoints
  <2>7. failures' = failures + 1
    BY <2>2, <2>6 DEF DatabaseFails
  <2>8. CASE known' = known \cup A /\ tip' = t
    <3>1. ChainInv'
      BY <2>1, <2>3, <2>5, <2>8 DEF ChainInv
    <3>. QED  BY <2>3, <2>7, <2>8, <3>1 DEF Processed
  <2>9. CASE known' = known \cup A \cup {x} /\ tip' \in reorganizeChain(t, x)
    <3>1. /\ tip' \in OnChain(t) \cup OnChain(Parent(x))
          /\ OnChain(t) \cap OnChain(x) \subseteq OnChain(tip')
      BY <2>9 DEF reorganizeChain
    <3>2. KeepsCheckpoints(tip')
      BY <2>3, <2>6, <3>1 DEF KeepsCheckpoints
    <3>3. OnChain(Parent(x)) \subseteq OnChain(x)
      <4>1. x # Genesis
        BY <2>3, <2>4, PathFacts DEF ChainInv
      <4>. QED  BY <2>4, <4>1, ParentFacts
    <3>4. tip' \in known'
      BY <2>3, <2>4, <2>9, <3>1, <3>3
    <3>5. \A k \in known' : OnChain(k) \subseteq known'
      BY <2>3, <2>4, <2>9
    <3>6. ChainInv'
      BY <2>1, <2>4, <2>5, <2>9, <3>4, <3>5 DEF ChainInv
    <3>. QED  BY <2>7, <2>9, <3>2, <3>6 DEF Processed
  <2>. QED  BY <2>2, <2>8, <2>9
<1>. QED  BY <1>1, <1>2, <1>3 DEF ProcessBlockFails

-----------------------------------------------------------------------------
(***************************************************************************)
(* fetchHeaderBlocks: when more blocks are missing than fit into a getdata *)
(* message, there is a place to cut.                                       *)
(***************************************************************************)
LEMMA CutExists ==
    ASSUME NEW s \in Seq(Blocks), NEW have,
           ~(Cardinality({i \in 1..Len(s) : s[i] \notin have}) < MaxInvPerMsg)
    PROVE  \E n \in 1..Len(s) : /\ Cardinality({i \in 1..n : s[i] \notin have}) = MaxInvPerMsg
                                /\ s[n] \notin have
<1>. DEFINE Missing(n) == {i \in 1..n : s[i] \notin have}
            Enough == {n \in 0..Len(s) : ~(Cardinality(Missing(n)) < MaxInvPerMsg)}
<1>1. Len(s) \in Nat /\ MaxInvPerMsg \in Nat \ {0}
  BY SyncAssumption
<1>2. ASSUME NEW n \in Nat PROVE IsFiniteSet(Missing(n)) /\ Cardinality(Missing(n)) \in Nat
  <2>1. IsFiniteSet(1..n) /\ Missing(n) \subseteq 1..n
    BY FS_Interval
  <2>. QED  BY <2>1, FS_Subset, FS_CardinalityType
<1>3. Len(s) \in Enough /\ Enough \in SUBSET Nat
  BY <1>1
<1>4. PICK n \in Enough : \A m \in Enough : n <= m
  BY <1>3, LeastNatural
<1>5. n \in Nat /\ n # 0 /\ n <= Len(s)
  <2>1. Missing(0) = {}
    OBVIOUS
  <2>2. Cardinality(Missing(0)) = 0
    BY <2>1, FS_EmptySet
  <2>3. n \in 0..Len(s) /\ ~(Cardinality(Missing(n)) < MaxInvPerMsg)
    BY <1>4
  <2>. HIDE DEF Missing, Enough
  <2>4. n # 0
    BY <1>1, <2>2, <2>3
  <2>. QED  BY <1>1, <2>3, <2>4
<1>6. Cardinality(Missing(n - 1)) < MaxInvPerMsg
  <2>1. n - 1 \in 0..Len(s) /\ ~(n <= n - 1)
    BY <1>1, <1>5
  <2>. QED  BY <1>4, <2>1
<1>7. ~(Cardinality(Missing(n)) < MaxInvPerMsg)
  BY <1>4
<1>8. CASE s[n] \in have
  <2>1. Missing(n) = Missing(n - 1)
    BY <1>5, <1>8
  <2>. QED  BY <1>6, <1>7, <2>1
<1>9. CASE s[n] \notin have
  <2>1. Missing(n) = Missing(n - 1) \cup {n} /\ n \notin Missing(n - 1)
    BY <1>5, <1>9
  <2>2. n - 1 \in Nat
    BY <1>5
  <2>3. Cardinality(Missing(n)) = Cardinality(Missing(n - 1)) + 1
    <3>1. IsFiniteSet(Missing(n - 1))
      BY <1>2, <2>2
    <3>. HIDE DEF Missing
    <3>. QED  BY <2>1, <3>1, FS_AddElement
  <2>4. Cardinality(Missing(n)) = MaxInvPerMsg
    <3>1. Cardinality(Missing(n)) \in Nat /\ Cardinality(Missing(n - 1)) \in Nat
      BY <1>2, <1>5, <2>2
    <3>. HIDE DEF Missing, Enough
    <3>. QED  BY <1>1, <1>6, <1>7, <2>3, <3>1
  <2>5. n \in 1..Len(s)
    BY <1>1, <1>5
  <2>. QED  BY <1>9, <2>4, <2>5
<1>. QED  BY <1>8, <1>9

LEMMA CutIsInside ==
    ASSUME NEW s \in Seq(Blocks), s # <<>>, NEW have
    PROVE  CutAfter(s, have) \in 1..Len(s)
<1>. DEFINE Missing(n) == {i \in 1..n : s[i] \notin have}
<1>1. Len(s) \in 1..Len(s)
  OBVIOUS
<1>2. CASE ~(Cardinality(Missing(Len(s))) < MaxInvPerMsg)
  <2>1. \E n \in 1..Len(s) : Cardinality(Missing(n)) = MaxInvPerMsg /\ s[n] \notin have
    BY <1>2, CutExists
  <2>. QED  BY <1>2, <2>1 DEF CutAfter
<1>. QED  BY <1>1, <1>2 DEF CutAfter

(***************************************************************************)
(* A call that starts at header k looks at headers up to some m, asks for  *)
(* those that are missing, and leaves startHeader behind them.             *)
(***************************************************************************)
LookedAt(hl, k, m, have, pb) ==
    /\ startHeader' = IF m < Len(hl) THEN hl[m + 1] ELSE None
    /\ \E asked \in SUBSET {hl[i] : i \in k..m} :
          /\ peerBlocks' = [pb EXCEPT ![syncPeer] = @ \cup asked]
          /\ \A i \in k..m : hl[i] \in have \cup asked

LEMMA FetchCovers ==
    ASSUME NEW hl \in Seq(Blocks), Linked(hl), NEW k \in 1..Len(hl), NEW start, start = hl[k],
           NEW have, NEW pb, NEW requested, NEW lk,
           fetchHeaderBlocks(hl, start, have, pb, requested, lk)
    PROVE  \E m \in k..Len(hl) : LookedAt(hl, k, m, have, pb)
<1>1. HeadersFrom(hl, start) = SubSeq(hl, k, Len(hl))
  <2>1. {i \in 1..Len(hl) : hl[i] = start} = {k}
    BY LinkedDistinct
  <2>2. (CHOOSE i \in {k} : TRUE) = k
    OBVIOUS
  <2>. QED  BY <2>1, <2>2 DEF HeadersFrom
<1>2. PICK s : s = HeadersFrom(hl, start)
  OBVIOUS
<1>3. /\ Len(hl) \in Nat /\ Len(s) = Len(hl) - k + 1 /\ s \in Seq(Blocks) /\ s # <<>>
      /\ \A i \in 1..Len(s) : s[i] = hl[k + i - 1]
  <2>1. Len(hl) \in Nat /\ k \in Nat /\ k <= Len(hl) /\ s = SubSeq(hl, k, Len(hl))
    BY <1>1, <1>2
  <2>2. s \in Seq(Blocks) /\ Len(s) = Len(hl) - k + 1
    BY <2>1
  <2>3. \A i \in 1..Len(s) : s[i] = hl[k + i - 1]
    BY <2>1
  <2>4. s # <<>>
    <3>1. Len(s) >= 1
      BY <2>1, <2>2
    <3>. QED  BY <2>2, <3>1, NotEmpty
  <2>. QED  BY <2>1, <2>2, <2>3, <2>4
<1>4. PICK n \in 1..Len(s) : n = CutAfter(s, have)
  BY <1>3, CutIsInside
<1>. DEFINE m == k + n - 1
            A == {s[i] : i \in 1..n} \ have
<1>5. startHeader' = NextStart(s, n) /\ peerBlocks' = [pb EXCEPT ![syncPeer] = @ \cup A]
  BY <1>2, <1>4 DEF fetchHeaderBlocks
<1>6. m \in k..Len(hl)
  BY <1>3, <1>4
<1>7. startHeader' = IF m < Len(hl) THEN hl[m + 1] ELSE None
  <2>1. m < Len(hl) <=> n < Len(s)
    BY <1>3, <1>4
  <2>2. ASSUME n < Len(s) PROVE s[n + 1] = hl[m + 1]
    <3>1. n + 1 \in 1..Len(s) /\ k + (n + 1) - 1 = m + 1
      BY <1>3, <1>4, <2>2
    <3>. QED  BY <1>3, <3>1
  <2>. QED  BY <1>5, <2>1, <2>2 DEF NextStart
<1>8. ASSUME NEW i \in k..m PROVE i - k + 1 \in 1..n /\ hl[i] = s[i - k + 1]
  <2>1. i - k + 1 \in 1..n /\ i - k + 1 \in 1..Len(s) /\ k + (i - k + 1) - 1 = i
    BY <1>3, <1>4
  <2>. QED  BY <1>3, <2>1
<1>9. A \subseteq {hl[i] : i \in k..m}
  <2>1. ASSUME NEW i \in 1..n PROVE s[i] = hl[k + i - 1] /\ k + i - 1 \in k..m
    BY <1>3, <1>4
  <2>. QED  BY <2>1
<1>10. \A i \in k..m : hl[i] \in have \cup A
  BY <1>8
<1>. QED  BY <1>5, <1>6, <1>7, <1>9, <1>10 DEF LookedAt

-----------------------------------------------------------------------------
(***************************************************************************)
(* A download towards checkpoint cp with the header list hl: startHeader   *)
(* start is at k, what the sync peer owes is before it, and, if no block   *)
(* was lost, everything before it is there or owed.  Until the list        *)
(* reaches the checkpoint its first entry, which handleHeadersMsg will     *)
(* drop, is neither startHeader nor owed.                                  *)
(***************************************************************************)
Downloads(hl, start, cp, owed, have, lost) ==
    \E k \in 1..(Len(hl) + 1) :
        /\ start = IF k <= Len(hl) THEN hl[k] ELSE None
        /\ owed \subseteq {hl[i] : i \in 1..(k - 1)}
        /\ lost = 0 => \A i \in 1..(k - 1) : hl[i] \in have \cup owed
        /\ hl # <<>> /\ Height(hl[Len(hl)]) < Height(cp) => k > 1 /\ hl[1] \notin owed

LEMMA DownloadStarts ==
    ASSUME NEW hl \in Seq(Blocks), Len(hl) = 1, NEW have, hl[1] \in have,
           NEW cp, NEW lost
    PROVE  Downloads(hl, None, cp, {}, have, lost)
<1>1. hl # <<>> /\ 2 \in 1..(Len(hl) + 1) /\ ~(2 <= Len(hl))
  BY NotEmpty
<1>2. \A i \in 1..(2 - 1) : hl[i] \in have
  OBVIOUS
<1>. QED  BY <1>1, <1>2 DEF Downloads

(***************************************************************************)
(* Blocks arrive, of the sync peer or of others, or are lost.              *)
(***************************************************************************)
LEMMA DownloadGoesOn ==
    ASSUME NEW hl \in Seq(Blocks), NEW start, NEW cp, NEW owed, NEW have, NEW lost,
           Downloads(hl, start, cp, owed, have, lost), NEW owed2 \in SUBSET owed,
           NEW have2, NEW lost2,
           lost2 = 0 => lost = 0 /\ have \subseteq have2 /\ owed \subseteq owed2 \cup have2
    PROVE  Downloads(hl, start, cp, owed2, have2, lost2)
BY DEF Downloads

(***************************************************************************)
(* The block of the first header arrives, and the header leaves the list.  *)
(***************************************************************************)
LEMMA DownloadPops ==
    ASSUME NEW hl \in Seq(Blocks), Linked(hl), hl # <<>>, NEW start, NEW cp,
           NEW owed, NEW have, NEW lost,
           NEW b, b = hl[1], b \in owed,
           Downloads(hl, start, cp, owed, have, lost),
           NEW have2, NEW lost2, lost2 = 0 => lost = 0 /\ have \subseteq have2
    PROVE  Downloads(Tail(hl), start, cp, owed \ {b}, have2, lost2)
<1>1. PICK k \in 1..(Len(hl) + 1) :
          /\ start = IF k <= Len(hl) THEN hl[k] ELSE None
          /\ owed \subseteq {hl[i] : i \in 1..(k - 1)}
          /\ lost = 0 => \A i \in 1..(k - 1) : hl[i] \in have \cup owed
          /\ hl # <<>> /\ Height(hl[Len(hl)]) < Height(cp) => k > 1 /\ hl[1] \notin owed
  BY DEF Downloads
<1>2. Len(hl) \in Nat \ {0} /\ ~(Height(hl[Len(hl)]) < Height(cp))
  BY <1>1
<1>. DEFINE t == Tail(hl)
<1>6. /\ t \in Seq(Blocks) /\ Len(t) = Len(hl) - 1
      /\ \A i \in 1..Len(t) : t[i] = hl[i + 1]
  BY TailFacts
<1>8. k > 1 /\ k - 1 \in 1..(Len(t) + 1)
  <2>1. k > 1
    BY <1>1
  <2>. QED  BY <1>2, <1>6, <2>1
<1>9. start = IF k - 1 <= Len(t) THEN t[k - 1] ELSE None
  <2>1. k - 1 <= Len(t) <=> k <= Len(hl)
    BY <1>2, <1>6
  <2>2. ASSUME k <= Len(hl) PROVE t[k - 1] = hl[k]
    <3>1. k - 1 \in 1..Len(t) /\ (k - 1) + 1 = k
      BY <1>2, <1>6, <1>8, <2>2
    <3>. QED  BY <1>6, <3>1
  <2>. QED  BY <1>1, <2>1, <2>2
<1>10. ASSUME NEW i \in 1..(k - 1 - 1) PROVE t[i] = hl[i + 1] /\ i + 1 \in 1..(k - 1)
  BY <1>2, <1>6, <1>8
<1>11. ASSUME NEW c \in owed \ {b} PROVE c \in {t[i] : i \in 1..(k - 1 - 1)}
  <2>1. PICK i \in 1..(k - 1) : c = hl[i]
    BY <1>1
  <2>2. i # 1
    BY <2>1
  <2>3. i - 1 \in 1..(k - 1 - 1) /\ (i - 1) + 1 = i
    BY <1>8, <2>1, <2>2
  <2>. QED  BY <1>10, <2>1, <2>3
<1>12. ASSUME lost2 = 0, NEW i \in 1..(k - 1 - 1) PROVE t[i] \in have2 \cup (owed \ {b})
  <2>1. t[i] = hl[i + 1] /\ i + 1 \in 1..(k - 1) /\ hl[i + 1] \in have \cup owed
    BY <1>1, <1>10, <1>12
  <2>2. hl[i + 1] # hl[1]
    <3>1. i + 1 \in 1..Len(hl) /\ 1 \in 1..Len(hl) /\ i + 1 # 1
      BY <1>2, <1>8
    <3>. QED  BY <3>1, LinkedDistinct
  <2>. QED  BY <1>12, <2>1, <2>2
<1>13. ASSUME t # <<>> PROVE t[Len(t)] = hl[Len(hl)]
  <2>1. Len(t) \in 1..Len(t) /\ Len(t) + 1 = Len(hl)
    BY <1>2, <1>6, <1>13
  <2>. QED  BY <1>6, <2>1
<1>. HIDE DEF t
<1>14. Downloads(t, start, cp, owed \ {b}, have2, lost2)
  BY <1>2, <1>8, <1>9, <1>11, <1>12, <1>13 DEF Downloads
<1>. QED  BY <1>14 DEF t

(***************************************************************************)
(* Headers ts that follow the list are appended to it.                     *)
(***************************************************************************)
LEMMA AppendFacts ==
    ASSUME NEW s \in Seq(Blocks), NEW t \in Seq(Blocks)
    PROVE  /\ s \o t \in Seq(Blocks) /\ Len(s \o t) = Len(s) + Len(t)
           /\ Len(s) \in Nat /\ Len(t) \in Nat
           /\ \A i \in 1..Len(s) : (s \o t)[i] = s[i]
           /\ \A i \in 1..Len(t) : (s \o t)[Len(s) + i] = t[i]
OBVIOUS

LEMMA DownloadAppends ==
    ASSUME NEW hl \in Seq(Blocks), NEW ts \in Seq(Blocks), hl # <<>>, Linked(hl \o ts), NEW start,
           NEW cp \in Blocks, NEW owed, NEW have, NEW lost,
           Downloads(hl, start, cp, owed, have, lost)
    PROVE  Downloads(hl \o ts, IF start = None /\ ts # <<>> THEN ts[1] ELSE start, cp,
                     owed, have, lost)
<1>0. PICK u : u = hl \o ts
  OBVIOUS
<1>. DEFINE start2 == IF start = None /\ ts # <<>> THEN ts[1] ELSE start
<1>1. PICK k \in 1..(Len(hl) + 1) :
          /\ start = IF k <= Len(hl) THEN hl[k] ELSE None
          /\ owed \subseteq {hl[i] : i \in 1..(k - 1)}
          /\ lost = 0 => \A i \in 1..(k - 1) : hl[i] \in have \cup owed
          /\ hl # <<>> /\ Height(hl[Len(hl)]) < Height(cp) => k > 1 /\ hl[1] \notin owed
  BY DEF Downloads
<1>2. /\ u \in Seq(Blocks) /\ Len(u) = Len(hl) + Len(ts) /\ Len(hl) \in Nat /\ Len(ts) \in Nat
      /\ \A i \in 1..Len(hl) : u[i] = hl[i]
      /\ \A i \in 1..Len(ts) : u[Len(hl) + i] = ts[i]
  BY <1>0, AppendFacts
<1>3. Len(hl) \in Nat \ {0}
  BY <1>2
<1>4. u # <<>> /\ u[1] = hl[1] /\ k \in 1..(Len(u) + 1)
  <2>1. Len(u) >= 1 /\ k \in 1..(Len(u) + 1)
    BY <1>2, <1>3
  <2>2. u[1] = hl[1]
    BY <1>2, <1>3
  <2>. QED  BY <1>2, <2>1, <2>2, NotEmpty
<1>5. start2 = IF k <= Len(u) THEN u[k] ELSE None
  <2>1. CASE k <= Len(hl)
    <3>1. start = hl[k] /\ start \in Blocks /\ u[k] = hl[k] /\ k <= Len(u)
      BY <1>1, <1>2, <2>1
    <3>. QED  BY <3>1, SyncAssumption
  <2>2. CASE k = Len(hl) + 1 /\ ts = <<>>
    <3>1. Len(ts) = 0
      BY <2>2
    <3>2. ~(k <= Len(u)) /\ ~(k <= Len(hl))
      BY <1>2, <2>2, <3>1
    <3>. QED  BY <1>1, <2>2, <3>2
  <2>3. CASE k = Len(hl) + 1 /\ ts # <<>>
    <3>1. Len(ts) >= 1
      BY <2>3
    <3>2. k <= Len(u) /\ ~(k <= Len(hl))
      BY <1>2, <2>3, <3>1
    <3>3. u[k] = ts[1]
      BY <1>2, <2>3, <3>1
    <3>. QED  BY <1>1, <2>3, <3>2, <3>3
  <2>. QED  BY <1>2, <2>1, <2>2, <2>3
<1>6. \A i \in 1..(k - 1) : u[i] = hl[i]
  BY <1>2
<1>7. owed \subseteq {u[i] : i \in 1..(k - 1)}
  BY <1>1, <1>6
<1>8. lost = 0 => \A i \in 1..(k - 1) : u[i] \in have \cup owed
  BY <1>1, <1>6
<1>9. Height(u[Len(u)]) < Height(cp) => Height(hl[Len(hl)]) < Height(cp)
  <2>1. /\ Len(hl) \in 1..Len(u) /\ Len(u) \in 1..Len(u) /\ Len(hl) <= Len(u)
        /\ u[Len(hl)] = hl[Len(hl)]
    BY <1>2, <1>3
  <2>2. Height(u[Len(u)]) = Height(hl[Len(hl)]) + (Len(u) - Len(hl))
    BY <1>0, <2>1 DEF Linked
  <2>3. Height(u[Len(u)]) \in Nat /\ Height(hl[Len(hl)]) \in Nat /\ Height(cp) \in Nat
    BY <1>2, <1>3, <2>1, PathFacts
  <2>. QED  BY <1>2, <2>1, <2>2, <2>3
<1>. HIDE DEF start2
<1>10. Downloads(u, start2, cp, owed, have, lost)
  BY <1>1, <1>3, <1>4, <1>5, <1>7, <1>8, <1>9 DEF Downloads
<1>. QED  BY <1>0, <1>10 DEF start2

(***************************************************************************)
(* A list that ends in the checkpoint may lose its first entry, if it did  *)
(* not reach the checkpoint before.                                        *)
(***************************************************************************)
LEMMA DownloadDropsFirst ==
    ASSUME NEW hl \in Seq(Blocks), Linked(hl), Len(hl) > 1, NEW start, NEW cp \in Blocks,
           hl[Len(hl)] = cp, NEW owed, hl[1] \notin owed, hl[1] # start, start # None,
           NEW have, NEW lost, Downloads(hl, start, cp, owed, have, lost)
    PROVE  Downloads(Tail(hl), start, cp, owed, have, lost)
<1>. DEFINE t == Tail(hl)
<1>1. PICK k \in 1..(Len(hl) + 1) :
          /\ start = IF k <= Len(hl) THEN hl[k] ELSE None
          /\ owed \subseteq {hl[i] : i \in 1..(k - 1)}
          /\ lost = 0 => \A i \in 1..(k - 1) : hl[i] \in have \cup owed
  BY DEF Downloads
<1>2. hl # <<>> /\ Len(hl) \in Nat
  BY NotEmpty
<1>3. k <= Len(hl) /\ k > 1
  BY <1>1, <1>2
<1>4. /\ t \in Seq(Blocks) /\ Len(t) = Len(hl) - 1 /\ t # <<>>
      /\ \A i \in 1..Len(t) : t[i] = hl[i + 1]
  <2>1. /\ t \in Seq(Blocks) /\ Len(t) = Len(hl) - 1
        /\ \A i \in 1..Len(t) : t[i] = hl[i + 1]
    BY <1>2, TailFacts
  <2>2. Len(t) >= 1
    BY <1>2, <2>1
  <2>. QED  BY <2>1, <2>2, NotEmpty
<1>6. k - 1 \in 1..(Len(t) + 1) /\ k - 1 <= Len(t) /\ t[k - 1] = hl[k]
  <2>1. k - 1 \in 1..Len(t) /\ (k - 1) + 1 = k
    BY <1>2, <1>3, <1>4
  <2>. QED  BY <1>2, <1>4, <2>1
<1>7. ASSUME NEW i \in 1..(k - 1 - 1) PROVE t[i] = hl[i + 1] /\ i + 1 \in 1..(k - 1)
  BY <1>2, <1>3, <1>4
<1>8. ASSUME NEW c \in owed PROVE c \in {t[i] : i \in 1..(k - 1 - 1)}
  <2>1. PICK i \in 1..(k - 1) : c = hl[i]
    BY <1>1
  <2>2. i # 1
    BY <2>1
  <2>3. i - 1 \in 1..(k - 1 - 1) /\ (i - 1) + 1 = i
    BY <1>3, <2>1, <2>2
  <2>. QED  BY <1>7, <2>1, <2>3
<1>9. lost = 0 => \A i \in 1..(k - 1 - 1) : t[i] \in have \cup owed
  BY <1>1, <1>7
<1>10. t[Len(t)] = cp /\ ~(Height(cp) < Height(cp))
  <2>1. Len(t) \in 1..Len(t) /\ Len(t) + 1 = Len(hl)
    BY <1>2, <1>4
  <2>2. Height(cp) \in Nat
    BY PathFacts
  <2>. QED  BY <1>4, <2>1, <2>2
<1>. HIDE DEF t
<1>11. Downloads(t, start, cp, owed, have, lost)
  BY <1>1, <1>3, <1>4, <1>6, <1>8, <1>9, <1>10 DEF Downloads
<1>. QED  BY <1>11 DEF t

(***************************************************************************)
(* fetchHeaderBlocks continues the download.                               *)
(***************************************************************************)
FetchedOn(hl, cp, pb, have, lost) ==
    /\ Downloads(hl, startHeader', cp, peerBlocks'[syncPeer], have, lost)
    /\ peerBlocks' \in [Peers -> SUBSET Blocks]
    /\ \A p \in Peers \ {syncPeer} : peerBlocks'[p] = pb[p]

LEMMA DownloadFetches ==
    ASSUME NEW hl \in Seq(Blocks), Linked(hl), NEW start, start # None, NEW cp, NEW have, NEW lost,
           NEW pb \in [Peers -> SUBSET Blocks], syncPeer \in Peers, NEW requested, NEW lk,
           Downloads(hl, start, cp, pb[syncPeer], have, lost),
           fetchHeaderBlocks(hl, start, have, pb, requested, lk)
    PROVE  FetchedOn(hl, cp, pb, have, lost)
<1>. DEFINE owed == pb[syncPeer]
<1>1. PICK k \in 1..(Len(hl) + 1) :
          /\ start = IF k <= Len(hl) THEN hl[k] ELSE None
          /\ owed \subseteq {hl[i] : i \in 1..(k - 1)}
          /\ lost = 0 => \A i \in 1..(k - 1) : hl[i] \in have \cup owed
          /\ hl # <<>> /\ Height(hl[Len(hl)]) < Height(cp) => k > 1 /\ hl[1] \notin owed
  BY DEF Downloads
<1>2. Len(hl) \in Nat /\ k \in 1..Len(hl) /\ start = hl[k]
  BY <1>1
<1>3. PICK m \in k..Len(hl) : LookedAt(hl, k, m, have, pb)
  BY <1>2, FetchCovers
<1>4. PICK asked \in SUBSET {hl[i] : i \in k..m} :
                    /\ peerBlocks' = [pb EXCEPT ![syncPeer] = @ \cup asked]
                    /\ \A i \in k..m : hl[i] \in have \cup asked
  BY <1>3 DEF LookedAt
<1>5. m + 1 \in 1..(Len(hl) + 1) /\ (m + 1) - 1 = m /\ (m + 1 <= Len(hl) <=> m < Len(hl))
  BY <1>2, <1>3
<1>6. asked \in SUBSET Blocks
  <2>1. \A i \in k..m : i \in 1..Len(hl)
    BY <1>2, <1>3
  <2>. QED  BY <1>4, <2>1
<1>7. /\ peerBlocks' \in [Peers -> SUBSET Blocks] /\ peerBlocks'[syncPeer] = owed \cup asked
      /\ \A p \in Peers \ {syncPeer} : peerBlocks'[p] = pb[p]
  BY <1>4, <1>6
<1>8. 1..m = 1..(k - 1) \cup k..m
  BY <1>2, <1>3
<1>9. owed \cup asked \subseteq {hl[i] : i \in 1..m}
  BY <1>1, <1>4, <1>8
<1>10. lost = 0 => \A i \in 1..m : hl[i] \in have \cup (owed \cup asked)
  BY <1>1, <1>4, <1>8
<1>11. ASSUME Height(hl[Len(hl)]) < Height(cp)
       PROVE  m + 1 > 1 /\ hl[1] \notin owed \cup asked
  <2>1. k > 1 /\ hl[1] \notin owed
    BY <1>1, <1>11
  <2>2. \A i \in k..m : hl[i] # hl[1]
    <3>1. ASSUME NEW i \in k..m, hl[i] = hl[1] PROVE FALSE
      <4>1. i \in 1..Len(hl) /\ 1 \in 1..Len(hl) /\ i # 1
        BY <1>2, <1>3, <2>1
      <4>. QED  BY <3>1, <4>1, LinkedDistinct
    <3>. QED  BY <3>1
  <2>3. hl[1] \notin asked
    BY <1>4, <2>2
  <2>. QED  BY <1>2, <1>3, <2>1, <2>3
<1>12. Downloads(hl, startHeader', cp, owed \cup asked, have, lost)
  <2>2. startHeader' = IF m + 1 <= Len(hl) THEN hl[m + 1] ELSE None
    BY <1>3, <1>5 DEF LookedAt
  <2>. HIDE DEF owed
  <2>. QED  BY <1>5, <1>9, <1>10, <1>11, <2>2 DEF Downloads
<1>. QED  BY <1>7, <1>12 DEF FetchedOn

(***************************************************************************)
(* The checkpoint itself arrives, and the download goes on to the next.    *)
(***************************************************************************)
LEMMA DownloadNextCheckpoint ==
    ASSUME NEW hl \in Seq(Blocks), NEW start, NEW cp \in Blocks, NEW owed, NEW have, NEW lost,
           Downloads(hl, start, cp, owed, have, lost), hl[1] = cp, cp \in owed,
           NEW next,
           NEW have2, NEW lost2,
           lost2 = 0 => lost = 0 /\ have \subseteq have2 /\ cp \in have2
    PROVE  Downloads(hl, start, next, owed \ {cp}, have2, lost2)
<1>1. PICK k \in 1..(Len(hl) + 1) :
          /\ start = IF k <= Len(hl) THEN hl[k] ELSE None
          /\ owed \subseteq {hl[i] : i \in 1..(k - 1)}
          /\ lost = 0 => \A i \in 1..(k - 1) : hl[i] \in have \cup owed
  BY DEF Downloads
<1>2. k > 1
  BY <1>1
<1>3. lost2 = 0 => \A i \in 1..(k - 1) : hl[i] \in have2 \cup (owed \ {cp})
  BY <1>1
<1>. QED  BY <1>1, <1>2, <1>3 DEF Downloads

-----------------------------------------------------------------------------
(***************************************************************************)
(* The inductive invariant.  In headers-first mode a download is on its    *)
(* way, and only the sync peer owes blocks.  As long as startSync could    *)
(* turn the mode on, nobody is asked for anything and the header list is   *)
(* as New and resetHeaderState leave it.                                   *)
(***************************************************************************)
Behind == nextCheckpoint # None /\ Height(tip) < Height(nextCheckpoint)

ListInv ==
    /\ headerList \in Seq(Blocks) /\ Linked(headerList)
    /\ peerBlocks \in [Peers -> SUBSET Blocks]

Ready ==
    Behind => /\ startHeader = None /\ \A p \in Peers : peerBlocks[p] = {}
              /\ Len(headerList) = 1 /\ headerList[1] \in known

Waiting == ~headersFirstMode => Ready /\ (Behind => syncPeer = None)

Fetching ==
    headersFirstMode =>
        /\ \A p \in Peers \ {syncPeer} : peerBlocks[p] = {}
        /\ Downloads(headerList, startHeader, nextCheckpoint, peerBlocks[syncPeer],
                     known \cup orphans, failures)

HeaderInv == ChainInv /\ ListInv /\ Waiting /\ Fetching

LEMMA SingletonLinked == ASSUME NEW b \in Blocks PROVE Linked(<<b>>) /\ <<b>> \in Seq(Blocks)
<1>1. b \in OnChain(b) /\ Height(b) \in Nat
  BY PathFacts
<1>2. Len(<<b>>) = 1 /\ <<b>>[1] = b /\ \A j \in 1..1 : j = 1
  OBVIOUS
<1>. QED  BY <1>1, <1>2 DEF Linked

LEMMA HeaderInvInit == Init => HeaderInv
<1>. SUFFICES ASSUME Init PROVE HeaderInv
  OBVIOUS
<1>1. FirstTip \in Blocks /\ Height(FirstTip) \in Nat
  BY SyncAssumption, PathFacts
<1>2. ChainInv
  <2>1. known = OnChain(FirstTip) /\ orphans = {} /\ tip = FirstTip
    BY DEF Init
  <2>. QED  BY <1>1, <2>1, PathFacts, AncestorFacts DEF ChainInv
<1>3. headerList = IF nextCheckpoint = None THEN <<>> ELSE <<FirstTip>>
  BY DEF Init
<1>4. headerList \in Seq(Blocks) /\ Linked(headerList)
  <2>1. Linked(<<>>) /\ <<>> \in Seq(Blocks)
    BY DEF Linked
  <2>. QED  BY <1>1, <1>3, <2>1, SingletonLinked
<1>5. peerBlocks = [p \in Peers |-> {}] /\ startHeader = None /\ syncPeer = None
      /\ headersFirstMode = FALSE /\ tip = FirstTip
  BY DEF Init
<1>6. nextCheckpoint # None => Len(headerList) = 1 /\ headerList[1] \in known
  BY <1>1, <1>2, <1>3, <1>5 DEF ChainInv
<1>7. Ready
  BY <1>5, <1>6 DEF Ready, Behind
<1>. QED  BY <1>2, <1>4, <1>5, <1>7 DEF HeaderInv, ListInv, Waiting, Fetching

(***************************************************************************)
(* A chain that has reached the next checkpoint stays beyond it.           *)
(***************************************************************************)
LEMMA StaysBeyond ==
    ASSUME CheckpointsPassed, ChainInv, ChainInv', Inv, KeepsCheckpoints(tip'),
           nextCheckpoint' = nextCheckpoint
    PROVE  Behind' => Behind
<1>. SUFFICES ASSUME nextCheckpoint # None, ~(Height(tip) < Height(nextCheckpoint))
              PROVE  ~(Height(tip') < Height(nextCheckpoint))
  BY DEF Behind
<1>1. PICK c : c = nextCheckpoint
  OBVIOUS
<1>2. c \in Checkpoints /\ c \in Blocks /\ tip \in Blocks /\ tip' \in Blocks
  BY <1>1, SyncAssumption DEF Inv, TypeOK, ChainInv
<1>3. Height(c) \in Nat /\ Height(tip) \in Nat /\ Height(tip') \in Nat
  BY <1>2, PathFacts
<1>4. c \in OnChain(tip)
  <2>1. tip \in OnChain(c) => tip = c
    BY <1>1, <1>2, <1>3, AncestorFacts
  <2>2. tip \in OnChain(c) \/ c \in OnChain(tip)
    BY <1>2 DEF CheckpointsPassed
  <2>. QED  BY <1>2, <2>1, <2>2, PathFacts
<1>5. c \in OnChain(tip')
  BY <1>2, <1>4 DEF KeepsCheckpoints
<1>6. Height(c) <= Height(tip')
  BY <1>2, <1>5, AncestorFacts
<1>. QED  BY <1>1, <1>3, <1>6

(***************************************************************************)
(* Steps that change nothing but the chain.                                *)
(***************************************************************************)
LEMMA HeaderInvGrow ==
    ASSUME CheckpointsPassed, HeaderInv, Inv, ChainInv', KeepsCheckpoints(tip'),
           known \subseteq known',
           failures' = 0 => failures = 0 /\ known \cup orphans \subseteq known' \cup orphans',
           UNCHANGED <<peerBlocks, syncPeer>>, UNCHANGED headerVars
    PROVE  HeaderInv'
<1>. USE DEF headerVars
<1>1. ListInv'
  BY DEF HeaderInv, ListInv
<1>2. Behind' => Behind
  BY StaysBeyond DEF HeaderInv
<1>3. Waiting'
  <2>1. Ready => Ready'
    BY <1>2 DEF Ready
  <2>. QED  BY <1>2, <2>1 DEF HeaderInv, Waiting
<1>4. Fetching'
  <2>1. SUFFICES ASSUME headersFirstMode
                 PROVE  Downloads(headerList, startHeader, nextCheckpoint, peerBlocks[syncPeer],
                                  known' \cup orphans', failures')
    BY DEF HeaderInv, Fetching
  <2>2. Downloads(headerList, startHeader, nextCheckpoint, peerBlocks[syncPeer],
                  known \cup orphans, failures) /\ headerList \in Seq(Blocks)
    BY <2>1 DEF HeaderInv, Fetching, ListInv
  <2>. QED  BY <2>2, DownloadGoesOn
<1>. QED  BY <1>1, <1>3, <1>4 DEF HeaderInv

LEMMA HeaderInvUnchanged ==
    ASSUME CheckpointsPassed, HeaderInv, Inv, UNCHANGED chainVars,
           UNCHANGED <<peerBlocks, syncPeer>>, UNCHANGED headerVars
    PROVE  HeaderInv'
<1>1. ChainInv' /\ UNCHANGED <<known, orphans, tip, failures>>
  BY DEF HeaderInv, ChainInv, chainVars
<1>2. KeepsCheckpoints(tip')
  BY <1>1 DEF KeepsCheckpoints
<1>. QED  BY <1>1, <1>2, HeaderInvGrow

LEMMA SubmitHeaderInv ==
    ASSUME CheckpointsPassed, HeaderInv, Inv, NEW b \in Blocks, SubmitBlock(b)
    PROVE  HeaderInv'
<1>1. /\ ProcessBlock(b) \/ ProcessBlockFails(b)
      /\ UNCHANGED <<peerBlocks, syncPeer>> /\ UNCHANGED headerVars
  BY DEF SubmitBlock
<1>2. Processed(b)
  BY <1>1, ProcessBlockFacts, ProcessBlockFailsFacts DEF HeaderInv
<1>3. failures \in Nat
  BY SyncAssumption DEF Inv, TypeOK
<1>. QED  BY <1>1, <1>2, <1>3, HeaderInvGrow DEF Processed

(***************************************************************************)
(* startSync turns headers-first mode on exactly when it finds a peer and  *)
(* the next checkpoint is ahead.                                           *)
(***************************************************************************)
LEMMA StartSyncMode ==
    ASSUME NEW cands \in SUBSET Peers, NEW requested, NEW mode, mode = FALSE, NEW lk,
           startSync(cands, requested, mode, lk)
    PROVE  /\ headersFirstMode' => Behind /\ syncPeer' \in Peers
           /\ ~headersFirstMode' /\ Behind => syncPeer' = None
BY DEF startSync, Behind

LEMMA ReadyGivesInv ==
    ASSUME ChainInv', ListInv', Ready', TypeOK',
           headersFirstMode' => Behind' /\ syncPeer' \in Peers,
           ~headersFirstMode' /\ Behind' => syncPeer' = None
    PROVE  HeaderInv'
<1>1. Waiting'
  BY DEF Waiting
<1>2. Fetching'
  <2>1. SUFFICES ASSUME headersFirstMode'
                 PROVE  /\ \A p \in Peers \ {syncPeer'} : peerBlocks'[p] = {}
                        /\ Downloads(headerList, startHeader, nextCheckpoint,
                                     peerBlocks[syncPeer], known \cup orphans, failures)'
    BY DEF Fetching
  <2>2. /\ startHeader' = None /\ peerBlocks'[syncPeer'] = {} /\ headerList' \in Seq(Blocks)
        /\ \A p \in Peers : peerBlocks'[p] = {}
        /\ Len(headerList') = 1 /\ headerList'[1] \in known'
        /\ nextCheckpoint' # None
    BY <2>1 DEF Ready, ListInv, Behind
  <2>5. Downloads(headerList', None, nextCheckpoint', {}, known' \cup orphans', failures')
    BY <2>2, DownloadStarts
  <2>. QED  BY <2>2, <2>5
<1>. QED  BY <1>1, <1>2 DEF HeaderInv

LEMMA NewPeerHeaderInv ==
    ASSUME HeaderInv, Inv, Inv', NEW p \in Peers, p \in arriving, handleNewPeerMsg(p)
    PROVE  HeaderInv'
<1>. DEFINE cands == IF p \in FullNodes THEN syncCandidate \cup {p} ELSE syncCandidate
<1>1. /\ UNCHANGED <<known, orphans, tip, failures>>
      /\ UNCHANGED <<headerList, startHeader, nextCheckpoint>>
      /\ peerBlocks' = [peerBlocks EXCEPT ![p] = {}]
  BY DEF handleNewPeerMsg, chainVars
<1>2. p # syncPeer /\ cands \in SUBSET Peers /\ TypeOK'
  BY SyncAssumption DEF Inv, TypeOK, NewPeersNew
<1>3. ChainInv' /\ ListInv'
  BY <1>1 DEF HeaderInv, ChainInv, ListInv
<1>4. Ready => Ready'
  BY <1>1 DEF Ready, Behind
<1>5. CASE p \in FullNodes /\ syncPeer = None
  <2>1. headersFirstMode = FALSE /\ startSync(cands, requestedBlocks, headersFirstMode, link)
    BY <1>5 DEF handleNewPeerMsg, Inv, TypeOK, HeadersFirstSafe
  <2>2. Ready'
    BY <1>4, <2>1 DEF HeaderInv, Waiting
  <2>3. /\ headersFirstMode' => Behind /\ syncPeer' \in Peers
        /\ ~headersFirstMode' /\ Behind => syncPeer' = None
    BY <1>2, <2>1, StartSyncMode
  <2>4. Behind' = Behind
    BY <1>1 DEF Behind
  <2>. QED  BY <1>2, <1>3, <2>2, <2>3, <2>4, ReadyGivesInv
<1>6. CASE ~(p \in FullNodes /\ syncPeer = None)
  <2>1. UNCHANGED <<headersFirstMode, syncPeer>>
    BY <1>6 DEF handleNewPeerMsg
  <2>2. Waiting'
    BY <1>1, <1>4, <2>1 DEF HeaderInv, Waiting, Behind
  <2>3. Fetching'
    <3>1. headersFirstMode => peerBlocks'[syncPeer] = peerBlocks[syncPeer]
      BY <1>1, <1>2 DEF HeaderInv, ListInv, Inv, TypeOK, HeadersFirstSafe
    <3>2. \A q \in Peers \ {syncPeer} : peerBlocks[q] = {} => peerBlocks'[q] = {}
      BY <1>1 DEF HeaderInv, ListInv
    <3>. QED  BY <1>1, <2>1, <3>1, <3>2 DEF HeaderInv, Fetching
  <2>. QED  BY <1>3, <2>2, <2>3 DEF HeaderInv
<1>. QED  BY <1>5, <1>6

LEMMA DonePeerHeaderInv ==
    ASSUME HeaderInv, Inv, Inv', NEW p \in Peers, handleDonePeerMsg(p)
    PROVE  HeaderInv'
<1>1. /\ UNCHANGED <<known, orphans, tip, failures, nextCheckpoint>>
      /\ peerBlocks' = [peerBlocks EXCEPT ![p] = {}]
  BY DEF handleDonePeerMsg, chainVars
<1>2. ChainInv' /\ Behind' = Behind /\ TypeOK'
  BY <1>1 DEF HeaderInv, ChainInv, Behind, Inv
<1>3. /\ peerBlocks' \in [Peers -> SUBSET Blocks]
      /\ \A q \in Peers : peerBlocks[q] = {} => peerBlocks'[q] = {}
  BY <1>1 DEF HeaderInv, ListInv
<1>4. CASE syncPeer = p
  <2>1. startSync(syncCandidate \ {p}, RequestsWithout(p), FALSE, [link EXCEPT ![p] = Pop(p)])
    BY <1>4 DEF handleDonePeerMsg, LosesSyncPeer, ModeAfterReset
  <2>2. syncCandidate \ {p} \in SUBSET Peers
    BY DEF Inv, TypeOK
  <2>3. /\ headersFirstMode' => Behind /\ syncPeer' \in Peers
        /\ ~headersFirstMode' /\ Behind => syncPeer' = None
    BY <2>1, <2>2, StartSyncMode
  <2>4. CASE headersFirstMode
    <3>1. headerList' = <<tip>> /\ startHeader' = None /\ tip \in Blocks /\ tip \in known
      BY <1>4, <2>4 DEF handleDonePeerMsg, LosesSyncPeer, resetHeaderState, Inv,
                            HeadersFirstSafe, HeaderInv, ChainInv
    <3>2. ListInv'
      BY <1>3, <3>1, SingletonLinked DEF ListInv
    <3>3. \A q \in Peers : peerBlocks'[q] = {}
      BY <1>1, <1>3, <1>4, <2>4 DEF HeaderInv, Fetching, ListInv
    <3>4. Len(headerList') = 1 /\ headerList'[1] = tip
      BY <3>1
    <3>5. Ready'
      BY <1>1, <3>1, <3>3, <3>4 DEF Ready
    <3>. QED  BY <1>2, <2>3, <3>2, <3>5, ReadyGivesInv
  <2>5. CASE ~headersFirstMode
    <3>1. UNCHANGED <<headerList, startHeader>>
      BY <1>4, <2>5 DEF handleDonePeerMsg, LosesSyncPeer
    <3>2. ListInv'
      BY <1>3, <3>1 DEF ListInv, HeaderInv
    <3>3. Ready'
      BY <1>1, <1>2, <1>3, <2>5, <3>1 DEF Ready, HeaderInv, Waiting
    <3>. QED  BY <1>2, <2>3, <3>2, <3>3, ReadyGivesInv
  <2>. QED  BY <2>4, <2>5
<1>5. CASE syncPeer # p
  <2>1. UNCHANGED <<syncPeer, headersFirstMode, headerList, startHeader>>
    BY <1>5 DEF handleDonePeerMsg, LosesSyncPeer
  <2>2. ListInv'
    BY <1>3, <2>1 DEF ListInv, HeaderInv
  <2>3. Waiting'
    BY <1>1, <1>2, <1>3, <2>1 DEF Ready, HeaderInv, Waiting
  <2>4. headersFirstMode => peerBlocks'[syncPeer] = peerBlocks[syncPeer]
    BY <1>1, <1>5 DEF HeaderInv, ListInv, Inv, TypeOK, HeadersFirstSafe
  <2>5. Fetching'
    BY <1>1, <1>3, <2>1, <2>4 DEF HeaderInv, Fetching
  <2>. QED  BY <1>2, <2>2, <2>3, <2>5 DEF HeaderInv
<1>. QED  BY <1>4, <1>5

-----------------------------------------------------------------------------
(***************************************************************************)
(* handleBlockMsg in headers-first mode.                                   *)
(***************************************************************************)
Answered(p, b, have, lost) ==
    /\ p = syncPeer /\ b \in Blocks
    /\ HeadersLeft(b) \in Seq(Blocks) /\ Linked(HeadersLeft(b))
    /\ NotRequested(p, b) \in [Peers -> SUBSET Blocks]
    /\ NotRequested(p, b)[syncPeer] = peerBlocks[syncPeer] \ {b}
    /\ \A q \in Peers \ {syncPeer} : NotRequested(p, b)[q] = {}
    /\ Downloads(HeadersLeft(b), startHeader, nextCheckpoint, peerBlocks[syncPeer] \ {b},
                 have, lost)

LEMMA AnsweredBlock ==
    ASSUME HeaderInv, Inv, headersFirstMode, NEW p \in Peers,
           NEW b \in peerBlocks[p],
           NEW have2, NEW lost2,
           lost2 = 0 => failures = 0 /\ known \cup orphans \subseteq have2 /\ b \in have2
    PROVE  Answered(p, b, have2, lost2)
<1>1. /\ \A q \in Peers \ {syncPeer} : peerBlocks[q] = {}
      /\ Downloads(headerList, startHeader, nextCheckpoint, peerBlocks[syncPeer],
                   known \cup orphans, failures)
      /\ headerList \in Seq(Blocks) /\ Linked(headerList)
      /\ peerBlocks \in [Peers -> SUBSET Blocks]
  BY DEF HeaderInv, Fetching, ListInv
<1>2. p = syncPeer /\ b \in Blocks
  BY <1>1
<1>4. /\ NotRequested(p, b) \in [Peers -> SUBSET Blocks]
      /\ NotRequested(p, b)[syncPeer] = peerBlocks[syncPeer] \ {b}
      /\ \A q \in Peers \ {syncPeer} : NotRequested(p, b)[q] = {}
  BY <1>1, <1>2 DEF NotRequested
<1>5. CASE IsFirstHeader(b) /\ ~IsCheckpointBlock(b)
  <2>1. HeadersLeft(b) = Tail(headerList) /\ b = headerList[1] /\ headerList # <<>>
    BY <1>5 DEF HeadersLeft, IsFirstHeader, IsCheckpointBlock
  <2>2. Downloads(Tail(headerList), startHeader, nextCheckpoint, peerBlocks[syncPeer] \ {b},
                  have2, lost2)
    BY <1>1, <1>2, <2>1, DownloadPops
  <2>. QED  BY <1>1, <1>2, <1>4, <2>1, <2>2, LinkedTail DEF Answered
<1>6. CASE ~(IsFirstHeader(b) /\ ~IsCheckpointBlock(b))
  <2>1. HeadersLeft(b) = headerList
    BY <1>6 DEF HeadersLeft
  <2>2. Downloads(headerList, startHeader, nextCheckpoint, peerBlocks[syncPeer] \ {b},
                  have2, lost2)
    <3>1. /\ peerBlocks[syncPeer] \ {b} \in SUBSET peerBlocks[syncPeer]
          /\ lost2 = 0 => /\ failures = 0 /\ known \cup orphans \subseteq have2
                          /\ peerBlocks[syncPeer] \subseteq (peerBlocks[syncPeer] \ {b}) \cup have2
      OBVIOUS
    <3>. QED  BY <1>1, <3>1, DownloadGoesOn
  <2>. QED  BY <1>1, <1>2, <1>4, <2>1, <2>2 DEF Answered
<1>. QED  BY <1>5, <1>6

(***************************************************************************)
(* A block that is answered in normal mode is not behind a checkpoint.     *)
(***************************************************************************)
LEMMA AnsweredNormally ==
    ASSUME HeaderInv, ~headersFirstMode, NEW p \in Peers, NEW b \in peerBlocks[p]
    PROVE  ~Behind /\ HeadersLeft(b) = headerList /\ b \in Blocks
           /\ NotRequested(p, b) \in [Peers -> SUBSET Blocks]
BY DEF HeaderInv, Waiting, Ready, HeadersLeft, IsFirstHeader, ListInv, NotRequested

LEMMA RejectedHeaderInv ==
    ASSUME CheckpointsPassed, HeaderInv, Inv, NEW p \in Peers, NEW b, RejectedBlock(p, b)
    PROVE  HeaderInv'
<1>0. PICK have2 : have2 = known' \cup orphans'
  OBVIOUS
<1>1. /\ b \in peerBlocks[p] /\ headerList' = HeadersLeft(b) /\ peerBlocks' = NotRequested(p, b)
      /\ UNCHANGED <<headersFirstMode, startHeader, nextCheckpoint, syncPeer>>
      /\ ProcessBlockFails(b)
  BY DEF RejectedBlock
<1>2. b \in Blocks /\ failures \in Nat
  BY <1>1, SyncAssumption DEF HeaderInv, ListInv, Inv, TypeOK
<1>3. Processed(b)
  BY <1>1, <1>2, ProcessBlockFailsFacts DEF HeaderInv
<1>4. /\ ChainInv'
      /\ failures' = 0 => failures = 0 /\ known \cup orphans \subseteq have2 /\ b \in have2
  BY <1>0, <1>2, <1>3 DEF Processed
<1>5. Behind' => Behind
  BY <1>1, <1>3, StaysBeyond DEF HeaderInv, Processed
<1>6. CASE headersFirstMode
  <2>1. Answered(p, b, have2, failures')
    BY <1>1, <1>4, <1>6, AnsweredBlock
  <2>2. ListInv'
    BY <1>1, <2>1 DEF ListInv, Answered
  <2>3. Fetching' /\ Waiting'
    BY <1>0, <1>1, <1>6, <2>1 DEF Fetching, Waiting, Answered
  <2>. QED  BY <1>4, <2>2, <2>3 DEF HeaderInv
<1>7. CASE ~headersFirstMode
  <2>1. ~Behind /\ HeadersLeft(b) = headerList /\ NotRequested(p, b) \in [Peers -> SUBSET Blocks]
    BY <1>1, <1>7, AnsweredNormally
  <2>2. ListInv'
    BY <1>1, <2>1 DEF HeaderInv, ListInv
  <2>3. Waiting' /\ Fetching'
    BY <1>1, <1>5, <1>7, <2>1 DEF Waiting, Fetching, Ready
  <2>. QED  BY <1>4, <2>2, <2>3 DEF HeaderInv
<1>. QED  BY <1>6, <1>7

LEMMA NextCheckpointHigher ==
    ASSUME NEW h \in Int, findNextHeaderCheckpoint(h) # None
    PROVE  /\ findNextHeaderCheckpoint(h) \in Checkpoints
           /\ Height(findNextHeaderCheckpoint(h)) > h
<1>. DEFINE Q(c) == /\ Height(c) > h
                    /\ \A d \in Checkpoints : Height(d) > h => Height(c) <= Height(d)
<1>1. ~(\A c \in Checkpoints : Height(c) <= h)
  BY DEF findNextHeaderCheckpoint
<1>2. findNextHeaderCheckpoint(h) = CHOOSE c \in Checkpoints : Q(c)
  BY <1>1 DEF findNextHeaderCheckpoint
<1>3. \E c \in Checkpoints : Q(c)
  BY <1>1, CheckpointAbove
<1>. HIDE DEF Q
<1>4. findNextHeaderCheckpoint(h) \in Checkpoints /\ Q(findNextHeaderCheckpoint(h))
  BY <1>2, <1>3
<1>. QED  BY <1>4 DEF Q

LEMMA ProcessedHeaderInv ==
    ASSUME CheckpointsPassed, HeaderInv, Inv, NEW p \in Peers, NEW b, ProcessedBlock(p, b)
    PROVE  HeaderInv'
<1>. DEFINE next == findNextHeaderCheckpoint(Height(nextCheckpoint))
            hl == HeadersLeft(b)
            pb == NotRequested(p, b)
<1>0. PICK have2 : have2 = known' \cup orphans'
  OBVIOUS
<1>1. b \in peerBlocks[p] /\ ProcessBlock(b) /\ syncPeer' = syncPeer /\ failures' = failures
  BY DEF ProcessedBlock, ProcessBlock
<1>2. b \in Blocks
  BY <1>1 DEF HeaderInv, ListInv
<1>3. /\ ChainInv' /\ KeepsCheckpoints(tip')
      /\ known \cup orphans \cup {b} \subseteq known' \cup orphans'
  <2>1. Processed(b) /\ failures \in Nat
    BY <1>1, <1>2, ProcessBlockFacts, SyncAssumption DEF HeaderInv, Inv, TypeOK
  <2>. QED  BY <1>1, <2>1 DEF Processed
<1>4. CASE ~headersFirstMode
  <2>1. UNCHANGED headerVars /\ peerBlocks' = pb
    BY <1>4 DEF ProcessedBlock, IsCheckpointBlock, IsFirstHeader
  <2>2. ~Behind /\ pb \in [Peers -> SUBSET Blocks]
    BY <1>1, <1>4, AnsweredNormally
  <2>3. ~Behind'
    BY <1>3, <2>1, <2>2, StaysBeyond DEF HeaderInv, headerVars
  <2>4. ListInv' /\ Waiting' /\ Fetching'
    BY <1>4, <2>1, <2>2, <2>3 DEF HeaderInv, ListInv, Waiting, Fetching, Ready, headerVars
  <2>. QED  BY <1>3, <2>4 DEF HeaderInv
<1>5. CASE headersFirstMode
  <2>1. /\ p = syncPeer /\ hl \in Seq(Blocks) /\ Linked(hl)
        /\ pb \in [Peers -> SUBSET Blocks]
        /\ pb[syncPeer] = peerBlocks[syncPeer] \ {b}
        /\ \A q \in Peers \ {syncPeer} : pb[q] = {}
        /\ Downloads(hl, startHeader, nextCheckpoint, pb[syncPeer], have2, failures)
    <3>1. known \cup orphans \subseteq have2 /\ (failures = 0 => failures = 0 /\ b \in have2)
      BY <1>0, <1>3
    <3>2. Answered(p, b, have2, failures)
      BY <1>1, <1>5, <3>1, AnsweredBlock
    <3>. QED  BY <3>2 DEF Answered
  <2>2. \/ /\ headerList' = hl
           /\ \/ startHeader # None /\ \E requested, lk :
                    fetchHeaderBlocks(hl, startHeader, have2, pb, requested, lk)
              \/ peerBlocks' = pb /\ startHeader' = startHeader
           /\ UNCHANGED <<headersFirstMode, nextCheckpoint>>
        \/ /\ IsCheckpointBlock(b) /\ next # None
           /\ nextCheckpoint' = next /\ peerBlocks' = pb
           /\ UNCHANGED <<headersFirstMode, headerList, startHeader>>
        \/ /\ nextCheckpoint' = None /\ headersFirstMode' = FALSE /\ headerList' = <<>>
           /\ peerBlocks' = pb
    BY <1>0, <1>5 DEF ProcessedBlock
  <2>3. syncPeer \in Peers
    BY <1>5 DEF Inv, TypeOK, HeadersFirstSafe
  <2>. HIDE DEF hl, pb
  <2>4. CASE /\ headerList' = hl /\ startHeader # None
             /\ \E requested, lk : fetchHeaderBlocks(hl, startHeader, have2, pb, requested, lk)
             /\ UNCHANGED <<headersFirstMode, nextCheckpoint>>
    <3>1. PICK requested, lk : fetchHeaderBlocks(hl, startHeader, have2, pb, requested, lk)
      BY <2>4
    <3>2. FetchedOn(hl, nextCheckpoint, pb, have2, failures)
      BY <2>1, <2>3, <2>4, <3>1, DownloadFetches
    <3>3. ListInv' /\ Waiting'
      BY <1>5, <2>1, <2>4, <3>2 DEF ListInv, Waiting, FetchedOn
    <3>4. Fetching'
      BY <1>0, <1>1, <1>5, <2>1, <2>4, <3>2 DEF Fetching, FetchedOn
    <3>. QED  BY <1>3, <3>3, <3>4 DEF HeaderInv
  <2>5. CASE /\ headerList' = hl /\ peerBlocks' = pb /\ startHeader' = startHeader
             /\ UNCHANGED <<headersFirstMode, nextCheckpoint>>
    <3>1. ListInv' /\ Waiting'
      BY <1>5, <2>1, <2>5 DEF ListInv, Waiting
    <3>2. Fetching'
      BY <1>0, <1>1, <1>5, <2>1, <2>5 DEF Fetching
    <3>. QED  BY <1>3, <3>1, <3>2 DEF HeaderInv
  <2>6. CASE /\ IsCheckpointBlock(b) /\ next # None
             /\ nextCheckpoint' = next /\ peerBlocks' = pb
             /\ UNCHANGED <<headersFirstMode, headerList, startHeader>>
    <3>1. /\ headerList \in Seq(Blocks) /\ Linked(headerList) /\ headerList # <<>>
          /\ b = headerList[1] /\ b = nextCheckpoint
          /\ Downloads(headerList, startHeader, nextCheckpoint, peerBlocks[syncPeer],
                       known \cup orphans, failures)
      BY <1>5, <2>6 DEF HeaderInv, ListInv, Fetching, IsCheckpointBlock, IsFirstHeader
    <3>2. next \in Blocks /\ Height(next) > Height(nextCheckpoint)
      <4>1. Height(nextCheckpoint) \in Int
        BY <1>2, <3>1, HeightType
      <4>. QED  BY <2>6, <4>1, NextCheckpointHigher, SyncAssumption
    <3>3. known \cup orphans \subseteq have2 /\ b \in have2
      BY <1>0, <1>3
    <3>4. /\ nextCheckpoint \in Blocks /\ headerList[1] = nextCheckpoint
          /\ nextCheckpoint \in peerBlocks[syncPeer]
          /\ failures = 0 => failures = 0 /\ nextCheckpoint \in have2
      BY <1>1, <1>2, <2>1, <3>1, <3>3
    <3>. HIDE DEF next
    <3>5. Downloads(headerList, startHeader, next, peerBlocks[syncPeer] \ {nextCheckpoint},
                    have2, failures)
      BY <3>1, <3>2, <3>3, <3>4, DownloadNextCheckpoint
    <3>6. ListInv' /\ Waiting'
      BY <1>5, <2>1, <2>6, <3>1 DEF ListInv, Waiting
    <3>7. Fetching'
      BY <1>0, <1>1, <1>5, <2>1, <2>6, <3>1, <3>5 DEF Fetching
    <3>. QED  BY <1>3, <3>6, <3>7 DEF HeaderInv
  <2>7. CASE /\ nextCheckpoint' = None /\ headersFirstMode' = FALSE /\ headerList' = <<>>
             /\ peerBlocks' = pb
    <3>1. Linked(<<>>) /\ <<>> \in Seq(Blocks)
      BY DEF Linked
    <3>2. ListInv'
      BY <2>1, <2>7, <3>1 DEF ListInv
    <3>3. Waiting' /\ Fetching'
      BY <2>7 DEF Waiting, Fetching, Ready, Behind
    <3>. QED  BY <1>3, <3>2, <3>3 DEF HeaderInv
  <2>. QED  BY <2>2, <2>4, <2>5, <2>6, <2>7
<1>. QED  BY <1>4, <1>5

LEMMA InvMsgHeaderInv ==
    ASSUME CheckpointsPassed, HeaderInv, Inv, NEW p \in Peers, NEW inv \in Seq(Blocks), handleInvMsg(p, inv)
    PROVE  HeaderInv'
<1>1. UNCHANGED chainVars /\ UNCHANGED headerVars /\ UNCHANGED syncPeer
  BY DEF handleInvMsg
<1>2. CASE (p # syncPeer /\ ~current(tip, link)) \/ headersFirstMode
  <2>1. UNCHANGED peerBlocks
    BY <1>2 DEF handleInvMsg, InvIgnored
  <2>. QED  BY <1>1, <2>1, HeaderInvUnchanged
<1>3. CASE ~((p # syncPeer /\ ~current(tip, link)) \/ headersFirstMode)
  <2>1. peerBlocks' = [peerBlocks EXCEPT ![p] = @ \cup {b \in Elements(inv) : IsNew(b)}]
    BY <1>3 DEF handleInvMsg, InvIgnored
  <2>2. peerBlocks' \in [Peers -> SUBSET Blocks]
    <3>1. Elements(inv) \subseteq Blocks
      BY DEF Elements
    <3>. QED  BY <2>1, <3>1 DEF HeaderInv, ListInv
  <2>3. ~Behind
    <3>1. SUFFICES ASSUME Behind PROVE FALSE
      OBVIOUS
    <3>2. syncPeer = None /\ p # syncPeer
      BY <1>3, <3>1, SyncAssumption DEF HeaderInv, Waiting
    <3>3. \A c \in Checkpoints : Height(c) <= Height(tip)
      BY <1>3, <3>2 DEF current, ChainIsCurrent
    <3>4. nextCheckpoint \in Checkpoints /\ nextCheckpoint \in Blocks
      BY <3>1, SyncAssumption DEF Behind, Inv, TypeOK
    <3>5. Height(nextCheckpoint) \in Nat /\ Height(tip) \in Nat
      BY <3>4, PathFacts DEF HeaderInv, ChainInv
    <3>. QED  BY <3>1, <3>3, <3>4, <3>5 DEF Behind
  <2>4. ChainInv' /\ ListInv' /\ ~Behind'
    BY <1>1, <2>2, <2>3 DEF HeaderInv, ChainInv, ListInv, Behind, chainVars, headerVars
  <2>5. Waiting' /\ Fetching'
    BY <1>1, <1>3, <2>4 DEF Waiting, Fetching, Ready, headerVars
  <2>. QED  BY <2>4, <2>5 DEF HeaderInv
<1>. QED  BY <1>2, <1>3

(***************************************************************************)
(* The headers that handleHeadersMsg takes continue the list, and reach    *)
(* the next checkpoint when it was received.                               *)
(***************************************************************************)
Received(hs) ==
    StopsAt(hs) # {} /\ Connects(hs, FirstStop(hs)) /\ hs[FirstStop(hs)] = nextCheckpoint

LEMMA TakenFacts ==
    ASSUME NEW hs \in Seq(Blocks)
    PROVE  /\ Taken(hs) \in Seq(Blocks) /\ Len(Taken(hs)) <= Len(hs) /\ Len(Taken(hs)) \in Nat
           /\ \A i \in 1..Len(Taken(hs)) : Taken(hs)[i] = hs[i] /\ Connects(hs, i)
           /\ Received(hs) => /\ Len(Taken(hs)) >= 1
                              /\ Taken(hs)[Len(Taken(hs))] = nextCheckpoint
<1>1. CASE StopsAt(hs) = {}
  <2>1. Taken(hs) = hs /\ ~Received(hs) /\ Len(hs) \in Nat
    BY <1>1 DEF Taken, Received
  <2>2. \A i \in 1..Len(hs) : Connects(hs, i)
    BY <1>1 DEF StopsAt
  <2>. QED  BY <2>1, <2>2
<1>2. CASE StopsAt(hs) # {}
  <2>1. PICK n : n = FirstStop(hs)
    OBVIOUS
  <2>2. n \in StopsAt(hs) /\ \A j \in StopsAt(hs) : n <= j
    <3>1. StopsAt(hs) \in SUBSET Nat
      BY DEF StopsAt
    <3>2. \E i \in StopsAt(hs) : \A j \in StopsAt(hs) : i <= j
      BY <1>2, <3>1, LeastNatural
    <3>. QED  BY <2>1, <3>2 DEF FirstStop
  <2>3. n \in 1..Len(hs) /\ Len(hs) \in Nat
    BY <2>2 DEF StopsAt
  <2>4. ASSUME NEW i \in 1..(n - 1) PROVE Connects(hs, i)
    <3>1. i \in 1..Len(hs) /\ ~(n <= i)
      BY <2>3
    <3>. QED  BY <2>2, <3>1 DEF StopsAt
  <2>5. PICK l : l = IF Connects(hs, n) THEN n ELSE n - 1
    OBVIOUS
  <2>6. l \in 0..Len(hs) /\ \A i \in 1..l : Connects(hs, i)
    <3>1. CASE Connects(hs, n)
      <4>1. \A i \in 1..n : i = n \/ i \in 1..(n - 1)
        BY <2>3
      <4>. QED  BY <2>3, <2>4, <2>5, <3>1, <4>1
    <3>2. CASE ~Connects(hs, n)
      BY <2>3, <2>4, <2>5, <3>2
    <3>. QED  BY <3>1, <3>2
  <2>7. Taken(hs) = SubSeq(hs, 1, l)
    BY <1>2, <2>1, <2>5 DEF Taken
  <2>8. PICK t : t = SubSeq(hs, 1, l)
    OBVIOUS
  <2>9. t \in Seq(Blocks) /\ Len(t) = l /\ \A i \in 1..l : t[i] = hs[i]
    BY <2>3, <2>6, <2>8
  <2>10. Received(hs) => l = n /\ hs[n] = nextCheckpoint
    BY <2>1, <2>5 DEF Received
  <2>11. Received(hs) => Len(t) >= 1 /\ t[Len(t)] = nextCheckpoint
    BY <2>3, <2>9, <2>10
  <2>. QED  BY <2>6, <2>7, <2>8, <2>9, <2>11
<1>. QED  BY <1>1, <1>2

LEMMA TakenOfNothing ==
    ASSUME headerList = <<>>, NEW hs \in Seq(Blocks)
    PROVE  Taken(hs) = <<>>
<1>1. SUFFICES ASSUME 1 \in 1..Len(Taken(hs)) PROVE FALSE
  BY TakenFacts
<1>2. Connects(hs, 1)
  BY <1>1, TakenFacts
<1>. QED  BY <1>2 DEF Connects

LEMMA TakenLinked ==
    ASSUME headerList \in Seq(Blocks), Linked(headerList),
           NEW hs \in Seq(Blocks)
    PROVE  Linked(headerList \o Taken(hs))
<1>1. PICK t : t = Taken(hs)
  OBVIOUS
<1>0. headerList = <<>> => headerList \o t = headerList
  BY <1>1, TakenOfNothing
<1>2. t \in Seq(Blocks) /\ \A i \in 1..Len(t) : t[i] = hs[i] /\ Connects(hs, i)
  BY <1>1, TakenFacts
<1>3. ASSUME NEW i \in 1..Len(t)
      PROVE  /\ t[i] # Genesis
             /\ Parent(t[i]) = IF i > 1 THEN t[i - 1] ELSE headerList[Len(headerList)]
  <2>1. /\ t[i] = hs[i] /\ hs[i] # Genesis
        /\ Parent(hs[i]) = IF i > 1 THEN hs[i - 1] ELSE headerList[Len(headerList)]
    BY <1>2 DEF Connects
  <2>2. i > 1 => i - 1 \in 1..Len(t)
    BY <1>2
  <2>3. i > 1 => t[i - 1] = hs[i - 1]
    BY <1>2, <2>2
  <2>. QED  BY <2>1, <2>3
<1>4. Linked(headerList \o t)
  BY <1>0, <1>2, <1>3, LinkedAppend
<1>. QED  BY <1>1, <1>4

(***************************************************************************)
(* A headers message that reaches the checkpoint, or not.                  *)
(***************************************************************************)
StartAfter(hs) == IF startHeader = None /\ Taken(hs) # <<>> THEN hs[1] ELSE startHeader

LEMMA TakenDownloads ==
    ASSUME HeaderInv, Inv, headersFirstMode, NEW hs \in Seq(Blocks)
    PROVE  /\ headerList \o Taken(hs) \in Seq(Blocks) /\ Linked(headerList \o Taken(hs))
           /\ Downloads(headerList \o Taken(hs), StartAfter(hs), nextCheckpoint,
                        peerBlocks[syncPeer], known \cup orphans, failures)
<1>1. PICK t : t = Taken(hs)
  OBVIOUS
<1>2. /\ headerList \in Seq(Blocks) /\ Linked(headerList)
      /\ Downloads(headerList, startHeader, nextCheckpoint, peerBlocks[syncPeer],
                   known \cup orphans, failures)
  BY DEF HeaderInv, ListInv, Fetching
<1>3. nextCheckpoint \in Blocks
  BY SyncAssumption DEF Inv, TypeOK, HeadersFirstSafe
<1>4. t \in Seq(Blocks) /\ Linked(headerList \o t)
  BY <1>1, <1>2, TakenFacts, TakenLinked
<1>5. t # <<>> => t[1] = hs[1]
  <2>1. Len(t) \in Nat /\ \A i \in 1..Len(t) : t[i] = hs[i]
    BY <1>1, TakenFacts
  <2>2. t # <<>> => 1 \in 1..Len(t)
    BY <1>4
  <2>. QED  BY <2>1, <2>2
<1>6. StartAfter(hs) = IF startHeader = None /\ t # <<>> THEN t[1] ELSE startHeader
  BY <1>1, <1>5 DEF StartAfter
<1>7. Downloads(headerList \o t, IF startHeader = None /\ t # <<>> THEN t[1] ELSE startHeader,
                nextCheckpoint, peerBlocks[syncPeer], known \cup orphans, failures)
  <2>1. CASE headerList # <<>>
    BY <1>2, <1>3, <1>4, <2>1, DownloadAppends
  <2>2. CASE headerList = <<>>
    <3>1. t = <<>> /\ headerList \o t = headerList
      BY <1>1, <2>2, TakenOfNothing
    <3>. QED  BY <1>2, <3>1
  <2>. QED  BY <2>1, <2>2
<1>8. headerList \o t \in Seq(Blocks)
  BY <1>2, <1>4, AppendFacts
<1>. QED  BY <1>1, <1>4, <1>6, <1>7, <1>8

LEMMA ReceivedDownloads ==
    ASSUME HeaderInv, Inv, headersFirstMode, NEW hs \in Seq(Blocks), Received(hs)
    PROVE  /\ Tail(headerList \o Taken(hs)) \in Seq(Blocks)
           /\ Linked(Tail(headerList \o Taken(hs)))
           /\ StartAfter(hs) # None
           /\ Downloads(Tail(headerList \o Taken(hs)), StartAfter(hs), nextCheckpoint,
                        peerBlocks[syncPeer], known \cup orphans, failures)
<1>1. PICK t : t = Taken(hs)
  OBVIOUS
<1>2. PICK u : u = headerList \o t
  OBVIOUS
<1>3. PICK owed : owed = peerBlocks[syncPeer]
  OBVIOUS
<1>4. /\ headerList \in Seq(Blocks) /\ headerList # <<>>
      /\ Downloads(headerList, startHeader, nextCheckpoint, owed, known \cup orphans, failures)
  <2>1. Len(Taken(hs)) >= 1
    BY TakenFacts
  <2>2. headerList # <<>>
    BY <2>1, TakenOfNothing
  <2>. QED  BY <1>3, <2>2 DEF HeaderInv, ListInv, Fetching
<1>5. nextCheckpoint \in Blocks /\ Height(nextCheckpoint) \in Nat
  BY SyncAssumption, PathFacts DEF Inv, TypeOK, HeadersFirstSafe
<1>6. t \in Seq(Blocks) /\ Len(t) \in Nat /\ Len(t) >= 1 /\ t[Len(t)] = nextCheckpoint
  BY <1>1, TakenFacts
<1>7. /\ u \in Seq(Blocks) /\ Linked(u)
      /\ Downloads(u, StartAfter(hs), nextCheckpoint, owed, known \cup orphans, failures)
  BY <1>1, <1>2, <1>3, TakenDownloads
<1>8. /\ Len(u) = Len(headerList) + Len(t) /\ Len(headerList) \in Nat /\ Len(headerList) >= 1
      /\ \A i \in 1..Len(headerList) : u[i] = headerList[i]
      /\ \A i \in 1..Len(t) : u[Len(headerList) + i] = t[i]
  BY <1>2, <1>4, <1>6, AppendFacts
<1>9. Len(u) > 1 /\ u # <<>> /\ u[1] = headerList[1] /\ u[Len(u)] = nextCheckpoint
  <2>1. Len(u) > 1 /\ u[1] = headerList[1]
    BY <1>6, <1>8
  <2>2. Len(t) \in 1..Len(t)
    BY <1>6
  <2>3. u[Len(u)] = nextCheckpoint
    BY <1>6, <1>8, <2>2
  <2>. QED  BY <1>7, <1>8, <2>1, <2>3, NotEmpty
<1>10. Height(headerList[Len(headerList)]) < Height(nextCheckpoint)
  <2>1. /\ Len(headerList) \in 1..Len(u) /\ Len(u) \in 1..Len(u) /\ Len(headerList) <= Len(u)
        /\ u[Len(headerList)] = headerList[Len(headerList)]
    BY <1>6, <1>8
  <2>2. Height(nextCheckpoint) = Height(headerList[Len(headerList)]) + (Len(u) - Len(headerList))
    BY <1>7, <1>9, <2>1 DEF Linked
  <2>3. headerList[Len(headerList)] \in Blocks
    BY <1>4, <1>8
  <2>4. Height(headerList[Len(headerList)]) \in Nat
    BY <2>3, PathFacts
  <2>. QED  BY <1>5, <1>6, <1>8, <2>2, <2>4
<1>11. PICK k \in 1..(Len(headerList) + 1) :
          /\ startHeader = IF k <= Len(headerList) THEN headerList[k] ELSE None
          /\ k > 1 /\ headerList[1] \notin owed
  BY <1>4, <1>10 DEF Downloads
<1>12. StartAfter(hs) # None /\ StartAfter(hs) # u[1]
  <2>1. CASE k <= Len(headerList)
    <3>1. /\ startHeader = headerList[k] /\ startHeader = u[k] /\ startHeader \in Blocks
          /\ k \in 1..Len(u) /\ 1 \in 1..Len(u) /\ k # 1
      BY <1>4, <1>6, <1>8, <1>11, <2>1
    <3>2. startHeader # None
      BY <3>1, SyncAssumption
    <3>3. u[k] # u[1]
      BY <1>7, <3>1, LinkedDistinct
    <3>. QED  BY <3>1, <3>2, <3>3 DEF StartAfter
  <2>2. CASE k = Len(headerList) + 1
    <3>1. startHeader = None
      BY <1>8, <1>11, <2>2
    <3>2. t # <<>> /\ t[1] = hs[1] /\ t[1] \in Blocks
      <4>1. 1 \in 1..Len(t) /\ t # <<>> /\ t[1] \in Blocks
        BY <1>6
      <4>. QED  BY <1>1, <4>1, TakenFacts
    <3>3. StartAfter(hs) = t[1]
      BY <1>1, <3>1, <3>2 DEF StartAfter
    <3>4. u[k] = t[1] /\ k \in 1..Len(u) /\ 1 \in 1..Len(u) /\ k # 1
      BY <1>6, <1>8, <1>11, <2>2
    <3>5. u[k] # u[1]
      BY <1>7, <3>4, LinkedDistinct
    <3>. QED  BY <3>2, <3>3, <3>4, <3>5, SyncAssumption
  <2>. QED  BY <1>8, <2>1, <2>2
<1>13. u[1] \notin owed
  BY <1>9, <1>11
<1>14. Linked(Tail(u)) /\ Tail(u) \in Seq(Blocks)
  BY <1>7, <1>9, LinkedTail
<1>15. PICK start : start = StartAfter(hs)
  OBVIOUS
<1>16. Downloads(Tail(u), start, nextCheckpoint, owed, known \cup orphans, failures)
  BY <1>5, <1>7, <1>9, <1>12, <1>13, <1>15, DownloadDropsFirst
<1>. QED  BY <1>1, <1>2, <1>3, <1>12, <1>14, <1>15, <1>16

LEMMA HeadersHeaderInv ==
    ASSUME CheckpointsPassed, HeaderInv, Inv, NEW p \in Peers, NEW hs \in Seq(Blocks), handleHeadersMsg(p, hs)
    PROVE  HeaderInv'
<1>0. UNCHANGED <<chainVars, headersFirstMode, nextCheckpoint, syncPeer>>
  BY DEF handleHeadersMsg
<1>1. \/ UNCHANGED <<headerList, startHeader, peerBlocks>>
      \/ /\ headersFirstMode /\ headerList' = headerList \o Taken(hs)
         /\ startHeader' = StartAfter(hs) /\ peerBlocks' = peerBlocks
      \/ /\ headersFirstMode /\ Received(hs) /\ headerList' = Tail(headerList \o Taken(hs))
         /\ \E requested, lk :
               fetchHeaderBlocks(Tail(headerList \o Taken(hs)), StartAfter(hs),
                                 known \cup orphans, peerBlocks, requested, lk)
  <2>1. StopsAt(hs) = {} => Taken(hs) = hs
    BY DEF Taken
  <2>. HIDE DEF StopsAt, Taken
  <2>. QED  BY <2>1 DEF handleHeadersMsg, Received, StartAfter
<1>2. CASE UNCHANGED <<headerList, startHeader, peerBlocks>>
  BY <1>0, <1>2, HeaderInvUnchanged DEF headerVars
<1>3. ChainInv'
  BY <1>0 DEF HeaderInv, ChainInv, chainVars
<1>4. peerBlocks \in [Peers -> SUBSET Blocks] /\ known' = known /\ orphans' = orphans
      /\ failures' = failures
  BY <1>0 DEF HeaderInv, ListInv, chainVars
<1>5. headersFirstMode => \A q \in Peers \ {syncPeer} : peerBlocks[q] = {}
  BY DEF HeaderInv, Fetching
<1>6. CASE /\ headersFirstMode /\ headerList' = headerList \o Taken(hs)
           /\ startHeader' = StartAfter(hs) /\ peerBlocks' = peerBlocks
  <2>0. PICK hl : hl = headerList \o Taken(hs)
    OBVIOUS
  <2>1. /\ hl \in Seq(Blocks) /\ Linked(hl)
        /\ Downloads(hl, StartAfter(hs), nextCheckpoint, peerBlocks[syncPeer],
                     known \cup orphans, failures)
    BY <1>6, <2>0, TakenDownloads
  <2>2. ListInv' /\ Waiting'
    BY <1>0, <1>4, <1>6, <2>0, <2>1 DEF ListInv, Waiting
  <2>3. Fetching'
    BY <1>0, <1>4, <1>5, <1>6, <2>0, <2>1 DEF Fetching
  <2>. QED  BY <1>3, <2>2, <2>3 DEF HeaderInv
<1>7. CASE /\ headersFirstMode /\ Received(hs) /\ headerList' = Tail(headerList \o Taken(hs))
           /\ \E requested, lk :
                 fetchHeaderBlocks(Tail(headerList \o Taken(hs)), StartAfter(hs),
                                   known \cup orphans, peerBlocks, requested, lk)
  <2>0. PICK hl : hl = Tail(headerList \o Taken(hs))
    OBVIOUS
  <2>1. PICK start, have : start = StartAfter(hs) /\ have = known \cup orphans
    OBVIOUS
  <2>2. /\ hl \in Seq(Blocks) /\ Linked(hl) /\ start # None
        /\ Downloads(hl, start, nextCheckpoint, peerBlocks[syncPeer], have, failures)
    BY <1>7, <2>0, <2>1, ReceivedDownloads
  <2>3. PICK requested, lk : fetchHeaderBlocks(hl, start, have, peerBlocks, requested, lk)
    BY <1>7, <2>0, <2>1
  <2>4. syncPeer \in Peers
    BY <1>7 DEF Inv, TypeOK, HeadersFirstSafe
  <2>5. FetchedOn(hl, nextCheckpoint, peerBlocks, have, failures)
    BY <1>4, <2>2, <2>3, <2>4, DownloadFetches
  <2>6. ListInv' /\ Waiting'
    BY <1>0, <1>7, <2>0, <2>2, <2>5 DEF ListInv, Waiting, FetchedOn
  <2>7. Fetching'
    BY <1>0, <1>4, <1>5, <1>7, <2>0, <2>1, <2>5 DEF Fetching, FetchedOn
  <2>. QED  BY <1>3, <2>6, <2>7 DEF HeaderInv
<1>. QED  BY <1>1, <1>2, <1>6, <1>7

LEMMA HeaderInvStep ==
    ASSUME CheckpointsPassed, HeaderInv, Inv, Inv', [Next]_vars
    PROVE  HeaderInv'
<1>1. ASSUME NEW p \in Peers, blockHandler(p) PROVE HeaderInv'
  <2>1. CASE p \in arriving /\ handleNewPeerMsg(p)
    BY <2>1, NewPeerHeaderInv
  <2>2. ASSUME NEW m, HandleMessage(p, m) PROVE HeaderInv'
    <3>1. CASE FromUnknownPeer(p)
      BY <3>1, HeaderInvUnchanged DEF FromUnknownPeer
    <3>2. CASE handleDonePeerMsg(p)
      BY <3>2, DonePeerHeaderInv
    <3>3. CASE m.items \in Seq(Blocks) /\ handleHeadersMsg(p, m.items)
      BY <3>3, HeadersHeaderInv
    <3>4. CASE UnrequestedBlock(p, m.items[1])
      BY <3>4, HeaderInvUnchanged DEF UnrequestedBlock
    <3>5. CASE RejectedBlock(p, m.items[1])
      BY <3>5, RejectedHeaderInv
    <3>6. CASE ProcessedBlock(p, m.items[1])
      BY <3>6, ProcessedHeaderInv
    <3>7. CASE m.items \in Seq(Blocks) /\ handleInvMsg(p, m.items)
      BY <3>7, InvMsgHeaderInv
    <3>8. CASE \E type : handleInvTx(p, type, m.items[1])
      BY <3>8, HeaderInvUnchanged DEF handleInvTx
    <3>9. CASE handleTxMsg(p, m.items[1])
      BY <3>9, HeaderInvUnchanged DEF handleTxMsg
    <3>. QED  BY <2>2, <3>1, <3>2, <3>3, <3>4, <3>5, <3>6, <3>7, <3>8, <3>9 DEF HandleMessage
  <2>. QED  BY <1>1, <2>1, <2>2 DEF blockHandler
<1>2. ASSUME NEW p \in Peers, Connect(p) PROVE HeaderInv'
  BY <1>2, HeaderInvUnchanged DEF Connect, EnvUnchanged
<1>3. ASSUME NEW p \in Peers, LoseConnection(p) PROVE HeaderInv'
  BY <1>3, HeaderInvUnchanged DEF LoseConnection, EnvUnchanged
<1>4. ASSUME NEW p \in Peers, NEW b \in Blocks, Announce(p, b) PROVE HeaderInv'
  BY <1>4, HeaderInvUnchanged DEF Announce, EnvUnchanged
<1>5. ASSUME NEW p \in Peers, NEW t \in Txs, AnnounceTx(p, t) PROVE HeaderInv'
  BY <1>5, HeaderInvUnchanged DEF AnnounceTx, EnvUnchanged
<1>6. ASSUME NEW b \in Blocks, SubmitBlock(b) PROVE HeaderInv'
  BY <1>6, SubmitHeaderInv
<1>7. ASSUME NEW u \in heightUpdates, HandleUpdatePeerHeights(u) PROVE HeaderInv'
  BY <1>7, HeaderInvUnchanged DEF HandleUpdatePeerHeights
<1>8. CASE UNCHANGED vars
  BY <1>8, HeaderInvUnchanged DEF vars
<1>. QED  BY <1>1, <1>2, <1>3, <1>4, <1>5, <1>6, <1>7, <1>8 DEF Next

(***************************************************************************)
(* A header before startHeader in the list is one of the first k - 1.      *)
(***************************************************************************)
LEMMA FetchingMeansFetched == HeaderInv => HeadersFetched
<1>. SUFFICES ASSUME HeaderInv, headersFirstMode, failures = 0,
                     NEW i \in 1..Len(headerList),
                     \A j \in 1..i : headerList[j] # startHeader
              PROVE  HaveBlock(headerList[i]) \/ headerList[i] \in peerBlocks[syncPeer]
  BY DEF HeadersFetched
<1>1. PICK k \in 1..(Len(headerList) + 1) :
          /\ startHeader = IF k <= Len(headerList) THEN headerList[k] ELSE None
          /\ \A j \in 1..(k - 1) : headerList[j] \in (known \cup orphans) \cup peerBlocks[syncPeer]
  BY DEF HeaderInv, Fetching, Downloads
<1>2. Len(headerList) \in Nat
  BY DEF HeaderInv, ListInv
<1>3. ~(k <= i)
  <2>1. SUFFICES ASSUME k <= i PROVE FALSE
    OBVIOUS
  <2>2. k \in 1..i /\ k <= Len(headerList)
    BY <1>2, <2>1
  <2>. QED  BY <1>1, <2>2
<1>4. i \in 1..(k - 1)
  BY <1>2, <1>3
<1>. QED  BY <1>1, <1>4 DEF HaveBlock

(***************************************************************************)
(* The first k - 1 headers are before startHeader: the list holds no       *)
(* header twice.                                                           *)
(***************************************************************************)
LEMMA FetchingMeansListed == HeaderInv => OwedIsListed
<1>. SUFFICES ASSUME HeaderInv, headersFirstMode, NEW p \in Peers, NEW b \in peerBlocks[p]
              PROVE  /\ p = syncPeer
                     /\ \E i \in 1..Len(headerList) :
                           b = headerList[i] /\ \A j \in 1..i : headerList[j] # startHeader
  BY DEF OwedIsListed
<1>1. p = syncPeer
  BY DEF HeaderInv, Fetching
<1>2. PICK k \in 1..(Len(headerList) + 1) :
          /\ startHeader = IF k <= Len(headerList) THEN headerList[k] ELSE None
          /\ peerBlocks[syncPeer] \subseteq {headerList[i] : i \in 1..(k - 1)}
  BY DEF HeaderInv, Fetching, Downloads
<1>3. headerList \in Seq(Blocks) /\ Len(headerList) \in Nat /\ Linked(headerList)
  BY DEF HeaderInv, ListInv
<1>4. PICK i \in 1..(k - 1) : b = headerList[i]
  BY <1>1, <1>2
<1>5. i \in 1..Len(headerList)
  BY <1>3, <1>4
<1>6. ASSUME NEW j \in 1..i PROVE headerList[j] # startHeader
  <2>1. j \in 1..Len(headerList) /\ j < k /\ headerList[j] \in Blocks
    BY <1>3, <1>4, <1>5
  <2>2. CASE k <= Len(headerList)
    <3>1. startHeader = headerList[k] /\ k \in 1..Len(headerList) /\ j # k
      BY <1>2, <1>3, <2>1, <2>2
    <3>. QED  BY <1>3, <2>1, <3>1, LinkedDistinct
  <2>3. CASE ~(k <= Len(headerList))
    BY <1>2, <2>1, <2>3, SyncAssumption
  <2>. QED  BY <2>2, <2>3
<1>. QED  BY <1>1, <1>4, <1>5, <1>6

LEMMA HeaderInvHolds == ASSUME CheckpointsPassed PROVE Spec => [](Inv /\ HeaderInv)
<1>1. Init => Inv /\ HeaderInv
  BY InitInv, HeaderInvInit
<1>2. Inv /\ HeaderInv /\ [Next]_vars => (Inv /\ HeaderInv)'
  <2>1. SUFFICES ASSUME Inv, HeaderInv, [Next]_vars PROVE (Inv /\ HeaderInv)'
    OBVIOUS
  <2>2. Inv'
    BY <2>1, StepInv
  <2>3. HeaderInv'
    BY <2>1, <2>2, HeaderInvStep
  <2>. QED  BY <2>2, <2>3
<1>. QED  BY <1>1, <1>2, PTL DEF Spec

(***************************************************************************)
(* If every branch passes the checkpoints, in headers-first mode nobody    *)
(* but the sync peer owes a block, and what it owes are headers of the     *)
(* list before startHeader, whatever the peers send, whichever of them     *)
(* leave, wherever the chain's work and a failing database leave its tip,  *)
(* and whichever blocks the miner submits.  Without the hypothesis it is   *)
(* false of the code: the chain may leave a checkpoint it has passed, and  *)
(* headers-first mode begins again while blocks of inventories are owed.   *)
(***************************************************************************)
THEOREM SyncOwedIsListed == CheckpointsPassed => (Spec => []OwedIsListed)
<1>. SUFFICES ASSUME CheckpointsPassed PROVE Spec => []OwedIsListed
  OBVIOUS
<1>1. Inv /\ HeaderInv => OwedIsListed
  BY FetchingMeansListed
<1>. QED  BY <1>1, HeaderInvHolds, PTL

(***************************************************************************)
(* If every branch passes the checkpoints, headers-first mode skips no     *)
(* block: every block of the header list before startHeader is there or    *)
(* owed by the sync peer, for every size of a getdata message, whatever    *)
(* headers the peers send, whichever peers come and go between the headers *)
(* and the blocks, and whichever blocks the miner submits meanwhile, until *)
(* the database fails.                                                     *)
(***************************************************************************)
THEOREM SyncHeadersFetched == CheckpointsPassed => (Spec => []HeadersFetched)
<1>. SUFFICES ASSUME CheckpointsPassed PROVE Spec => []HeadersFetched
  OBVIOUS
<1>1. Inv /\ HeaderInv => HeadersFetched
  BY FetchingMeansFetched
<1>. QED  BY <1>1, HeaderInvHolds, PTL
=============================================================================
