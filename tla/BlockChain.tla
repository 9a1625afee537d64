----------------------------- MODULE BlockChain -----------------------------
(***************************************************************************)
(* The block chain of a pod node (pkg/chain): ProcessBlock with its orphan *)
(* pool, the block index and its write-back to the database, best-chain    *)
(* selection, and reorganization.                                          *)
(*                                                                         *)
(* One goroutine (the sync manager's block handler) calls ProcessBlock, so *)
(* a call runs to its end before the next starts.  What interrupts it is a *)
(* crash of the process, or an error from the database.  An action is what *)
(* happens between two database transactions: each database.Update is      *)
(* atomic and durable, everything else is lost in a crash.                 *)
(***************************************************************************)
EXTENDS BlockTree

CONSTANTS
    Version,         \* Version[b]: the header's version, which names its algorithm
    HardForked,      \* blocks at or above the height of the plan 9 hard fork
    Sane,            \* blocks that pass checkBlockSanity
    ContextOK,       \* blocks that pass checkBlockContext
    Blacklisted,     \* blocks that pay to or spend from a blacklisted address
    MaxOrphanBlocks, \* maxOrphanBlocks
    DbResults,       \* outcomes of a database update: {TRUE} or BOOLEAN
    NoBlock          \* the nil pointer

VARIABLES
    \* The database, which survives a crash.
    dbBlocks,   \* raw blocks stored in ffldb
    dbIndex,    \* block index bucket: the status byte of each row, {} for no row
    dbTip,      \* hash of the stored best state
    dbMain,     \* blocks of the hash-to-height (and height-to-hash) buckets
    dbUtxo,     \* the utxo set
    dbJournal,  \* blocks with a spend journal entry
    \* The memory of the process.
    index,      \* blockIndex.index
    status,     \* BlockNode.status of every node
    dirty,      \* blockIndex.dirty
    workSum,    \* BlockNode.workSum, 0 for nil
    tip,        \* BestChain.Tip()
    orphans,    \* the orphan pool in the order of expiration
    oldestOrphan, \* oldestOrphan: the block it points to, or NoBlock
    \* The call of ProcessBlock that is running.
    pc,         \* where it is
    cur,        \* the block maybeAcceptBlock works on
    fastAdd,    \* flags & BFFastAdd
    detachNodes, attachNodes, \* the lists reorganizeChain has left to do
    isMainChain, \* what connectBestChain returned
    processHashes \* the work list of processOrphans

dbVars == <<dbBlocks, dbIndex, dbTip, dbMain, dbUtxo, dbJournal>>
nodeVars == <<index, status, dirty, workSum>>
orphanVars == <<orphans, oldestOrphan>>
callVars == <<cur, fastAdd, detachNodes, attachNodes, isMainChain, processHashes>>
vars == <<dbVars, nodeVars, tip, orphanVars, pc, callVars>>

ASSUME ChainAssumption ==
    /\ NoBlock \notin Blocks
    /\ MaxOrphanBlocks \in Nat \ {0}
    /\ DbResults \subseteq BOOLEAN
    /\ Genesis \notin Sane

-----------------------------------------------------------------------------
(***************************************************************************)
(* The block index (blockindex.go).                                        *)
(***************************************************************************)
StatusFlags == {"DataStored", "Valid", "ValidateFailed", "InvalidAncestor"}

KnownValid(st, b) == "Valid" \in st[b]

KnownInvalid(st, b) == {"ValidateFailed", "InvalidAncestor"} \cap st[b] # {}

(***************************************************************************)
(* SetStatusFlags on every node of a set.                                  *)
(***************************************************************************)
SetStatusFlags(st, nodes, flag) ==
    [b \in Blocks |-> IF b \in nodes THEN st[b] \cup {flag} ELSE st[b]]

(***************************************************************************)
(* initBlockNode: the new node's sum is its own work and its parent's, and *)
(* the parent's sum is set back to the parent's own work, which also makes *)
(* one for a genesis block loaded without it.  The fault takes the         *)
(* parent's sum as it is.                                                  *)
(***************************************************************************)
initBlockNodeSums(ws, b) == [ws EXCEPT ![b] = ws[Parent(b)] + Work[b]]

initBlockNode(ws, b) ==
    [ws EXCEPT ![Parent(b)] = Work[Parent(b)],
               ![b] = Work[Parent(b)] + Work[b]]

(***************************************************************************)
(* flushToDB with statuses st and dirty nodes di: all rows in one          *)
(* transaction; the dirty set is cleared only if that succeeded.  Nothing  *)
(* is written, and nothing can fail, when no node is dirty.  The two       *)
(* faults forget the failure, or write each row in its own transaction.    *)
(***************************************************************************)
flushForgets(st, di, ok) ==
    /\ di = {} => ok
    /\ dbIndex' = IF ok THEN [b \in Blocks |-> IF b \in di THEN st[b] ELSE dbIndex[b]]
                        ELSE dbIndex
    /\ dirty' = {}

flushRowByRow(st, di, ok) ==
    \E written \in SUBSET di :
        /\ ok <=> written = di
        /\ dbIndex' = [b \in Blocks |-> IF b \in written THEN st[b] ELSE dbIndex[b]]
        /\ dirty' = di \ written

flushToDB(st, di, ok) ==
    /\ di = {} => ok
    /\ dbIndex' = IF ok THEN [b \in Blocks |-> IF b \in di THEN st[b] ELSE dbIndex[b]]
                        ELSE dbIndex
    /\ dirty' = IF ok THEN {} ELSE di

(***************************************************************************)
(* The rows of the block index bucket.                                     *)
(***************************************************************************)
Rows == {b \in Blocks : dbIndex[b] # {}}

-----------------------------------------------------------------------------
(***************************************************************************)
(* The orphan pool (chain.go).  prevOrphans[p] holds the orphans whose     *)
(* parent is p, in the order of the pool.                                  *)
(***************************************************************************)
InPool(pool, b) == \E i \in 1..Len(pool) : pool[i] = b

removeOrphanBlock(pool, b) ==
    IF InPool(pool, b)
    THEN LET k == CHOOSE i \in 1..Len(pool) : pool[i] = b
         IN  [i \in 1..(Len(pool) - 1) |-> IF i < k THEN pool[i] ELSE pool[i + 1]]
    ELSE pool

(***************************************************************************)
(* addOrphanBlock once the first `expired' orphans have expired.  The loop *)
(* takes the oldest orphan left only when oldestOrphan is nil, because an  *)
(* orphan it points to expires before all that came later, even one that   *)
(* has left the pool since.  The fault makes room one block too late.      *)
(***************************************************************************)
addOrphanLate(b, expired) ==
    LET live   == SubSeq(orphans, expired + 1, Len(orphans))
        oldest == IF oldestOrphan = NoBlock /\ live # <<>> THEN live[1] ELSE oldestOrphan
        full   == Len(live) > MaxOrphanBlocks
    IN  /\ orphans' = Append(IF full THEN removeOrphanBlock(live, oldest) ELSE live, b)
        /\ oldestOrphan' = IF full THEN NoBlock ELSE oldest

addOrphanBlock(b, expired) ==
    LET live   == SubSeq(orphans, expired + 1, Len(orphans))
        oldest == IF oldestOrphan = NoBlock /\ live # <<>> THEN live[1] ELSE oldestOrphan
        full   == Len(live) + 1 > MaxOrphanBlocks
    IN  /\ orphans' = Append(IF full THEN removeOrphanBlock(live, oldest) ELSE live, b)
        /\ oldestOrphan' = IF full THEN NoBlock ELSE oldest

-----------------------------------------------------------------------------
(***************************************************************************)
(* createChainState: the database and the memory of a new node.            *)
(***************************************************************************)
Init ==
    /\ dbBlocks = {Genesis}
    /\ dbIndex = [b \in Blocks |-> IF b = Genesis THEN {"DataStored", "Valid"} ELSE {}]
    /\ dbTip = Genesis
    /\ dbMain = {Genesis}
    /\ dbUtxo = {}
    /\ dbJournal = {}
    /\ index = {Genesis}
    /\ status = dbIndex
    /\ dirty = {}
    /\ workSum = [b \in Blocks |-> IF b = Genesis THEN Work[b] ELSE 0]
    /\ tip = Genesis
    /\ orphans = <<>>
    /\ oldestOrphan = NoBlock
    /\ pc = "idle"
    /\ cur = NoBlock
    /\ fastAdd = FALSE
    /\ detachNodes = <<>>
    /\ attachNodes = <<>>
    /\ isMainChain = FALSE
    /\ processHashes = <<>>

(***************************************************************************)
(* ProcessBlock returns, with or without an error.                         *)
(***************************************************************************)
Return ==
    /\ pc' = "idle"
    /\ cur' = NoBlock
    /\ fastAdd' = FALSE
    /\ detachNodes' = <<>>
    /\ attachNodes' = <<>>
    /\ isMainChain' = FALSE
    /\ processHashes' = <<>>

(***************************************************************************)
(* connectBestChain returns to maybeAcceptBlock without an error.          *)
(***************************************************************************)
Connected(main) ==
    /\ pc' = "accepted"
    /\ isMainChain' = main
    /\ detachNodes' = <<>>
    /\ attachNodes' = <<>>
    /\ UNCHANGED <<cur, fastAdd, processHashes>>

(***************************************************************************)
(* ProcessBlock up to the call of maybeAcceptBlock.  A duplicate, and a    *)
(* block that is not sane, is refused and changes nothing.                 *)
(***************************************************************************)
ProcessBlock(b, fast) ==
    /\ pc = "idle"
    /\ b \notin index
    /\ ~InPool(orphans, b)
    /\ b \in Sane
    /\ Parent(b) \in index
    /\ pc' = "accept"
    /\ cur' = b
    /\ fastAdd' = fast
    /\ UNCHANGED <<dbVars, nodeVars, tip, orphanVars, detachNodes, attachNodes,
                   isMainChain, processHashes>>

(***************************************************************************)
(* ProcessBlock for a block whose parent is not known.                     *)
(***************************************************************************)
ProcessOrphanBlock(b, expired) ==
    /\ pc = "idle"
    /\ b \notin index
    /\ ~InPool(orphans, b)
    /\ b \in Sane
    /\ Parent(b) \notin index
    /\ addOrphanBlock(b, expired)
    /\ UNCHANGED <<dbVars, nodeVars, tip, pc, callVars>>

-----------------------------------------------------------------------------
(***************************************************************************)
(* maybeAcceptBlock knows two algorithms, scrypt (514) and all others (2). *)
(***************************************************************************)
AlgoOf(b) == IF Version[b] = 514 THEN 514 ELSE 2

(***************************************************************************)
(* GetLastWithAlgo finds a block of algorithm a at n or below it.  Before  *)
(* the hard fork every version but 514 counts as 2.                        *)
(***************************************************************************)
GetLastWithAlgo(n, a) ==
    \E c \in OnChain(n) : a = IF c \in HardForked THEN Version[c] ELSE AlgoOf(c)

(***************************************************************************)
(* maybeAcceptBlock runs checkBlockContext only on a block whose algorithm *)
(* differs from its parent's and occurs among its ancestors.               *)
(***************************************************************************)
ContextChecked(b) ==
    /\ AlgoOf(b) # AlgoOf(Parent(b))
    /\ GetLastWithAlgo(Parent(b), AlgoOf(b))

AcceptError(b) ==
    \/ KnownInvalid(status, Parent(b))
    \/ b \in Blacklisted
    \/ ContextChecked(b) /\ b \notin ContextOK

RejectBlock ==
    /\ pc = "accept"
    /\ AcceptError(cur)
    /\ Return
    /\ UNCHANGED <<dbVars, nodeVars, tip, orphanVars>>

(***************************************************************************)
(* dbStoreBlock, the first transaction of maybeAcceptBlock.                *)
(***************************************************************************)
StoreBlock(ok) ==
    /\ pc = "accept"
    /\ ~AcceptError(cur)
    /\ \/ /\ ok
          /\ dbBlocks' = dbBlocks \cup {cur}
          /\ pc' = "addnode"
          /\ UNCHANGED callVars
       \/ /\ ~ok
          /\ Return
          /\ UNCHANGED dbBlocks
    /\ UNCHANGED <<dbIndex, dbTip, dbMain, dbUtxo, dbJournal, nodeVars, tip, orphanVars>>

(***************************************************************************)
(* NewBlockNode, AddNode and flushToDB.  When the flush fails the node     *)
(* stays in the index, dirty, and the block is not connected.              *)
(***************************************************************************)
AddNode(ok) ==
    /\ pc = "addnode"
    /\ index' = index \cup {cur}
    /\ status' = [status EXCEPT ![cur] = {"DataStored"}]
    /\ workSum' = initBlockNode(workSum, cur)
    /\ flushToDB(status', dirty \cup {cur}, ok)
    /\ IF ok THEN pc' = "connect" /\ UNCHANGED callVars ELSE Return
    /\ UNCHANGED <<dbBlocks, dbTip, dbMain, dbUtxo, dbJournal, tip, orphanVars>>

-----------------------------------------------------------------------------
(***************************************************************************)
(* connectBestChain when the block extends the main chain, up to the call  *)
(* of connectBlock.  A full check sets a status and flushes it, ignoring a *)
(* failed write; a fast add only needs the block's inputs to be there.     *)
(***************************************************************************)
CheckExtend(ok) ==
    /\ pc = "connect"
    /\ Parent(cur) = tip
    /\ ~fastAdd
    /\ LET valid == checkConnectBlock(cur, dbUtxo)
           flag  == IF valid THEN "Valid" ELSE "ValidateFailed"
       IN  /\ status' = SetStatusFlags(status, {cur}, flag)
           /\ flushToDB(status', dirty \cup {cur}, ok)
           /\ IF valid THEN pc' = "extend" /\ UNCHANGED callVars ELSE Return
    /\ UNCHANGED <<dbBlocks, dbTip, dbMain, dbUtxo, dbJournal, index, workSum, tip,
                   orphanVars>>

FastExtend ==
    /\ pc = "connect"
    /\ Parent(cur) = tip
    /\ fastAdd
    /\ IF Spends[cur] \subseteq dbUtxo THEN pc' = "extend" /\ UNCHANGED callVars ELSE Return
    /\ UNCHANGED <<dbVars, nodeVars, tip, orphanVars>>

(***************************************************************************)
(* The single transaction of connectBlock, then the tip and the snapshot   *)
(* in memory.                                                              *)
(***************************************************************************)
ConnectTx(b) ==
    /\ dbTip' = b
    /\ dbMain' = dbMain \cup {b}
    /\ dbUtxo' = (dbUtxo \ Spends[b]) \cup Creates[b]
    /\ dbJournal' = dbJournal \cup {b}
    /\ tip' = b

(***************************************************************************)
(* The single transaction of disconnectBlock, then the tip in memory.  The *)
(* fault restores what the block spent but keeps what it created.          *)
(***************************************************************************)
DisconnectKeepsOutputs(b) ==
    /\ dbTip' = Parent(b)
    /\ dbMain' = dbMain \ {b}
    /\ dbUtxo' = dbUtxo \cup Spends[b]
    /\ dbJournal' = dbJournal \ {b}
    /\ tip' = Parent(b)

DisconnectTx(b) ==
    /\ dbTip' = Parent(b)
    /\ dbMain' = dbMain \ {b}
    /\ dbUtxo' = (dbUtxo \ Creates[b]) \cup Spends[b]
    /\ dbJournal' = dbJournal \ {b}
    /\ tip' = Parent(b)

(***************************************************************************)
(* connectBlock and disconnectBlock first write the dirty nodes.  A failed *)
(* write ends the call; connectBestChain tries it once more and ignores    *)
(* the outcome.                                                            *)
(***************************************************************************)
FlushBeforeUpdate(ok, again) ==
    /\ \/ pc = "extend"
       \/ pc = "reorg" /\ (detachNodes # <<>> \/ attachNodes # <<>>)
    /\ dirty # {}
    /\ \/ /\ ok
          /\ flushToDB(status, dirty, TRUE)
          /\ UNCHANGED <<pc, callVars>>
       \/ /\ ~ok
          /\ flushToDB(status, dirty, again)
          /\ Return
    /\ UNCHANGED <<dbBlocks, dbTip, dbMain, dbUtxo, dbJournal, index, status, workSum, tip,
                   orphanVars>>

(***************************************************************************)
(* connectBlock for the block that extends the main chain.                 *)
(***************************************************************************)
ExtendChain(ok) ==
    /\ pc = "extend"
    /\ dirty = {}
    /\ \/ /\ ok
          /\ ConnectTx(cur)
          /\ pc' = "extended"
          /\ UNCHANGED callVars
       \/ /\ ~ok
          /\ Return
          /\ UNCHANGED <<dbTip, dbMain, dbUtxo, dbJournal, tip>>
    /\ UNCHANGED <<dbBlocks, dbIndex, nodeVars, orphanVars>>

(***************************************************************************)
(* A fast-added block is marked valid after it has been connected.         *)
(***************************************************************************)
MarkExtended(ok) ==
    /\ pc = "extended"
    /\ IF fastAdd \/ ~KnownValid(status, cur)
       THEN /\ status' = SetStatusFlags(status, {cur}, "Valid")
            /\ flushToDB(status', dirty \cup {cur}, ok)
       ELSE /\ ok
            /\ UNCHANGED <<status, dirty, dbIndex>>
    /\ Connected(TRUE)
    /\ UNCHANGED <<dbBlocks, dbTip, dbMain, dbUtxo, dbJournal, index, workSum, tip,
                   orphanVars>>

-----------------------------------------------------------------------------
(***************************************************************************)
(* connectBestChain when the block does not extend the main chain: its own *)
(* work, not that of its chain, is compared with the tip's sum.            *)
(***************************************************************************)
OutweighsTip(b) == Work[b] > workSum[tip]

SideChain ==
    /\ pc = "connect"
    /\ Parent(cur) # tip
    /\ ~OutweighsTip(cur)
    /\ workSum' = [workSum EXCEPT ![cur] = Work[cur]]
    /\ Connected(FALSE)
    /\ UNCHANGED <<dbVars, index, status, dirty, tip, orphanVars>>

(***************************************************************************)
(* getReorganizeNodes: the nodes to attach above the fork point, and the   *)
(* nodes to detach from the tip down to it.                                *)
(***************************************************************************)
AttachNodes(n) ==
    LET k == FindFork(tip, n)
    IN  [i \in 1..(Len(Path[n]) - k) |-> Path[n][k + i]]

(***************************************************************************)
(* The fault lists the old branch from the fork point up.                  *)
(***************************************************************************)
DetachFromFork(n) ==
    LET k == FindFork(tip, n)
    IN  [i \in 1..(Len(Path[tip]) - k) |-> Path[tip][k + i]]

DetachNodes(n) ==
    LET k == FindFork(tip, n)
        l == Len(Path[tip])
    IN  [i \in 1..(l - k) |-> Path[tip][l + 1 - i]]

(***************************************************************************)
(* The nodes getReorganizeNodes marks when the branch has a known invalid  *)
(* block: those above the highest such block.  The fault marks the whole   *)
(* branch.                                                                 *)
(***************************************************************************)
InvalidWholeBranch(n) ==
    LET a == AttachNodes(n)
    IN  {a[i] : i \in {j \in 1..Len(a) : \E m \in 1..Len(a) : KnownInvalid(status, a[m])}}

InvalidBranch(n) ==
    LET a == AttachNodes(n)
    IN  {a[i] : i \in {j \in 1..Len(a) :
            /\ \E m \in 1..(j - 1) : KnownInvalid(status, a[m])
            /\ \A m \in j..Len(a) : ~KnownInvalid(status, a[m])}}

(***************************************************************************)
(* getReorganizeNodes returned empty lists: reorganizeChain has nothing to *)
(* do and reports success.                                                 *)
(***************************************************************************)
ReorgInvalidBranch(ok) ==
    /\ pc = "connect"
    /\ Parent(cur) # tip
    /\ OutweighsTip(cur)
    /\ InvalidBranch(cur) # {}
    /\ workSum' = [workSum EXCEPT ![cur] = Work[cur]]
    /\ status' = SetStatusFlags(status, InvalidBranch(cur), "InvalidAncestor")
    /\ flushToDB(status', dirty \cup InvalidBranch(cur), ok)
    /\ Connected(TRUE)
    /\ UNCHANGED <<dbBlocks, dbTip, dbMain, dbUtxo, dbJournal, index, tip, orphanVars>>

(***************************************************************************)
(* The scratch view of reorganizeChain before the i-th block to attach:    *)
(* the detached blocks undone, the attached ones before it applied.        *)
(***************************************************************************)
Nodes(list, n) == {list[j] : j \in 1..n}

ReorgView(detach, attach, i) ==
    LET undone == (dbUtxo \cup AllSpends(Nodes(detach, Len(detach))))
                      \ AllCreates(Nodes(detach, Len(detach)))
    IN  (undone \cup AllCreates(Nodes(attach, i - 1))) \ AllSpends(Nodes(attach, i - 1))

(***************************************************************************)
(* The outputs that view has an entry for, spent or not.                   *)
(***************************************************************************)
ReorgEntries(detach, attach, i) ==
    dbUtxo \cup AllSpends(Nodes(detach, Len(detach)))
           \cup AllCreates(Nodes(detach, Len(detach)))
           \cup AllCreates(Nodes(attach, i - 1))

(***************************************************************************)
(* The check phase stops at the i-th block to attach.  A block known to be *)
(* valid is not checked again, but connectTransactions needs an entry for  *)
(* each of its inputs.                                                     *)
(***************************************************************************)
AttachFails(detach, attach, i) ==
    IF KnownValid(status, attach[i])
    THEN ~(Spends[attach[i]] \subseteq ReorgEntries(detach, attach, i))
    ELSE ~checkConnectBlock(attach[i], ReorgView(detach, attach, i))

(***************************************************************************)
(* connectBestChain when the block outweighs the tip and its branch has no *)
(* known invalid block: getReorganizeNodes and the check phase of          *)
(* reorganizeChain.                                                        *)
(***************************************************************************)
BeginReorg ==
    /\ pc = "connect"
    /\ Parent(cur) # tip
    /\ OutweighsTip(cur)
    /\ InvalidBranch(cur) = {}
    /\ workSum' = [workSum EXCEPT ![cur] = Work[cur]]

ReorgChecked ==
    LET a == AttachNodes(cur)
        d == DetachNodes(cur)
        checked == {a[i] : i \in {j \in 1..Len(a) : ~KnownValid(status, a[j])}}
    IN  /\ BeginReorg
        /\ \A i \in 1..Len(a) : ~AttachFails(d, a, i)
        /\ status' = SetStatusFlags(status, checked, "Valid")
        /\ dirty' = dirty \cup checked
        /\ pc' = "reorg"
        /\ attachNodes' = a
        /\ detachNodes' = d
        /\ UNCHANGED <<dbVars, index, tip, orphanVars, cur, fastAdd, isMainChain,
                       processHashes>>

(***************************************************************************)
(* The check phase failed: the blocks before the bad one have been marked  *)
(* valid, the bad one and those after it invalid (unless the failure was   *)
(* not a rule violation); the index is flushed and the error returned.     *)
(***************************************************************************)
ReorgRefused(ok) ==
    LET a == AttachNodes(cur)
        d == DetachNodes(cur)
    IN  /\ BeginReorg
        /\ \E i \in 1..Len(a) :
              /\ AttachFails(d, a, i)
              /\ \A j \in 1..(i - 1) : ~AttachFails(d, a, j)
              /\ LET passed == {a[k] : k \in {j \in 1..(i - 1) : ~KnownValid(status, a[j])}}
                     failed == IF KnownValid(status, a[i]) THEN {} ELSE {a[i]}
                     after  == IF failed = {} THEN {} ELSE {a[k] : k \in (i + 1)..Len(a)}
                 IN  /\ status' = SetStatusFlags(
                                    SetStatusFlags(
                                      SetStatusFlags(status, passed, "Valid"),
                                    failed, "ValidateFailed"),
                                  after, "InvalidAncestor")
                     /\ flushToDB(status', dirty \cup passed \cup failed \cup after, ok)
        /\ Return
        /\ UNCHANGED <<dbBlocks, dbTip, dbMain, dbUtxo, dbJournal, index, tip, orphanVars>>

(***************************************************************************)
(* reorganizeChain disconnects the next block of the old branch.           *)
(***************************************************************************)
ReorgDetach(ok) ==
    /\ pc = "reorg"
    /\ dirty = {}
    /\ detachNodes # <<>>
    /\ \/ /\ ok
          /\ DisconnectTx(Head(detachNodes))
          /\ detachNodes' = Tail(detachNodes)
          /\ UNCHANGED <<pc, cur, fastAdd, attachNodes, isMainChain, processHashes>>
       \/ /\ ~ok
          /\ Return
          /\ UNCHANGED <<dbTip, dbMain, dbUtxo, dbJournal, tip>>
    /\ UNCHANGED <<dbBlocks, dbIndex, nodeVars, orphanVars>>

(***************************************************************************)
(* ... then connects the next block of the new one.                        *)
(***************************************************************************)
ReorgAttach(ok) ==
    /\ pc = "reorg"
    /\ dirty = {}
    /\ detachNodes = <<>>
    /\ attachNodes # <<>>
    /\ \/ /\ ok
          /\ ConnectTx(Head(attachNodes))
          /\ attachNodes' = Tail(attachNodes)
          /\ UNCHANGED <<pc, cur, fastAdd, detachNodes, isMainChain, processHashes>>
       \/ /\ ~ok
          /\ Return
          /\ UNCHANGED <<dbTip, dbMain, dbUtxo, dbJournal, tip>>
    /\ UNCHANGED <<dbBlocks, dbIndex, nodeVars, orphanVars>>

(***************************************************************************)
(* connectBestChain flushes once more after a reorganize.  The fault stops *)
(* after the old branch is gone.                                           *)
(***************************************************************************)
ReorgStopsEarly(ok) ==
    /\ pc = "reorg"
    /\ detachNodes = <<>>
    /\ flushToDB(status, dirty, ok)
    /\ Connected(TRUE)
    /\ UNCHANGED <<dbBlocks, dbTip, dbMain, dbUtxo, dbJournal, index, status, workSum, tip,
                   orphanVars>>

ReorgDone(ok) ==
    /\ pc = "reorg"
    /\ detachNodes = <<>>
    /\ attachNodes = <<>>
    /\ flushToDB(status, dirty, ok)
    /\ Connected(TRUE)
    /\ UNCHANGED <<dbBlocks, dbTip, dbMain, dbUtxo, dbJournal, index, status, workSum, tip,
                   orphanVars>>

-----------------------------------------------------------------------------
(***************************************************************************)
(* maybeAcceptBlock returns to ProcessBlock or to processOrphans, which    *)
(* both put the block on the list of hashes whose orphans to look for.     *)
(***************************************************************************)
BlockAccepted ==
    /\ pc = "accepted"
    /\ processHashes' = Append(processHashes, cur)
    /\ pc' = "orphans"
    /\ cur' = NoBlock
    /\ isMainChain' = FALSE
    /\ UNCHANGED <<dbVars, nodeVars, tip, orphanVars, fastAdd, detachNodes, attachNodes>>

(***************************************************************************)
(* processOrphans takes the first orphan of the hash at hand.              *)
(***************************************************************************)
AcceptOrphan ==
    /\ pc = "orphans"
    /\ processHashes # <<>>
    /\ \E i \in 1..Len(orphans) :
          /\ Parent(orphans[i]) = Head(processHashes)
          /\ \A j \in 1..(i - 1) : Parent(orphans[j]) # Head(processHashes)
          /\ orphans' = removeOrphanBlock(orphans, orphans[i])
          /\ cur' = orphans[i]
    /\ pc' = "accept"
    /\ UNCHANGED <<dbVars, nodeVars, tip, oldestOrphan, fastAdd, detachNodes, attachNodes,
                   isMainChain, processHashes>>

(***************************************************************************)
(* ... or goes on to the next hash, and returns after the last.  The fault *)
(* does not take the hash off the list.                                    *)
(***************************************************************************)
HashNotTaken ==
    /\ pc = "orphans"
    /\ processHashes # <<>>
    /\ \A i \in 1..Len(orphans) : Parent(orphans[i]) # Head(processHashes)
    /\ UNCHANGED vars

NextHash ==
    /\ pc = "orphans"
    /\ processHashes # <<>>
    /\ \A i \in 1..Len(orphans) : Parent(orphans[i]) # Head(processHashes)
    /\ IF Len(processHashes) = 1
       THEN Return
       ELSE /\ processHashes' = Tail(processHashes)
            /\ UNCHANGED <<pc, cur, fastAdd, detachNodes, attachNodes, isMainChain>>
    /\ UNCHANGED <<dbVars, nodeVars, tip, orphanVars>>

-----------------------------------------------------------------------------
(***************************************************************************)
(* CheckConnectBlockTemplate, which NewBlockTemplate calls from the        *)
(* miner's goroutines.  It has chainLock, which ProcessBlock gives up only *)
(* while notifications are sent: after a block was connected or            *)
(* disconnected, and after one was accepted.  The node it makes for the    *)
(* template has the tip as its parent, and leaves the tip's sum set back.  *)
(***************************************************************************)
CheckConnectBlockTemplate ==
    /\ pc \in {"idle", "extended", "reorg", "accepted"}
    /\ workSum' = [workSum EXCEPT ![tip] = Work[tip]]
    /\ UNCHANGED <<dbVars, index, status, dirty, tip, orphanVars, pc, callVars>>

-----------------------------------------------------------------------------
(***************************************************************************)
(* What initChainState needs to find in the database: every row but the    *)
(* first after its parent's, the row of the best block, and its bytes.     *)
(***************************************************************************)
Loadable ==
    /\ Genesis \in Rows
    /\ \A b \in Rows \ {Genesis} : Parent(b) \in Rows
    /\ dbTip \in Rows
    /\ dbTip \in dbBlocks

(***************************************************************************)
(* The process dies at any point and is started again.  initChainState     *)
(* rebuilds the memory from the database, marks the ancestors of the best  *)
(* block valid and flushes what that changed (a start whose flush fails is  *)
(* given up, which is one more crash).                                     *)
(***************************************************************************)
CrashAndRestart ==
    /\ Loadable
    /\ index' = Rows
    /\ LET upgraded == {b \in OnChain(dbTip) : ~KnownValid(dbIndex, b)}
       IN  /\ status' = SetStatusFlags(dbIndex, upgraded, "Valid")
           /\ flushToDB(status', upgraded, TRUE)
    /\ workSum' = [b \in Blocks |->
                     IF \E c \in Rows \ {Genesis} : Parent(c) = b THEN Work[b]
                     ELSE IF b \in Rows \ {Genesis} THEN Work[Parent(b)] + Work[b]
                     ELSE 0]
    /\ tip' = dbTip
    /\ orphans' = <<>>
    /\ oldestOrphan' = NoBlock
    /\ Return
    /\ UNCHANGED <<dbBlocks, dbTip, dbMain, dbUtxo, dbJournal>>

-----------------------------------------------------------------------------
(***************************************************************************)
(* The steps of a call that is running.                                    *)
(***************************************************************************)
Step ==
    \/ RejectBlock
    \/ FastExtend
    \/ SideChain
    \/ ReorgChecked
    \/ BlockAccepted
    \/ AcceptOrphan
    \/ NextHash
    \/ \E ok \in DbResults :
          \/ StoreBlock(ok)
          \/ AddNode(ok)
          \/ CheckExtend(ok)
          \/ \E again \in DbResults : FlushBeforeUpdate(ok, again)
          \/ ExtendChain(ok)
          \/ MarkExtended(ok)
          \/ ReorgInvalidBranch(ok)
          \/ ReorgRefused(ok)
          \/ ReorgDetach(ok)
          \/ ReorgAttach(ok)
          \/ ReorgDone(ok)

Deliver ==
    \E b \in Blocks :
        \/ \E fast \in BOOLEAN : (fast => b \in FastBlocks) /\ ProcessBlock(b, fast)
        \/ \E expired \in 0..Len(orphans) : ProcessOrphanBlock(b, expired)

Next ==
    \/ Deliver
    \/ CheckConnectBlockTemplate
    \/ Step
    \/ CrashAndRestart

Spec == Init /\ [][Next]_vars

(***************************************************************************)
(* A run of the process without crashes.  The goroutine that calls         *)
(* ProcessBlock is never blocked inside it, so a call that has started     *)
(* takes its next step.                                                    *)
(***************************************************************************)
RunSpec == Init /\ [][Deliver \/ CheckConnectBlockTemplate \/ Step]_vars /\ WF_vars(Step)

-----------------------------------------------------------------------------
(***************************************************************************)
(* The type invariant; no block is at hand between two calls of            *)
(* maybeAcceptBlock, and only the genesis block of an index that holds     *)
(* nothing else may have a nil work sum (initChainState gives it none), so *)
(* that connectBestChain never compares with nil.                          *)
(***************************************************************************)
DbTypeOK ==
    /\ dbBlocks \subseteq Blocks
    /\ dbIndex \in [Blocks -> SUBSET StatusFlags]
    /\ dbTip \in Blocks
    /\ dbMain \subseteq Blocks
    /\ dbUtxo \subseteq Outs
    /\ dbJournal \subseteq Blocks

NodeTypeOK ==
    /\ index \subseteq Blocks
    /\ status \in [Blocks -> SUBSET StatusFlags]
    /\ dirty \subseteq Blocks
    /\ workSum \in [Blocks -> Nat]
    /\ index # {Genesis} => \A b \in index : workSum[b] # 0
    /\ tip \in Blocks

PoolTypeOK ==
    /\ orphans \in Seq(Blocks)
    /\ oldestOrphan \in Blocks \cup {NoBlock}

CallTypeOK ==
    /\ pc \in {"idle", "accept", "addnode", "connect", "extend", "extended", "reorg",
               "accepted", "orphans"}
    /\ cur \in Blocks \cup {NoBlock}
    /\ cur = NoBlock <=> pc \in {"idle", "orphans"}
    /\ fastAdd \in BOOLEAN
    /\ detachNodes \in Seq(Blocks)
    /\ attachNodes \in Seq(Blocks)
    /\ isMainChain \in BOOLEAN
    /\ processHashes \in Seq(Blocks)

TypeOK == DbTypeOK /\ NodeTypeOK /\ PoolTypeOK /\ CallTypeOK

(***************************************************************************)
(* Whenever the process dies, initChainState finds a database it can load: *)
(* the row of every block is preceded by its parent's, and the best block  *)
(* has its row and its bytes, although blocks, rows and the best state are *)
(* written by different transactions.                                      *)
(***************************************************************************)
CrashLoadable == Loadable

(***************************************************************************)
(* The best state, the main-chain index, the spend journal and the utxo    *)
(* set always describe one and the same chain, also between the single     *)
(* disconnects and connects of reorganizeChain, after a failed one, and    *)
(* after a crash in the middle.                                            *)
(***************************************************************************)
StoreDescribesOneChain ==
    /\ dbMain = OnChain(dbTip)
    /\ dbJournal = OnChain(dbTip) \ {Genesis}
    /\ dbUtxo = UtxoOf(dbTip)
    /\ dbMain \subseteq dbBlocks
    /\ tip = dbTip

(***************************************************************************)
(* The statuses the checks leave behind, and the rows that survive a       *)
(* crash, are right: a node marked valid heads a chain that obeys every    *)
(* rule (scripts below a fast-added block apart), so skipping its check in *)
(* a later reorganize is sound, and a node marked invalid heads one that   *)
(* breaks a rule, so it is rightly never connected.                        *)
(***************************************************************************)
MarksSound(st) ==
    \A b \in Blocks :
        /\ KnownValid(st, b) => ChainOK(b)
        /\ KnownInvalid(st, b) => ~StrictOK(b)

StatusSound == MarksSound(status) /\ MarksSound(dbIndex)

(***************************************************************************)
(* A change of a node's status that has not reached the database is always *)
(* remembered as dirty, whatever flush failed, so a later flush writes it. *)
(***************************************************************************)
UnsavedIsDirty ==
    /\ Rows \subseteq index
    /\ \A b \in index \ dirty : dbIndex[b] = status[b]

(***************************************************************************)
(* The orphan pool outgrows its limit by one block at most, although       *)
(* oldestOrphan may point to a block that has left the pool.               *)
(***************************************************************************)
OrphanPoolBounded == Len(orphans) <= MaxOrphanBlocks + 1

(***************************************************************************)
(* When connectBestChain reports that the block is on the main chain, the  *)
(* block is the tip, unless its branch was found to be invalid.            *)
(***************************************************************************)
AcceptedIsTip ==
    pc = "accepted" /\ isMainChain => tip = cur \/ KnownInvalid(status, cur)

(***************************************************************************)
(* Every call of ProcessBlock returns, however many orphans it takes in    *)
(* and however long a reorganize it causes.                                *)
(***************************************************************************)
ProcessBlockReturns == pc # "idle" ~> pc = "idle"

(***************************************************************************)
(* A reorganize that no database error interrupts ends on the block that   *)
(* caused it.                                                              *)
(***************************************************************************)
ReorgCompletes == \A b \in Blocks : pc = "reorg" /\ cur = b ~> tip = b

-----------------------------------------------------------------------------
(***************************************************************************)
(* The database refines the abstract best chain.                           *)
(***************************************************************************)
Store == INSTANCE BestChain WITH best <- dbTip, utxo <- dbUtxo

RefinesBestChain == Store!Spec

-----------------------------------------------------------------------------
(***************************************************************************)
(* A statement of the code's comments that the code does not keep.         *)
(***************************************************************************)

(***************************************************************************)
(* The total work of the chain that ends in b.                             *)
(***************************************************************************)
TotalWork(b) ==
    LET f[i \in 0..Len(Path[b])] == IF i = 0 THEN 0 ELSE f[i - 1] + Work[Path[b][i]]
    IN  f[Len(Path[b])]

(***************************************************************************)
(* chain.go:894-899: the chain with the most cumulative proof of work is   *)
(* the main chain.                                                         *)
(***************************************************************************)
MostWorkIsBest ==
    pc = "idle" => \A b \in index : ChainOK(b) => TotalWork(b) <= TotalWork(tip)
=============================================================================
