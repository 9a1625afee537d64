-------------------------- MODULE BlockChain_proofs --------------------------
(***************************************************************************)
(* The block chain's safety for every block tree: an inductive invariant   *)
(* of BlockChain, and the theorems that follow from it.                    *)
(***************************************************************************)
EXTENDS BlockChain, BlockTree_proofs

-----------------------------------------------------------------------------
(***************************************************************************)
(* The block index and its rows are closed under ancestors, every node has *)
(* its bytes, and what the database does not know yet is dirty.            *)
(***************************************************************************)
IndexInv ==
    /\ \A b \in index : OnChain(b) \subseteq index
    /\ \A b \in Rows : OnChain(b) \subseteq Rows
    /\ Genesis \in Rows
    /\ index \subseteq dbBlocks
    /\ dirty \subseteq index
    /\ \A b \in index : status[b] # {}
    /\ UnsavedIsDirty

(***************************************************************************)
(* The stored chain is one valid chain of indexed blocks.                  *)
(***************************************************************************)
StoreInv ==
    /\ StoreDescribesOneChain
    /\ dbTip \in Rows
    /\ ChainOK(dbTip)

(***************************************************************************)
(* d lists t's chain from its end down to position k, and a lists n's      *)
(* chain from position k up, where k is a position the chains share.       *)
(***************************************************************************)
ReorgLists(t, n, k, d, a) ==
    /\ k \in 1..Len(Path[t])
    /\ k \in 1..Len(Path[n])
    /\ Path[t][k] = Path[n][k]
    /\ Len(d) = Len(Path[t]) - k
    /\ \A i \in 1..Len(d) : d[i] = Path[t][Len(Path[t]) + 1 - i]
    /\ Len(a) = Len(Path[n]) - k
    /\ \A i \in 1..Len(a) : a[i] = Path[n][k + i]

(***************************************************************************)
(* What holds of the block at hand at each point of a call of              *)
(* ProcessBlock, and of the work list of processOrphans.                   *)
(***************************************************************************)
HandInv ==
    /\ pc \notin {"idle", "orphans"} =>
          /\ cur # Genesis
          /\ Parent(cur) \in index
          /\ fastAdd => Trusted(cur)
    /\ pc = "addnode" => cur \in dbBlocks
    /\ pc \in {"connect", "extend", "extended", "reorg", "accepted"} => cur \in index
    /\ pc = "extend" => Parent(cur) = tip /\ MayConnect(cur, UtxoOf(tip))
    /\ pc = "extended" => tip = cur
    /\ pc = "reorg" =>
          /\ ChainOK(cur)
          /\ \E k \in Nat : ReorgLists(tip, cur, k, detachNodes, attachNodes)

ListInv ==
    /\ pc = "idle" => processHashes = <<>>
    /\ \A i \in 1..Len(processHashes) :
          /\ processHashes[i] \in index
          /\ fastAdd => Trusted(processHashes[i])

CallInv ==
    /\ HandInv
    /\ ListInv
    /\ \A i \in 1..Len(orphans) : orphans[i] # Genesis

IInv == TypeOK /\ IndexInv /\ StoreInv /\ StatusSound /\ CallInv /\ AcceptedIsTip

-----------------------------------------------------------------------------
(***************************************************************************)
(* A new node (createChainState) satisfies the invariant.                  *)
(***************************************************************************)
LEMMA InitIInv == Init => IInv
<1> SUFFICES ASSUME Init PROVE IInv
  OBVIOUS
<1>1. Genesis \in Blocks /\ OnChain(Genesis) = {Genesis}
  BY PathAssumption, OnChainFacts
<1>2. TypeOK
  <2>1. Work[Genesis] \in Nat
    BY <1>1, WorkAssumption
  <2>2. dbIndex \in [Blocks -> SUBSET StatusFlags] /\ status = dbIndex
    BY DEF Init, StatusFlags
  <2>3. workSum \in [Blocks -> Nat] /\ index = {Genesis}
    BY <2>1 DEF Init
  <2>4. /\ dbBlocks \subseteq Blocks /\ dbTip \in Blocks /\ dbMain \subseteq Blocks
        /\ dbUtxo \subseteq Outs /\ dbJournal \subseteq Blocks /\ index \subseteq Blocks
        /\ dirty \subseteq Blocks /\ tip \in Blocks
    BY <1>1 DEF Init
  <2>5. /\ orphans \in Seq(Blocks) /\ detachNodes \in Seq(Blocks)
        /\ attachNodes \in Seq(Blocks) /\ processHashes \in Seq(Blocks)
    BY DEF Init
  <2>6. /\ oldestOrphan = NoBlock /\ pc = "idle" /\ cur = NoBlock
        /\ fastAdd = FALSE /\ isMainChain = FALSE
    BY DEF Init
  <2> QED
    BY <2>2, <2>3, <2>4, <2>5, <2>6
    DEF TypeOK, DbTypeOK, NodeTypeOK, PoolTypeOK, CallTypeOK
<1>3. Rows = {Genesis}
  BY <1>1 DEF Init, Rows
<1>4. IndexInv
  BY <1>1, <1>3 DEF Init, IndexInv, UnsavedIsDirty
<1>5. StoreInv
  BY <1>1, <1>3, UtxoGenesis, ChainOKGenesis DEF Init, StoreInv, StoreDescribesOneChain
<1>6. StatusSound
  BY <1>1, ChainOKGenesis DEF Init, StatusSound, MarksSound, KnownValid, KnownInvalid
<1>7. CallInv
  BY DEF Init, CallInv, HandInv, ListInv
<1>8. AcceptedIsTip
  BY DEF Init, AcceptedIsTip
<1> QED
  BY <1>2, <1>4, <1>5, <1>6, <1>7, <1>8 DEF IInv

-----------------------------------------------------------------------------
(***************************************************************************)
(* What the operators of the model return.                                 *)
(***************************************************************************)

(***************************************************************************)
(* SetStatusFlags adds its flag to the nodes of the set and leaves the     *)
(* others alone.                                                           *)
(***************************************************************************)
LEMMA SetStatusFlagsFacts ==
    ASSUME NEW st \in [Blocks -> SUBSET StatusFlags], NEW nodes, NEW flag \in StatusFlags
    PROVE  LET new == SetStatusFlags(st, nodes, flag) IN
           /\ new \in [Blocks -> SUBSET StatusFlags]
           /\ \A b \in Blocks :
                 /\ st[b] \subseteq new[b]
                 /\ b \in nodes => new[b] = st[b] \cup {flag}
                 /\ b \notin nodes => new[b] = st[b]
BY DEF SetStatusFlags

(***************************************************************************)
(* The nodes of di have all been written, or are all still dirty.          *)
(***************************************************************************)
Written(di) ==
    /\ dbIndex' \in [Blocks -> SUBSET StatusFlags]
    /\ \/ /\ dirty' = {}
          /\ \A b \in Blocks : dbIndex'[b] = IF b \in di THEN status'[b] ELSE dbIndex[b]
       \/ /\ dirty' = di
          /\ dbIndex' = dbIndex

(***************************************************************************)
(* flushToDB writes the rows of the dirty nodes and forgets them, or does  *)
(* neither.                                                                *)
(***************************************************************************)
LEMMA FlushFacts ==
    ASSUME NEW di, NEW ok \in BOOLEAN,
           status' \in [Blocks -> SUBSET StatusFlags],
           dbIndex \in [Blocks -> SUBSET StatusFlags],
           flushToDB(status', di, ok)
    PROVE  Written(di)
BY DEF flushToDB, Written

(***************************************************************************)
(* removeOrphanBlock takes its block out of the pool if it is there, and   *)
(* adds nothing.                                                           *)
(***************************************************************************)
LEMMA RemoveOrphanFacts ==
    ASSUME NEW S, NEW pool \in Seq(S), NEW b
    PROVE  LET new == removeOrphanBlock(pool, b) IN
           /\ new \in Seq(S)
           /\ \A i \in 1..Len(new) : \E j \in 1..Len(pool) : new[i] = pool[j]
           /\ Len(new) = IF InPool(pool, b) THEN Len(pool) - 1 ELSE Len(pool)
<1>1. CASE InPool(pool, b)
  <2> DEFINE k == CHOOSE i \in 1..Len(pool) : pool[i] = b
             new == [i \in 1..(Len(pool) - 1) |-> IF i < k THEN pool[i] ELSE pool[i + 1]]
  <2>1. k \in 1..Len(pool)
    BY <1>1 DEF InPool
  <2>2. removeOrphanBlock(pool, b) = new
    BY <1>1 DEF removeOrphanBlock
  <2> HIDE DEF k
  <2>3. Len(pool) - 1 \in Nat /\ Len(pool) \in Nat
    BY <2>1
  <2>4. \A i \in 1..(Len(pool) - 1) : \E j \in 1..Len(pool) : new[i] = pool[j]
    <3> TAKE i \in 1..(Len(pool) - 1)
    <3>1. i \in 1..Len(pool) /\ i + 1 \in 1..Len(pool)
      BY <2>3
    <3> QED
      BY <3>1
  <2>5. new \in Seq(S) /\ Len(new) = Len(pool) - 1
    <3>1. \A i \in 1..(Len(pool) - 1) : new[i] \in S
      BY <2>4
    <3>2. new \in [1..(Len(pool) - 1) -> S]
      BY <3>1
    <3> HIDE DEF new
    <3> QED
      BY <3>2, <2>3
  <2> QED
    BY <1>1, <2>2, <2>4, <2>5
<1>2. CASE ~InPool(pool, b)
  BY <1>2 DEF removeOrphanBlock
<1> QED
  BY <1>1, <1>2

(***************************************************************************)
(* addOrphanBlock leaves a pool of earlier orphans and the new one.        *)
(***************************************************************************)
LEMMA AddOrphanFacts ==
    ASSUME orphans \in Seq(Blocks), oldestOrphan \in Blocks \cup {NoBlock},
           NEW b \in Blocks, NEW expired \in 0..Len(orphans),
           addOrphanBlock(b, expired)
    PROVE  /\ orphans' \in Seq(Blocks)
           /\ oldestOrphan' \in Blocks \cup {NoBlock}
           /\ \A i \in 1..Len(orphans') :
                 orphans'[i] = b \/ \E j \in 1..Len(orphans) : orphans'[i] = orphans[j]
<1> DEFINE live   == SubSeq(orphans, expired + 1, Len(orphans))
           oldest == IF oldestOrphan = NoBlock /\ live # <<>> THEN live[1] ELSE oldestOrphan
           kept   == IF Len(live) + 1 > MaxOrphanBlocks THEN removeOrphanBlock(live, oldest)
                                                        ELSE live
<1>1. /\ live \in Seq(Blocks)
      /\ \A i \in 1..Len(live) : \E j \in 1..Len(orphans) : live[i] = orphans[j]
  <2>1. /\ live \in Seq(Blocks)
        /\ Len(live) = Len(orphans) - expired
        /\ \A i \in 1..Len(live) : live[i] = orphans[expired + i]
    OBVIOUS
  <2>2. \A i \in 1..(Len(orphans) - expired) : expired + i \in 1..Len(orphans)
    OBVIOUS
  <2> HIDE DEF live
  <2> QED
    BY <2>1, <2>2
<1>2. orphans' = Append(kept, b)
  BY DEF addOrphanBlock
<1>3. oldestOrphan' \in {oldest, NoBlock}
  BY DEF addOrphanBlock
<1> HIDE DEF live
<1>4. oldest \in Blocks \cup {NoBlock}
  BY <1>1
<1> HIDE DEF oldest
<1>5. kept \in Seq(Blocks) /\ \A i \in 1..Len(kept) : \E j \in 1..Len(live) : kept[i] = live[j]
  BY <1>1, RemoveOrphanFacts
<1> HIDE DEF kept
<1>6. /\ Append(kept, b) \in Seq(Blocks)
      /\ \A i \in 1..Len(Append(kept, b)) :
            Append(kept, b)[i] = b \/ \E j \in 1..Len(kept) : Append(kept, b)[i] = kept[j]
  BY <1>5
<1> QED
  BY <1>1, <1>2, <1>3, <1>4, <1>5, <1>6

(***************************************************************************)
(* getReorganizeNodes lists the branches above the fork point, if the      *)
(* block and the tip are blocks.                                           *)
(***************************************************************************)
LEMMA ReorgListsFacts ==
    ASSUME NEW n \in Blocks, tip \in Blocks
    PROVE  /\ AttachNodes(n) \in Seq(Blocks)
           /\ DetachNodes(n) \in Seq(Blocks)
           /\ FindFork(tip, n) \in Nat
           /\ ReorgLists(tip, n, FindFork(tip, n), DetachNodes(n), AttachNodes(n))
<1> DEFINE k == FindFork(tip, n)
           l == Len(Path[tip])
           m == Len(Path[n])
           a == [i \in 1..(m - k) |-> Path[n][k + i]]
           d == [i \in 1..(l - k) |-> Path[tip][l + 1 - i]]
<1>1. k \in 1..m /\ k \in 1..l /\ Path[tip][k] = Path[n][k] /\ l \in Nat /\ m \in Nat
  BY FindForkFacts, PathFacts
<1>2. AttachNodes(n) = a /\ DetachNodes(n) = d
  BY DEF AttachNodes, DetachNodes
<1>3. /\ \A i \in 1..m : Path[n][i] \in Blocks
      /\ \A i \in 1..l : Path[tip][i] \in Blocks
  BY PathFacts
<1> HIDE DEF k, l, m
<1>4. \A i \in 1..(m - k) : Path[n][k + i] \in Blocks
  <2>1. \A i \in 1..(m - k) : k + i \in 1..m
    BY <1>1
  <2> QED
    BY <2>1, <1>3
<1>5. \A i \in 1..(l - k) : Path[tip][l + 1 - i] \in Blocks
  <2>1. \A i \in 1..(l - k) : l + 1 - i \in 1..l
    BY <1>1
  <2> QED
    BY <2>1, <1>3
<1>6. a \in [1..(m - k) -> Blocks] /\ m - k \in Nat
  BY <1>1, <1>4
<1>7. d \in [1..(l - k) -> Blocks] /\ l - k \in Nat
  BY <1>1, <1>5
<1>8. a \in Seq(Blocks) /\ Len(a) = m - k /\ \A i \in 1..Len(a) : a[i] = Path[n][k + i]
  BY <1>6
<1>9. d \in Seq(Blocks) /\ Len(d) = l - k /\ \A i \in 1..Len(d) : d[i] = Path[tip][l + 1 - i]
  BY <1>7
<1> HIDE DEF a, d
<1>10. ReorgLists(tip, n, k, d, a)
  BY <1>1, <1>8, <1>9 DEF ReorgLists, l, m
<1> QED
  BY <1>1, <1>2, <1>8, <1>9, <1>10 DEF k

-----------------------------------------------------------------------------
(***************************************************************************)
(* Every step preserves the type invariant.                                *)
(***************************************************************************)
LEMMA ReturnType == Return => CallTypeOK'
<1> SUFFICES ASSUME Return PROVE CallTypeOK'
  OBVIOUS
<1>1. fastAdd' \in BOOLEAN /\ isMainChain' \in BOOLEAN
  BY DEF Return
<1>2. /\ detachNodes' \in Seq(Blocks) /\ attachNodes' \in Seq(Blocks)
      /\ processHashes' \in Seq(Blocks)
  BY DEF Return
<1>3. pc' = "idle" /\ cur' = NoBlock
  BY DEF Return
<1>4. cur' = NoBlock <=> pc' \in {"idle", "orphans"}
  BY <1>3
<1> QED
  BY <1>1, <1>2, <1>3, <1>4 DEF CallTypeOK

(***************************************************************************)
(* connectBestChain leaves the variables of the call well typed when it    *)
(* returns.                                                                *)
(***************************************************************************)
LEMMA ConnectedType ==
    ASSUME CallTypeOK, pc \notin {"idle", "orphans"}, NEW main \in BOOLEAN, Connected(main)
    PROVE  CallTypeOK'
<1>1. /\ fastAdd' \in BOOLEAN /\ isMainChain' \in BOOLEAN
  BY DEF CallTypeOK, Connected
<1>2. /\ detachNodes' \in Seq(Blocks) /\ attachNodes' \in Seq(Blocks)
      /\ processHashes' \in Seq(Blocks)
  BY DEF CallTypeOK, Connected
<1>3. pc' = "accepted" /\ cur' = cur /\ cur # NoBlock /\ cur \in Blocks \cup {NoBlock}
  BY DEF CallTypeOK, Connected
<1>4. cur' = NoBlock <=> pc' \in {"idle", "orphans"}
  BY <1>3
<1> QED
  BY <1>1, <1>2, <1>3, <1>4 DEF CallTypeOK

(***************************************************************************)
(* Every step of ProcessBlock, and a crash, keeps the variables of the     *)
(* call well typed.                                                        *)
(***************************************************************************)
LEMMA CallTypeStep == IInv /\ [Next]_vars => CallTypeOK'
<1> SUFFICES ASSUME IInv, [Next]_vars PROVE CallTypeOK'
  OBVIOUS
<1> USE DEF IInv, TypeOK
<1>1. ASSUME NEW b \in Blocks, NEW fast \in BOOLEAN, fast => b \in FastBlocks,
             ProcessBlock(b, fast)
      PROVE  CallTypeOK'
  <2>1. b # NoBlock
    BY ChainAssumption
  <2> QED
    BY <1>1, <2>1 DEF ProcessBlock, CallTypeOK
<1>2. ASSUME NEW b \in Blocks, NEW expired \in 0..Len(orphans),
             ProcessOrphanBlock(b, expired)
      PROVE  CallTypeOK'
  BY <1>2, ReturnType DEF ProcessOrphanBlock, Connected, CallTypeOK, callVars
<1>3. CASE RejectBlock
  BY <1>3, ReturnType DEF RejectBlock, Connected, CallTypeOK, callVars
<1>4. CASE FastExtend
  BY <1>4, ReturnType DEF FastExtend, Connected, CallTypeOK, callVars
<1>5. CASE SideChain
  BY <1>5, ConnectedType DEF SideChain
<1>6. CASE ReorgChecked
  <2>1. AttachNodes(cur) \in Seq(Blocks) /\ DetachNodes(cur) \in Seq(Blocks)
    <3>1. cur \in Blocks /\ tip \in Blocks
      BY <1>6 DEF ReorgChecked, BeginReorg, CallTypeOK, NodeTypeOK
    <3> QED
      BY <3>1, ReorgListsFacts
  <2>2. /\ detachNodes' \in Seq(Blocks) /\ attachNodes' \in Seq(Blocks)
        /\ processHashes' \in Seq(Blocks)
    BY <1>6, <2>1 DEF ReorgChecked, CallTypeOK
  <2>3. fastAdd' \in BOOLEAN /\ isMainChain' \in BOOLEAN
    BY <1>6 DEF ReorgChecked, CallTypeOK
  <2>4. pc' = "reorg" /\ cur' = cur /\ cur # NoBlock /\ cur \in Blocks \cup {NoBlock}
    BY <1>6 DEF ReorgChecked, BeginReorg, CallTypeOK
  <2>5. cur' = NoBlock <=> pc' \in {"idle", "orphans"}
    BY <2>4
  <2> QED
    BY <2>2, <2>3, <2>4, <2>5 DEF CallTypeOK
<1>7. CASE BlockAccepted
  <2>1. cur \in Blocks
    BY <1>7 DEF BlockAccepted, CallTypeOK
  <2>2. processHashes' \in Seq(Blocks)
    BY <1>7, <2>1 DEF BlockAccepted, CallTypeOK
  <2> QED
    BY <1>7, <2>2 DEF BlockAccepted, CallTypeOK
<1>8. CASE AcceptOrphan
  <2>1. cur' \in Blocks
    BY <1>8 DEF AcceptOrphan, PoolTypeOK
  <2>2. cur' # NoBlock
    BY <2>1, ChainAssumption
  <2> QED
    BY <1>8, <2>1, <2>2 DEF AcceptOrphan, CallTypeOK
<1>9. CASE NextHash
  <2>1. CASE Return
    BY <2>1, ReturnType
  <2>2. CASE ~Return
    <3>1. /\ processHashes # <<>> /\ processHashes' = Tail(processHashes)
          /\ UNCHANGED <<pc, cur, fastAdd, detachNodes, attachNodes, isMainChain>>
      BY <1>9, <2>2 DEF NextHash
    <3>2. processHashes' \in Seq(Blocks)
      BY <3>1 DEF CallTypeOK
    <3> QED
      BY <3>1, <3>2 DEF CallTypeOK
  <2> QED
    BY <2>1, <2>2
<1>10. ASSUME NEW ok \in BOOLEAN, StoreBlock(ok)
      PROVE  CallTypeOK'
  BY <1>10, ReturnType DEF StoreBlock, Connected, CallTypeOK, callVars
<1>11. ASSUME NEW ok \in BOOLEAN, AddNode(ok)
      PROVE  CallTypeOK'
  BY <1>11, ReturnType DEF AddNode, Connected, CallTypeOK, callVars
<1>12. ASSUME NEW ok \in BOOLEAN, CheckExtend(ok)
      PROVE  CallTypeOK'
  BY <1>12, ReturnType DEF CheckExtend, Connected, CallTypeOK, callVars
<1>13. ASSUME NEW ok \in BOOLEAN, ExtendChain(ok)
      PROVE  CallTypeOK'
  BY <1>13, ReturnType DEF ExtendChain, Connected, CallTypeOK, callVars
<1>14. ASSUME NEW ok \in BOOLEAN, MarkExtended(ok)
      PROVE  CallTypeOK'
  BY <1>14, ReturnType DEF MarkExtended, Connected, CallTypeOK, callVars
<1>15. ASSUME NEW ok \in BOOLEAN, ReorgInvalidBranch(ok)
      PROVE  CallTypeOK'
  BY <1>15, ReturnType DEF ReorgInvalidBranch, Connected, CallTypeOK, callVars
<1>16. ASSUME NEW ok \in BOOLEAN, ReorgRefused(ok)
      PROVE  CallTypeOK'
  BY <1>16, ReturnType DEF ReorgRefused, Connected, CallTypeOK, callVars
<1>17. ASSUME NEW ok \in BOOLEAN, ReorgDetach(ok)
      PROVE  CallTypeOK'
  <2>1. CASE Return
    BY <2>1, ReturnType
  <2>2. CASE ~Return
    <3>1. /\ detachNodes # <<>> /\ detachNodes' = Tail(detachNodes)
          /\ UNCHANGED <<pc, cur, fastAdd, attachNodes, isMainChain, processHashes>>
      BY <1>17, <2>2 DEF ReorgDetach
    <3>2. detachNodes' \in Seq(Blocks)
      BY <3>1 DEF CallTypeOK
    <3> QED
      BY <3>1, <3>2 DEF CallTypeOK
  <2> QED
    BY <2>1, <2>2
<1>18. ASSUME NEW ok \in BOOLEAN, ReorgAttach(ok)
      PROVE  CallTypeOK'
  <2>1. CASE Return
    BY <2>1, ReturnType
  <2>2. CASE ~Return
    <3>1. /\ attachNodes # <<>> /\ attachNodes' = Tail(attachNodes)
          /\ UNCHANGED <<pc, cur, fastAdd, detachNodes, isMainChain, processHashes>>
      BY <1>18, <2>2 DEF ReorgAttach
    <3>2. attachNodes' \in Seq(Blocks)
      BY <3>1 DEF CallTypeOK
    <3> QED
      BY <3>1, <3>2 DEF CallTypeOK
  <2> QED
    BY <2>1, <2>2
<1>19. ASSUME NEW ok \in BOOLEAN, ReorgDone(ok)
      PROVE  CallTypeOK'
  BY <1>19, ReturnType DEF ReorgDone, Connected, CallTypeOK, callVars
<1>20. ASSUME NEW ok \in BOOLEAN, NEW again \in BOOLEAN, FlushBeforeUpdate(ok, again)
      PROVE  CallTypeOK'
  BY <1>20, ReturnType DEF FlushBeforeUpdate, Connected, CallTypeOK, callVars
<1>21. CASE CrashAndRestart
  BY <1>21, ReturnType DEF CrashAndRestart, Connected, CallTypeOK, callVars
<1>22. CASE UNCHANGED vars
  BY <1>22, ReturnType DEF vars, CallTypeOK, callVars
<1>23. CASE CheckConnectBlockTemplate
  BY <1>23 DEF CheckConnectBlockTemplate, CallTypeOK, callVars
<1> QED
  BY <1>1, <1>2, <1>3, <1>4, <1>5, <1>6, <1>7, <1>8, <1>9, <1>10, <1>11, <1>12, <1>13, <1>14, <1>15, <1>16, <1>17, <1>18, <1>19, <1>20, <1>21, <1>22, <1>23, ChainAssumption DEF Next, Step, Deliver

(***************************************************************************)
(* The block at hand is a block with a parent.                             *)
(***************************************************************************)
LEMMA CurFacts ==
    ASSUME IInv, pc \notin {"idle", "orphans"}
    PROVE  cur \in Blocks /\ cur # Genesis /\ Parent(cur) \in Blocks
<1>1. cur \in Blocks /\ cur # Genesis
  BY DEF IInv, TypeOK, CallTypeOK, CallInv, HandInv
<1> QED
  BY <1>1, ParentFacts

-----------------------------------------------------------------------------
(***************************************************************************)
(* The branch to attach: where its blocks stand in the tree.               *)
(***************************************************************************)
LEMMA AttachFacts ==
    ASSUME IInv, NEW n \in Blocks, NEW i \in 1..Len(AttachNodes(n))
    PROVE  LET a == AttachNodes(n) IN
           /\ a[i] \in OnChain(n)
           /\ a[i] \in Blocks \ {Genesis}
           /\ \A j \in 1..i : a[j] \in OnChain(a[i])
           /\ a[Len(a)] = n
           /\ Parent(a[i]) = Path[n][FindFork(tip, n) + i - 1]
<1> DEFINE a == AttachNodes(n)
           k == FindFork(tip, n)
           m == Len(Path[n])
<1>1. /\ a \in Seq(Blocks) /\ k \in 1..m /\ Len(a) = m - k /\ m \in Nat
      /\ \A j \in 1..Len(a) : a[j] = Path[n][k + j]
  BY ReorgListsFacts, PathFacts DEF IInv, TypeOK, NodeTypeOK, ReorgLists
<1> HIDE DEF a, k, m
<1>2. \A j \in 1..Len(a) : k + j \in 1..m /\ k + j > 1
  BY <1>1
<1>3. i \in 1..Len(a) /\ \A j \in 1..i : j \in 1..Len(a) /\ k + j \in 1..(k + i)
  BY <1>1 DEF a
<1>4. a[i] = Path[n][k + i] /\ k + i \in 1..m /\ k + i > 1
  BY <1>1, <1>2, <1>3
<1>5. /\ Path[n][k + i] \in Blocks
      /\ Len(Path[Path[n][k + i]]) = k + i
      /\ \A j \in 1..(k + i) : Path[Path[n][k + i]][j] = Path[n][j]
  BY <1>4, PathFacts DEF m
<1>6. a[i] \in Blocks \ {Genesis}
  BY <1>4, <1>5, PathFacts
<1>7. a[i] \in OnChain(n)
  BY <1>4 DEF OnChain, m
<1>8. \A j \in 1..i : a[j] \in OnChain(a[i])
  <2>1. OnChain(a[i]) = {Path[n][j] : j \in 1..(k + i)}
    BY <1>4, ChainPrefix DEF m
  <2> QED
    BY <2>1, <1>1, <1>3
<1>9. a[Len(a)] = n
  <2>1. Len(a) \in 1..Len(a) /\ k + Len(a) = m
    BY <1>1, <1>3
  <2>2. a[Len(a)] = Path[n][m]
    BY <2>1, <1>1
  <2> QED
    BY <2>2, PathFacts DEF m
<1>10. Parent(a[i]) = Path[n][k + i - 1]
  <2>1. k + i - 1 \in 1..(k + i)
    BY <1>1, <1>3
  <2>2. Len(Path[a[i]]) - 1 = k + i - 1 /\ Path[a[i]][k + i - 1] = Path[n][k + i - 1]
    BY <2>1, <1>1, <1>3, <1>4, <1>5
  <2>3. Parent(a[i]) = Path[a[i]][Len(Path[a[i]]) - 1]
    BY DEF Parent
  <2> QED
    BY <2>2, <2>3
<1> QED
  BY <1>6, <1>7, <1>8, <1>9, <1>10 DEF a, k

(***************************************************************************)
(* The scratch view of reorganizeChain before the i-th block to attach is  *)
(* the utxo set of that block's parent, however deep the fork.             *)
(***************************************************************************)
LEMMA ReorgViewFacts ==
    ASSUME IInv, NEW n \in Blocks, NEW i \in 1..Len(AttachNodes(n))
    PROVE  ReorgView(DetachNodes(n), AttachNodes(n), i) = UtxoOf(Parent(AttachNodes(n)[i]))
<1> DEFINE a == AttachNodes(n)
           d == DetachNodes(n)
           k == FindFork(tip, n)
           m == Len(Path[n])
           l == Len(Path[tip])
<1>1. tip \in Blocks /\ dbUtxo = UtxoOf(tip) /\ ChainOK(tip)
  BY DEF IInv, TypeOK, NodeTypeOK, StoreInv, StoreDescribesOneChain
<1>2. /\ a \in Seq(Blocks) /\ d \in Seq(Blocks)
      /\ k \in 1..m /\ k \in 1..l /\ m \in Nat /\ l \in Nat
      /\ Path[tip][k] = Path[n][k]
      /\ Len(a) = m - k /\ \A j \in 1..Len(a) : a[j] = Path[n][k + j]
      /\ Len(d) = l - k /\ \A j \in 1..Len(d) : d[j] = Path[tip][l + 1 - j]
  BY <1>1, ReorgListsFacts, PathFacts DEF ReorgLists
<1>3. i \in 1..Len(a)
  OBVIOUS
<1> HIDE DEF a, d, k, m, l
<1>4. Nodes(d, Len(d)) = Segment(tip, k, l)
  <2>1. \A j \in 1..Len(d) : l + 1 - j \in (k + 1)..l
    BY <1>2
  <2>2. \A j \in (k + 1)..l : l + 1 - j \in 1..Len(d) /\ l + 1 - (l + 1 - j) = j
    BY <1>2
  <2>3. \A x \in Nodes(d, Len(d)) : x \in Segment(tip, k, l)
    <3> TAKE x \in Nodes(d, Len(d))
    <3>1. PICK j \in 1..Len(d) : x = d[j]
      BY DEF Nodes
    <3>2. x = Path[tip][l + 1 - j] /\ l + 1 - j \in (k + 1)..l
      BY <3>1, <2>1, <1>2
    <3> QED
      BY <3>2 DEF Segment
  <2>4. \A x \in Segment(tip, k, l) : x \in Nodes(d, Len(d))
    <3> TAKE x \in Segment(tip, k, l)
    <3>1. PICK j \in (k + 1)..l : x = Path[tip][j]
      BY DEF Segment
    <3>2. d[l + 1 - j] = x /\ l + 1 - j \in 1..Len(d)
      BY <3>1, <2>2, <1>2
    <3> QED
      BY <3>2 DEF Nodes
  <2> QED
    BY <2>3, <2>4
<1>5. Nodes(a, i - 1) = Segment(n, k, k + i - 1)
  <2>1. \A j \in 1..(i - 1) : j \in 1..Len(a) /\ k + j \in (k + 1)..(k + i - 1)
    BY <1>2, <1>3
  <2>2. \A j \in (k + 1)..(k + i - 1) : j - k \in 1..(i - 1) /\ j - k \in 1..Len(a) /\ k + (j - k) = j
    BY <1>2, <1>3
  <2>3. \A x \in Nodes(a, i - 1) : x \in Segment(n, k, k + i - 1)
    <3> TAKE x \in Nodes(a, i - 1)
    <3>1. PICK j \in 1..(i - 1) : x = a[j]
      BY DEF Nodes
    <3>2. x = Path[n][k + j] /\ k + j \in (k + 1)..(k + i - 1)
      BY <3>1, <2>1, <1>2
    <3> QED
      BY <3>2 DEF Segment
  <2>4. \A x \in Segment(n, k, k + i - 1) : x \in Nodes(a, i - 1)
    <3> TAKE x \in Segment(n, k, k + i - 1)
    <3>1. PICK j \in (k + 1)..(k + i - 1) : x = Path[n][j]
      BY DEF Segment
    <3>2. a[j - k] = x /\ j - k \in 1..(i - 1)
      BY <3>1, <2>2, <1>2
    <3> QED
      BY <3>2 DEF Nodes
  <2> QED
    BY <2>3, <2>4
<1>6. (dbUtxo \cup AllSpends(Segment(tip, k, l))) \ AllCreates(Segment(tip, k, l)) = UtxoOf(Path[tip][k])
  BY <1>1, <1>2, UndoBranch DEF l
<1>7. (UtxoOf(Path[n][k]) \cup AllCreates(Segment(n, k, k + i - 1)))
          \ AllSpends(Segment(n, k, k + i - 1)) = UtxoOf(Path[n][k + i - 1])
  <2>1. k + i - 1 \in 1..m /\ k \in 1..(k + i - 1)
    BY <1>2, <1>3
  <2> QED
    BY <2>1, ApplyBranch DEF m
<1>8. ReorgView(d, a, i) = UtxoOf(Path[n][k + i - 1])
  BY <1>2, <1>4, <1>5, <1>6, <1>7 DEF ReorgView
<1>9. Parent(a[i]) = Path[n][k + i - 1]
  BY <1>3, AttachFacts DEF a, k
<1> QED
  BY <1>8, <1>9 DEF a, d

(***************************************************************************)
(* Blocks the check phase lets pass head valid chains, whether checked now *)
(* or known to be valid from before.                                       *)
(***************************************************************************)
LEMMA PassedIsValid ==
    ASSUME IInv, NEW n \in Blocks, NEW i \in 1..Len(AttachNodes(n)),
           \A j \in 1..i : ~AttachFails(DetachNodes(n), AttachNodes(n), j)
    PROVE  ChainOK(AttachNodes(n)[i])
<1> DEFINE a == AttachNodes(n)
           k == FindFork(tip, n)
           m == Len(Path[n])
<1>1. tip \in Blocks /\ ChainOK(tip) /\ StatusSound
  BY DEF IInv, TypeOK, NodeTypeOK, StoreInv, StoreDescribesOneChain
<1>2. /\ k \in 1..m /\ k \in 1..Len(Path[tip]) /\ m \in Nat
      /\ Path[tip][k] = Path[n][k] /\ a \in Seq(Blocks)
      /\ Len(a) = m - k /\ \A j \in 1..Len(a) : a[j] = Path[n][k + j]
  BY <1>1, ReorgListsFacts, PathFacts DEF ReorgLists
<1>3. \A j \in 1..i : j \in 1..Len(a)
  BY <1>2
<1>4. ASSUME NEW j \in 1..i
      PROVE  MayConnect(a[j], UtxoOf(Parent(a[j])))
  <2>1. j \in 1..Len(a) /\ ~AttachFails(DetachNodes(n), a, j)
    BY <1>3
  <2>2. a[j] \in Blocks \ {Genesis}
    BY <2>1, AttachFacts
  <2>3. CASE KnownValid(status, a[j])
    <3>1. ChainOK(a[j])
      BY <1>1, <2>2, <2>3 DEF StatusSound, MarksSound
    <3> QED
      BY <2>2, <3>1, ChainOKParent
  <2>4. CASE ~KnownValid(status, a[j])
    <3>1. checkConnectBlock(a[j], UtxoOf(Parent(a[j])))
      BY <2>1, <2>4, ReorgViewFacts DEF AttachFails
    <3> QED
      BY <3>1, CheckedMayConnect
  <2> QED
    BY <2>3, <2>4
<1>5. a[i] = Path[n][k + i] /\ k + i \in 1..m /\ k \in 1..(k + i)
  <2>1. i \in 1..Len(a)
    OBVIOUS
  <2> HIDE DEF a, k, m
  <2> QED
    BY <1>2, <2>1
<1>6. OnChain(a[i]) = OnChain(Path[n][k]) \cup Segment(n, k, k + i)
  <2>1. k + i \in 1..Len(Path[n]) /\ k \in 1..(k + i)
    BY <1>5
  <2>2. a[i] = Path[n][k + i]
    BY <1>5
  <2> HIDE DEF a, k, m
  <2>3. OnChain(Path[n][k + i]) = OnChain(Path[n][k]) \cup Segment(n, k, k + i)
    BY ONLY <2>1, n \in Blocks, SegmentFacts
  <2> QED
    BY <2>2, <2>3
<1>7. ASSUME NEW c \in OnChain(Path[n][k]), c # Genesis
      PROVE  MayConnect(c, UtxoOf(Parent(c)))
  <2>1. Path[n][k] \in OnChain(tip)
    BY <1>2 DEF OnChain
  <2>2. c \in OnChain(tip)
    BY <2>1, <1>1, OnChainFacts
  <2> QED
    BY <2>2, <1>1, <1>7 DEF ChainOK
<1>8. ASSUME NEW c \in Segment(n, k, k + i)
      PROVE  MayConnect(c, UtxoOf(Parent(c)))
  <2>1. PICK j \in (k + 1)..(k + i) : c = Path[n][j]
    BY DEF Segment
  <2>2. j - k \in 1..i /\ k + (j - k) = j
    <3>1. i \in 1..Len(a)
      OBVIOUS
    <3> HIDE DEF a, k, m
    <3>2. k \in Nat /\ i \in Nat
      BY <1>2, <3>1
    <3> QED
      BY <3>2
  <2>3. c = a[j - k]
    BY <2>1, <2>2, <1>2, <1>3
  <2> QED
    BY <2>2, <2>3, <1>4
<1> QED
  BY <1>6, <1>7, <1>8 DEF ChainOK

(***************************************************************************)
(* The first block that fails its check, and every block above it, heads a *)
(* chain that breaks a rule.                                               *)
(***************************************************************************)
LEMMA FailedIsInvalid ==
    ASSUME IInv, NEW n \in Blocks, NEW i \in 1..Len(AttachNodes(n)),
           AttachFails(DetachNodes(n), AttachNodes(n), i),
           ~KnownValid(status, AttachNodes(n)[i]),
           NEW j \in i..Len(AttachNodes(n))
    PROVE  ~StrictOK(AttachNodes(n)[j])
<1> DEFINE a == AttachNodes(n)
<1>1. a \in Seq(Blocks) /\ Len(a) \in Nat
  BY ReorgListsFacts DEF IInv, TypeOK, NodeTypeOK
<1>2. j \in 1..Len(a) /\ i \in 1..j
  BY <1>1
<1>3. ~checkConnectBlock(a[i], UtxoOf(Parent(a[i])))
  BY ReorgViewFacts DEF AttachFails
<1>4. a[i] \in OnChain(a[j]) /\ a[i] # Genesis /\ a[j] \in Blocks
  BY <1>2, AttachFacts
<1> QED
  BY <1>3, <1>4 DEF StrictOK

(***************************************************************************)
(* getReorganizeNodes marks only nodes above an invalid one, and always    *)
(* the block that caused the reorganize.                                   *)
(***************************************************************************)
LEMMA InvalidBranchFacts ==
    ASSUME IInv, NEW n \in Blocks, InvalidBranch(n) # {}
    PROVE  /\ n \in InvalidBranch(n)
           /\ \A b \in InvalidBranch(n) : b \in OnChain(n) /\ ~StrictOK(b)
<1> DEFINE a == AttachNodes(n)
           S == {j \in 1..Len(a) : /\ \E x \in 1..(j - 1) : KnownInvalid(status, a[x])
                                   /\ \A x \in j..Len(a) : ~KnownInvalid(status, a[x])}
<1>1. a \in Seq(Blocks) /\ Len(a) \in Nat
  BY ReorgListsFacts DEF IInv, TypeOK, NodeTypeOK
<1>2. InvalidBranch(n) = {a[i] : i \in S}
  BY DEF InvalidBranch
<1>3. ASSUME NEW j \in S
      PROVE  a[j] \in OnChain(n) /\ ~StrictOK(a[j]) /\ Len(a) \in S /\ a[Len(a)] = n
  <2>1. j \in 1..Len(a)
    OBVIOUS
  <2>2. PICK x \in 1..(j - 1) : KnownInvalid(status, a[x])
    OBVIOUS
  <2>3. x \in 1..Len(a) /\ x \in 1..j /\ x \in 1..(Len(a) - 1) /\ Len(a) \in j..Len(a)
        /\ Len(a) \in 1..Len(a) /\ \A y \in Len(a)..Len(a) : y \in j..Len(a)
    BY <1>1, <2>1, <2>2
  <2>4. a[x] \in Blocks /\ a[x] \in OnChain(a[j]) /\ a[j] \in Blocks /\ a[j] \in OnChain(n)
        /\ a[Len(a)] = n
    BY <2>1, <2>3, AttachFacts
  <2>5. ~StrictOK(a[x])
    BY <2>2, <2>4 DEF IInv, StatusSound, MarksSound
  <2>6. ~StrictOK(a[j])
    BY <2>4, <2>5, ChainOKAncestor
  <2> QED
    BY <2>2, <2>3, <2>4, <2>6
<1> HIDE DEF S
<1> QED
  BY <1>2, <1>3

-----------------------------------------------------------------------------
(***************************************************************************)
(* What a step of a running process does to the block index: the nodes of  *)
(* di are new or have a new status, and are either all written or all      *)
(* still dirty.                                                            *)
(***************************************************************************)
NodeStep(di) ==
    /\ index \subseteq index'
    /\ index' \subseteq Blocks
    /\ \A b \in index' : OnChain(b) \subseteq index'
    /\ index' \subseteq dbBlocks'
    /\ status' \in [Blocks -> SUBSET StatusFlags]
    /\ \A b \in index' : status'[b] # {}
    /\ \A b \in Blocks \ di : status'[b] = status[b]
    /\ dirty \cup (index' \ index) \subseteq di
    /\ di \subseteq index'
    /\ MarksSound(status')
    /\ Written(di)

(***************************************************************************)
(* After a NodeStep the index is still closed under parents and written or *)
(* dirty, and its marks are sound; no row disappears.                      *)
(***************************************************************************)
LEMMA NodeStepPreserves ==
    ASSUME IInv, NEW di, NodeStep(di)
    PROVE  /\ IndexInv'
           /\ StatusSound'
           /\ Rows \subseteq Rows'
<1> USE DEF IInv, TypeOK, DbTypeOK, NodeTypeOK
<1>1. /\ Rows = {b \in Blocks : dbIndex[b] # {}}
      /\ Rows' = {b \in Blocks : dbIndex'[b] # {}}
  BY DEF Rows
<1>2. CASE /\ dirty' = {}
           /\ \A b \in Blocks : dbIndex'[b] = IF b \in di THEN status'[b] ELSE dbIndex[b]
  <2>1. Rows' = index'
    <3>1. \A b \in index' \ di : b \in index /\ dbIndex[b] = status[b] /\ status[b] # {}
      BY DEF NodeStep, IndexInv, UnsavedIsDirty
    <3>2. \A b \in index' : dbIndex'[b] # {}
      BY <1>2, <3>1 DEF NodeStep
    <3>3. \A b \in Rows' : b \in index'
      BY <1>1, <1>2 DEF NodeStep, IndexInv, UnsavedIsDirty
    <3> QED
      BY <1>1, <3>2, <3>3 DEF NodeStep
  <2>2. Rows \subseteq index /\ Genesis \in Rows
    BY DEF IndexInv, UnsavedIsDirty
  <2>3. \A b \in index' : dbIndex'[b] = status'[b]
    <3>1. \A b \in index' \ di : b \in index \ dirty
      BY DEF NodeStep
    <3> QED
      BY <1>2, <3>1 DEF NodeStep, IndexInv, UnsavedIsDirty
  <2>4. IndexInv'
    BY <1>2, <2>1, <2>2, <2>3 DEF NodeStep, IndexInv, UnsavedIsDirty
  <2>5. StatusSound'
    BY <1>2 DEF NodeStep, StatusSound, MarksSound, KnownValid, KnownInvalid
  <2> QED
    BY <2>1, <2>2, <2>4, <2>5 DEF NodeStep
<1>3. CASE dirty' = di /\ dbIndex' = dbIndex
  <2>1. Rows' = Rows
    BY <1>1, <1>3
  <2>2. \A b \in index' \ di : b \in index \ dirty /\ status'[b] = status[b]
    BY DEF NodeStep
  <2>3. \A b \in index' \ dirty' : dbIndex'[b] = status'[b]
    BY <1>3, <2>2 DEF IndexInv, UnsavedIsDirty
  <2>4. IndexInv'
    BY <1>3, <2>1, <2>3 DEF NodeStep, IndexInv, UnsavedIsDirty
  <2>5. StatusSound'
    BY <1>3 DEF NodeStep, StatusSound, MarksSound, KnownValid, KnownInvalid
  <2> QED
    BY <2>1, <2>4, <2>5
<1> QED
  BY <1>2, <1>3 DEF NodeStep, Written

(***************************************************************************)
(* Steps that leave the index alone, and steps that only mark nodes of it  *)
(* and write them.                                                         *)
(***************************************************************************)
LEMMA NoNodeStep ==
    ASSUME IInv, UNCHANGED <<index, status, dirty, dbIndex>>, dbBlocks \subseteq dbBlocks'
    PROVE  NodeStep(dirty)
BY DEF IInv, TypeOK, DbTypeOK, NodeTypeOK, IndexInv, StatusSound, MarksSound, NodeStep,
       Written, KnownValid, KnownInvalid

(***************************************************************************)
(* Marking nodes of the index with statuses that are sound, and flushing   *)
(* them, is a NodeStep.                                                    *)
(***************************************************************************)
LEMMA MarkStep ==
    ASSUME IInv, UNCHANGED <<index, dbBlocks>>,
           NEW nodes, nodes \subseteq index,
           status' \in [Blocks -> SUBSET StatusFlags],
           \A b \in Blocks : status[b] \subseteq status'[b],
           \A b \in Blocks \ nodes : status'[b] = status[b],
           \A b \in nodes : /\ KnownValid(status', b) => ChainOK(b)
                            /\ KnownInvalid(status', b) => ~StrictOK(b),
           Written(dirty \cup nodes)
    PROVE  NodeStep(dirty \cup nodes)
<1> USE DEF IInv, TypeOK, DbTypeOK, NodeTypeOK, IndexInv
<1>2. MarksSound(status')
  <2> SUFFICES ASSUME NEW b \in Blocks
               PROVE  /\ KnownValid(status', b) => ChainOK(b)
                      /\ KnownInvalid(status', b) => ~StrictOK(b)
    BY DEF MarksSound
  <2>1. CASE b \in nodes
    BY <2>1
  <2>2. CASE b \notin nodes
    BY <2>2 DEF StatusSound, MarksSound, KnownValid, KnownInvalid
  <2> QED
    BY <2>1, <2>2
<1>3. \A b \in index' : status'[b] # {}
  OBVIOUS
<1>4. /\ index \subseteq index'
      /\ index' \subseteq Blocks
      /\ \A b \in index' : OnChain(b) \subseteq index'
      /\ index' \subseteq dbBlocks'
      /\ \A b \in Blocks \ (dirty \cup nodes) : status'[b] = status[b]
      /\ dirty \cup (index' \ index) \subseteq dirty \cup nodes
      /\ dirty \cup nodes \subseteq index'
  OBVIOUS
<1> HIDE DEF IInv, IndexInv
<1> QED
  BY <1>2, <1>3, <1>4 DEF NodeStep

(***************************************************************************)
(* Flushing the index without marking anything is a NodeStep.              *)
(***************************************************************************)
LEMMA FlushOnly ==
    ASSUME IInv, UNCHANGED <<index, status, dbBlocks>>,
           NEW ok \in BOOLEAN, flushToDB(status', dirty, ok)
    PROVE  \E di : NodeStep(di)
<1>1. Written(dirty)
  BY FlushFacts DEF IInv, TypeOK, DbTypeOK, NodeTypeOK
<1>2. MarksSound(status')
  BY DEF IInv, StatusSound
<1>3. NodeStep(dirty)
  BY <1>1, <1>2 DEF NodeStep, IInv, TypeOK, NodeTypeOK, IndexInv
<1> QED
  BY <1>3

(***************************************************************************)
(* The check phase of reorganizeChain fails.                               *)
(***************************************************************************)
LEMMA RefusedNodeStep ==
    ASSUME IInv, NEW ok \in BOOLEAN, ReorgRefused(ok)
    PROVE  \E di : NodeStep(di)
<1> DEFINE a == AttachNodes(cur)
           d == DetachNodes(cur)
           passed(i) == {a[k] : k \in {j \in 1..(i - 1) : ~KnownValid(status, a[j])}}
           failed(i) == IF KnownValid(status, a[i]) THEN {} ELSE {a[i]}
           after(i) == IF failed(i) = {} THEN {} ELSE {a[k] : k \in (i + 1)..Len(a)}
<1>1. /\ cur \in index /\ cur \in Blocks /\ OnChain(cur) \subseteq index
  BY CurFacts DEF ReorgRefused, BeginReorg, IInv, CallInv, HandInv, IndexInv
<1>2. a \in Seq(Blocks) /\ Len(a) \in Nat
  BY <1>1, ReorgListsFacts DEF IInv, TypeOK, NodeTypeOK
<1>3. PICK i \in 1..Len(a) :
        /\ AttachFails(d, a, i)
        /\ \A j \in 1..(i - 1) : ~AttachFails(d, a, j)
        /\ status' = SetStatusFlags(
                        SetStatusFlags(
                          SetStatusFlags(status, passed(i), "Valid"),
                        failed(i), "ValidateFailed"),
                      after(i), "InvalidAncestor")
        /\ flushToDB(status', dirty \cup passed(i) \cup failed(i) \cup after(i), ok)
  BY DEF ReorgRefused
<1> DEFINE P == passed(i)
           F == failed(i)
           A == after(i)
           nodes == P \cup F \cup A
<1>4. \A j \in 1..Len(a) : a[j] \in OnChain(cur)
  BY <1>1, AttachFacts
<1>5. P \subseteq OnChain(cur) /\ \A b \in P : ChainOK(b)
  <2>1. \A j \in 1..(i - 1) : j \in 1..Len(a) /\ \A x \in 1..j : x \in 1..(i - 1)
    BY <1>2
  <2>2. \A j \in 1..(i - 1) : ChainOK(a[j])
    BY <1>1, <1>3, <2>1, PassedIsValid
  <2> QED
    BY <1>4, <2>1, <2>2
<1>6. F \subseteq OnChain(cur) /\ \A b \in F : ~StrictOK(b)
  <2>1. i \in i..Len(a)
    BY <1>2
  <2> QED
    BY <1>1, <1>3, <1>4, <2>1, FailedIsInvalid
<1>7. A \subseteq OnChain(cur) /\ \A b \in A : ~StrictOK(b)
  <2>1. \A j \in (i + 1)..Len(a) : j \in 1..Len(a) /\ j \in i..Len(a)
    BY <1>2
  <2>2. CASE KnownValid(status, a[i])
    BY <2>2
  <2>3. CASE ~KnownValid(status, a[i])
    <3>1. \A j \in (i + 1)..Len(a) : ~StrictOK(a[j])
      BY <1>1, <1>3, <2>1, <2>3, FailedIsInvalid
    <3> QED
      BY <1>4, <2>1, <3>1
  <2> QED
    BY <2>2, <2>3
<1> HIDE DEF P, F, A
<1>8. nodes \subseteq index /\ index \subseteq Blocks
  BY <1>1, <1>5, <1>6, <1>7 DEF IInv, TypeOK, NodeTypeOK
<1>9. /\ status' = SetStatusFlags(SetStatusFlags(SetStatusFlags(status, P, "Valid"),
                                                F, "ValidateFailed"), A, "InvalidAncestor")
      /\ flushToDB(status', dirty \cup P \cup F \cup A, ok)
  BY <1>3 DEF P, F, A
<1>10. /\ status' \in [Blocks -> SUBSET StatusFlags]
       /\ \A b \in Blocks : status'[b] = status[b] \cup (IF b \in P THEN {"Valid"} ELSE {})
                                         \cup (IF b \in F THEN {"ValidateFailed"} ELSE {})
                                         \cup (IF b \in A THEN {"InvalidAncestor"} ELSE {})
  <2> DEFINE s1 == SetStatusFlags(status, P, "Valid")
             s2 == SetStatusFlags(s1, F, "ValidateFailed")
             s3 == SetStatusFlags(s2, A, "InvalidAncestor")
  <2>1. /\ s1 \in [Blocks -> SUBSET StatusFlags]
        /\ \A b \in Blocks : s1[b] = status[b] \cup (IF b \in P THEN {"Valid"} ELSE {})
    BY DEF IInv, TypeOK, NodeTypeOK, SetStatusFlags, StatusFlags
  <2> HIDE DEF s1
  <2>2. /\ s2 \in [Blocks -> SUBSET StatusFlags]
        /\ \A b \in Blocks : s2[b] = s1[b] \cup (IF b \in F THEN {"ValidateFailed"} ELSE {})
    BY <2>1 DEF SetStatusFlags, StatusFlags
  <2> HIDE DEF s2
  <2>3. /\ s3 \in [Blocks -> SUBSET StatusFlags]
        /\ \A b \in Blocks : s3[b] = s2[b] \cup (IF b \in A THEN {"InvalidAncestor"} ELSE {})
    BY <2>2 DEF SetStatusFlags, StatusFlags
  <2>4. status' = s3
    BY <1>9 DEF s1, s2
  <2> HIDE DEF s3
  <2> QED
    BY <2>1, <2>2, <2>3, <2>4
<1>11. /\ \A b \in Blocks : status[b] \subseteq status'[b]
       /\ \A b \in Blocks \ nodes : status'[b] = status[b]
  BY <1>10
<1>12. Written(dirty \cup nodes)
  <2>1. dirty \cup P \cup F \cup A = dirty \cup nodes
    OBVIOUS
  <2> QED
    BY <1>9, <1>10, <2>1, FlushFacts DEF IInv, TypeOK, DbTypeOK
<1>13. \A b \in nodes : /\ KnownValid(status', b) => ChainOK(b)
                        /\ KnownInvalid(status', b) => ~StrictOK(b)
  <2> TAKE b \in nodes
  <2>1. b \in Blocks
    BY <1>8
  <2>2. KnownValid(status', b) => KnownValid(status, b) \/ b \in P
    BY <1>10, <2>1 DEF KnownValid
  <2>3. KnownInvalid(status', b) => KnownInvalid(status, b) \/ b \in F \cup A
    BY <1>10, <2>1 DEF KnownInvalid
  <2> QED
    BY <1>5, <1>6, <1>7, <2>1, <2>2, <2>3 DEF IInv, StatusSound, MarksSound
<1>14. UNCHANGED <<index, dbBlocks>>
  BY DEF ReorgRefused
<1> HIDE DEF nodes
<1>15. NodeStep(dirty \cup nodes)
  BY <1>8, <1>10, <1>11, <1>12, <1>13, <1>14, MarkStep
<1> QED
  BY <1>15

(***************************************************************************)
(* Every step of a running process is such a step.                         *)
(***************************************************************************)
LEMMA NodeStepOf == IInv /\ [Deliver \/ Step]_vars => \E di : NodeStep(di)
<1> SUFFICES ASSUME IInv, [Deliver \/ Step]_vars PROVE \E di : NodeStep(di)
  OBVIOUS
<1>1. ASSUME NEW b \in Blocks, NEW fast \in BOOLEAN, fast => b \in FastBlocks,
             ProcessBlock(b, fast)
      PROVE  \E di : NodeStep(di)
  BY <1>1, NoNodeStep DEF ProcessBlock, dbVars, nodeVars
<1>2. ASSUME NEW b \in Blocks, NEW expired \in 0..Len(orphans),
             ProcessOrphanBlock(b, expired)
      PROVE  \E di : NodeStep(di)
  BY <1>2, NoNodeStep DEF ProcessOrphanBlock, dbVars, nodeVars
<1>3. CASE RejectBlock
  BY <1>3, NoNodeStep DEF RejectBlock, dbVars, nodeVars
<1>4. CASE FastExtend
  BY <1>4, NoNodeStep DEF FastExtend, dbVars, nodeVars
<1>5. CASE SideChain
  BY <1>5, NoNodeStep DEF SideChain, dbVars, nodeVars
<1>6. CASE ReorgChecked
  <2> DEFINE a == AttachNodes(cur)
             nodes == {a[i] : i \in {j \in 1..Len(a) : ~KnownValid(status, a[j])}}
  <2>1. /\ cur \in index /\ cur \in Blocks /\ OnChain(cur) \subseteq index
    BY <1>6, CurFacts DEF ReorgChecked, BeginReorg, IInv, CallInv, HandInv, IndexInv
  <2>2. a \in Seq(Blocks) /\ Len(a) \in Nat
    BY <2>1, ReorgListsFacts DEF IInv, TypeOK, NodeTypeOK
  <2>3. \A i \in 1..Len(a) : ~AttachFails(DetachNodes(cur), a, i)
    BY <1>6 DEF ReorgChecked
  <2>4. \A i \in 1..Len(a) : a[i] \in OnChain(cur) /\ ChainOK(a[i])
    <3> TAKE i \in 1..Len(a)
    <3>1. \A j \in 1..i : j \in 1..Len(a)
      BY <2>2
    <3> QED
      BY <2>1, <2>3, <3>1, AttachFacts, PassedIsValid
  <2>5. nodes \subseteq index /\ index \subseteq Blocks /\ \A b \in nodes : ChainOK(b)
    BY <2>1, <2>4 DEF IInv, TypeOK, NodeTypeOK
  <2>6. /\ status' = SetStatusFlags(status, nodes, "Valid")
        /\ UNCHANGED <<index, dbBlocks, dbIndex>>
        /\ dirty' = dirty \cup nodes
    BY <1>6 DEF ReorgChecked, dbVars
  <2> HIDE DEF nodes
  <2>7. /\ status' \in [Blocks -> SUBSET StatusFlags]
        /\ \A b \in Blocks : status[b] \subseteq status'[b]
        /\ \A b \in Blocks \ nodes : status'[b] = status[b]
        /\ \A b \in nodes : status'[b] = status[b] \cup {"Valid"}
    BY <2>5, <2>6, SetStatusFlagsFacts DEF IInv, TypeOK, NodeTypeOK, StatusFlags
  <2>8. Written(dirty \cup nodes)
    BY <2>6 DEF Written, IInv, TypeOK, DbTypeOK
  <2>9. \A b \in nodes : /\ KnownValid(status', b) => ChainOK(b)
                         /\ KnownInvalid(status', b) => ~StrictOK(b)
    BY <2>5, <2>7 DEF IInv, StatusSound, MarksSound, KnownValid, KnownInvalid
  <2>10. NodeStep(dirty \cup nodes)
    BY <2>5, <2>6, <2>7, <2>8, <2>9, MarkStep
  <2> QED
    BY <2>10
<1>7. CASE BlockAccepted
  BY <1>7, NoNodeStep DEF BlockAccepted, dbVars, nodeVars
<1>8. CASE AcceptOrphan
  BY <1>8, NoNodeStep DEF AcceptOrphan, dbVars, nodeVars
<1>9. CASE NextHash
  BY <1>9, NoNodeStep DEF NextHash, dbVars, nodeVars
<1>10. ASSUME NEW ok \in BOOLEAN, StoreBlock(ok)
      PROVE  \E di : NodeStep(di)
  BY <1>10, NoNodeStep DEF StoreBlock, dbVars, nodeVars
<1>11. ASSUME NEW ok \in BOOLEAN, AddNode(ok)
      PROVE  \E di : NodeStep(di)
  <2>1. /\ cur \in Blocks /\ OnChain(cur) = OnChain(Parent(cur)) \cup {cur}
        /\ Parent(cur) \in index /\ cur \in dbBlocks
    BY <1>11, CurFacts, OnChainParent DEF AddNode, IInv, CallInv, HandInv
  <2>2. /\ index' = index \cup {cur} /\ dbBlocks' = dbBlocks
        /\ status' = [status EXCEPT ![cur] = {"DataStored"}]
        /\ flushToDB(status', dirty \cup {cur}, ok)
    BY <1>11 DEF AddNode
  <2>3. /\ status' \in [Blocks -> SUBSET StatusFlags]
        /\ status'[cur] = {"DataStored"}
        /\ \A b \in Blocks \ {cur} : status'[b] = status[b]
    BY <2>1, <2>2 DEF IInv, TypeOK, NodeTypeOK, StatusFlags
  <2>4. Written(dirty \cup {cur})
    BY <2>2, <2>3, FlushFacts DEF IInv, TypeOK, DbTypeOK
  <2>5. MarksSound(status')
    BY <2>1, <2>3 DEF IInv, StatusSound, MarksSound, KnownValid, KnownInvalid
  <2>6. /\ index \subseteq index' /\ index' \subseteq Blocks
        /\ \A b \in index' : OnChain(b) \subseteq index'
        /\ index' \subseteq dbBlocks'
        /\ \A b \in index' : status'[b] # {}
        /\ \A b \in Blocks \ (dirty \cup {cur}) : status'[b] = status[b]
        /\ dirty \cup (index' \ index) \subseteq dirty \cup {cur}
        /\ dirty \cup {cur} \subseteq index'
    BY <2>1, <2>2, <2>3 DEF IInv, TypeOK, NodeTypeOK, IndexInv
  <2>7. NodeStep(dirty \cup {cur})
    BY <2>3, <2>4, <2>5, <2>6 DEF NodeStep
  <2> QED
    BY <2>7
<1>12. ASSUME NEW ok \in BOOLEAN, CheckExtend(ok)
      PROVE  \E di : NodeStep(di)
  <2>1. /\ cur \in index /\ cur \in Blocks /\ cur # Genesis /\ Parent(cur) = tip
        /\ ChainOK(tip) /\ dbUtxo = UtxoOf(Parent(cur))
    BY <1>12, CurFacts DEF CheckExtend, IInv, CallInv, HandInv, StoreInv, StoreDescribesOneChain
  <2>2. PICK flag \in {"Valid", "ValidateFailed"} :
            /\ status' = SetStatusFlags(status, {cur}, flag)
            /\ flag = "Valid" <=> checkConnectBlock(cur, dbUtxo)
    BY <1>12 DEF CheckExtend
  <2>3. /\ status' \in [Blocks -> SUBSET StatusFlags]
        /\ \A b \in Blocks : status[b] \subseteq status'[b]
        /\ \A b \in Blocks \ {cur} : status'[b] = status[b]
        /\ status'[cur] = status[cur] \cup {flag}
    BY <2>1, <2>2, SetStatusFlagsFacts DEF IInv, TypeOK, NodeTypeOK, StatusFlags
  <2>4. Written(dirty \cup {cur})
    BY <1>12, <2>3, FlushFacts DEF CheckExtend, IInv, TypeOK, DbTypeOK
  <2>5. checkConnectBlock(cur, dbUtxo) => ChainOK(cur)
    BY <2>1, CheckedMayConnect, ChainOKParent
  <2>6. ~checkConnectBlock(cur, dbUtxo) => ~StrictOK(cur)
    BY <2>1, OnChainFacts DEF StrictOK
  <2>7. /\ KnownValid(status', cur) => ChainOK(cur)
        /\ KnownInvalid(status', cur) => ~StrictOK(cur)
    BY <2>1, <2>2, <2>3, <2>5, <2>6 DEF IInv, StatusSound, MarksSound, KnownValid, KnownInvalid
  <2>8. NodeStep(dirty \cup {cur})
    BY <1>12, <2>1, <2>3, <2>4, <2>7, MarkStep DEF CheckExtend
  <2> QED
    BY <2>8
<1>13. ASSUME NEW ok \in BOOLEAN, ExtendChain(ok)
      PROVE  \E di : NodeStep(di)
  BY <1>13, NoNodeStep DEF ExtendChain, dbVars, nodeVars
<1>14. ASSUME NEW ok \in BOOLEAN, MarkExtended(ok)
      PROVE  \E di : NodeStep(di)
  <2>1. CASE UNCHANGED <<status, dirty, dbIndex>>
    BY <1>14, <2>1, NoNodeStep DEF MarkExtended
  <2>2. CASE /\ status' = SetStatusFlags(status, {cur}, "Valid")
             /\ flushToDB(status', dirty \cup {cur}, ok)
    <3>1. cur \in index /\ cur \in Blocks /\ ChainOK(cur)
      BY <1>14, CurFacts DEF MarkExtended, IInv, CallInv, HandInv, StoreInv, StoreDescribesOneChain
    <3>2. /\ status' \in [Blocks -> SUBSET StatusFlags]
          /\ \A b \in Blocks : status[b] \subseteq status'[b]
          /\ \A b \in Blocks \ {cur} : status'[b] = status[b]
          /\ status'[cur] = status[cur] \cup {"Valid"}
      BY <2>2, <3>1, SetStatusFlagsFacts DEF IInv, TypeOK, NodeTypeOK, StatusFlags
    <3>3. Written(dirty \cup {cur})
      BY <2>2, <3>2, FlushFacts DEF IInv, TypeOK, DbTypeOK
    <3>4. /\ KnownValid(status', cur) => ChainOK(cur)
          /\ KnownInvalid(status', cur) => ~StrictOK(cur)
      BY <3>1, <3>2 DEF IInv, StatusSound, MarksSound, KnownValid, KnownInvalid
    <3>5. NodeStep(dirty \cup {cur})
      BY <1>14, <3>1, <3>2, <3>3, <3>4, MarkStep DEF MarkExtended
    <3> QED
      BY <3>5
  <2> QED
    BY <1>14, <2>1, <2>2 DEF MarkExtended
<1>15. ASSUME NEW ok \in BOOLEAN, ReorgInvalidBranch(ok)
      PROVE  \E di : NodeStep(di)
  <2> DEFINE nodes == InvalidBranch(cur)
  <2>1. /\ cur \in index /\ cur \in Blocks /\ OnChain(cur) \subseteq index
    BY <1>15, CurFacts DEF ReorgInvalidBranch, IInv, CallInv, HandInv, IndexInv
  <2>2. nodes \subseteq index /\ index \subseteq Blocks /\ \A b \in nodes : ~StrictOK(b)
    BY <1>15, <2>1, InvalidBranchFacts DEF ReorgInvalidBranch, IInv, TypeOK, NodeTypeOK
  <2>3. /\ status' \in [Blocks -> SUBSET StatusFlags]
        /\ \A b \in Blocks : status[b] \subseteq status'[b]
        /\ \A b \in Blocks \ nodes : status'[b] = status[b]
        /\ \A b \in nodes : status'[b] = status[b] \cup {"InvalidAncestor"}
    <3>1. status' = SetStatusFlags(status, nodes, "InvalidAncestor")
      BY <1>15 DEF ReorgInvalidBranch
    <3> HIDE DEF nodes
    <3> QED
      BY <2>2, <3>1, SetStatusFlagsFacts DEF IInv, TypeOK, NodeTypeOK, StatusFlags
  <2>4. Written(dirty \cup nodes)
    BY <1>15, <2>3, FlushFacts DEF ReorgInvalidBranch, IInv, TypeOK, DbTypeOK
  <2>5. UNCHANGED <<index, dbBlocks>>
    BY <1>15 DEF ReorgInvalidBranch
  <2> HIDE DEF nodes
  <2>6. \A b \in nodes : /\ KnownValid(status', b) => ChainOK(b)
                         /\ KnownInvalid(status', b) => ~StrictOK(b)
    BY <2>2, <2>3 DEF IInv, StatusSound, MarksSound, KnownValid, KnownInvalid
  <2>7. NodeStep(dirty \cup nodes)
    BY <2>2, <2>3, <2>4, <2>5, <2>6, MarkStep
  <2> QED
    BY <2>7
<1>16. ASSUME NEW ok \in BOOLEAN, ReorgRefused(ok)
      PROVE  \E di : NodeStep(di)
  <2> QED
    BY <1>16, RefusedNodeStep
<1>17. ASSUME NEW ok \in BOOLEAN, ReorgDetach(ok)
      PROVE  \E di : NodeStep(di)
  BY <1>17, NoNodeStep DEF ReorgDetach, dbVars, nodeVars
<1>18. ASSUME NEW ok \in BOOLEAN, ReorgAttach(ok)
      PROVE  \E di : NodeStep(di)
  BY <1>18, NoNodeStep DEF ReorgAttach, dbVars, nodeVars
<1>19. ASSUME NEW ok \in BOOLEAN, ReorgDone(ok)
      PROVE  \E di : NodeStep(di)
  <2>1. /\ UNCHANGED <<index, status, dbBlocks>>
        /\ flushToDB(status', dirty, ok)
    BY <1>19 DEF ReorgDone
  <2> QED
    BY <2>1, FlushOnly
<1>20. ASSUME NEW ok \in BOOLEAN, NEW again \in BOOLEAN, FlushBeforeUpdate(ok, again)
      PROVE  \E di : NodeStep(di)
  <2>1. PICK r \in BOOLEAN : flushToDB(status, dirty, r)
    BY <1>20 DEF FlushBeforeUpdate
  <2>2. UNCHANGED <<index, status, dbBlocks>>
    BY <1>20 DEF FlushBeforeUpdate
  <2>3. flushToDB(status', dirty, r)
    BY <2>1, <2>2
  <2> QED
    BY <2>2, <2>3, FlushOnly
<1>21. CASE UNCHANGED vars
  BY <1>21, NoNodeStep DEF vars, dbVars, nodeVars
<1> QED
  BY <1>1, <1>2, <1>3, <1>4, <1>5, <1>6, <1>7, <1>8, <1>9, <1>10, <1>11,
     <1>12, <1>13, <1>14, <1>15, <1>16, <1>17, <1>18, <1>19, <1>20, <1>21, ChainAssumption
  DEF Step, Deliver

-----------------------------------------------------------------------------
(***************************************************************************)
(* The lists of reorganizeChain after one disconnect: the tip's chain loses *)
(* its last block, and the lists still meet in the same position.          *)
(***************************************************************************)
LEMMA DetachOne ==
    ASSUME NEW t \in Blocks, NEW n \in Blocks, NEW k \in Nat,
           NEW d \in Seq(Blocks), NEW a \in Seq(Blocks),
           ReorgLists(t, n, k, d, a), d # <<>>
    PROVE  /\ Head(d) = t
           /\ t # Genesis
           /\ ReorgLists(Parent(t), n, k, Tail(d), a)
<1> DEFINE l == Len(Path[t])
<1>1. /\ l \in Nat /\ k \in 1..l /\ Path[t][l] = t /\ (l = 1 <=> t = Genesis)
  BY PathFacts DEF ReorgLists
<1>2. /\ Len(d) = l - k /\ \A i \in 1..Len(d) : d[i] = Path[t][l + 1 - i]
  BY DEF ReorgLists
<1>3. Len(d) \in Nat /\ Len(d) >= 1 /\ Head(d) = d[1]
  OBVIOUS
<1> HIDE DEF l
<1>4. Head(d) = t
  <2>1. 1 \in 1..Len(d) /\ l + 1 - 1 = l
    BY <1>1, <1>3
  <2>2. d[1] = Path[t][l + 1 - 1]
    BY <1>2, <2>1
  <2> QED
    BY <1>1, <1>3, <2>1, <2>2
<1>5. t # Genesis /\ k \in 1..(l - 1)
  BY <1>1, <1>2, <1>3
<1>6. /\ Len(Path[Parent(t)]) = l - 1
      /\ \A j \in 1..(l - 1) : Path[Parent(t)][j] = Path[t][j]
  BY <1>5, ParentFacts DEF l
<1>7. /\ Tail(d) \in Seq(Blocks) /\ Len(Tail(d)) = Len(d) - 1
      /\ \A i \in 1..Len(Tail(d)) : Tail(d)[i] = d[i + 1] /\ i + 1 \in 1..Len(d)
  BY <1>3
<1>8. \A i \in 1..Len(Tail(d)) : Tail(d)[i] = Path[Parent(t)][l - 1 + 1 - i]
  <2> TAKE i \in 1..Len(Tail(d))
  <2>1. Tail(d)[i] = Path[t][l + 1 - (i + 1)]
    BY <1>2, <1>7
  <2>2. l + 1 - (i + 1) = l - 1 + 1 - i /\ l - 1 + 1 - i \in 1..(l - 1)
    BY <1>1, <1>2, <1>3, <1>7
  <2> QED
    BY <1>6, <2>1, <2>2
<1>9. Path[Parent(t)][k] = Path[n][k]
  BY <1>5, <1>6 DEF ReorgLists
<1>10. Len(Tail(d)) = l - 1 - k
  BY <1>1, <1>2, <1>7
<1> QED
  BY <1>4, <1>5, <1>6, <1>8, <1>9, <1>10 DEF ReorgLists

(***************************************************************************)
(* ... after one connect: the tip is the next block of n's chain.          *)
(***************************************************************************)
LEMMA AttachOne ==
    ASSUME NEW t \in Blocks, NEW n \in Blocks, NEW k \in Nat, NEW a \in Seq(Blocks),
           ReorgLists(t, n, k, <<>>, a), a # <<>>
    PROVE  /\ Head(a) \in OnChain(n) \ {Genesis}
           /\ Parent(Head(a)) = t
           /\ ReorgLists(Head(a), n, k + 1, <<>>, Tail(a))
<1> DEFINE m == Len(Path[n])
           b == Path[n][k + 1]
<1>1. /\ m \in Nat /\ k \in 1..m
      /\ Len(a) = m - k /\ \A i \in 1..Len(a) : a[i] = Path[n][k + i]
  BY PathFacts DEF ReorgLists
<1>2. Len(a) \in Nat /\ Len(a) >= 1 /\ Head(a) = a[1]
  OBVIOUS
<1>3. Len(Path[t]) = k
  <2>1. Len(<<>>) = 0
    OBVIOUS
  <2> QED
    BY <2>1, PathFacts DEF ReorgLists
<1>4. Path[n][k] = t
  BY <1>3, PathFacts DEF ReorgLists
<1> HIDE DEF m
<1>5. Head(a) = b /\ k + 1 \in 1..m
  BY <1>1, <1>2
<1>6. /\ b \in Blocks /\ Len(Path[b]) = k + 1
      /\ \A j \in 1..(k + 1) : Path[b][j] = Path[n][j]
  BY <1>5, PathFacts DEF m
<1>7. b \in OnChain(n)
  BY <1>5 DEF OnChain, m
<1>8. b # Genesis
  BY <1>1, <1>6, PathFacts
<1>9. Parent(b) = t
  <2>1. Parent(b) = Path[b][k + 1 - 1] /\ k + 1 - 1 = k /\ k \in 1..(k + 1)
    BY <1>1, <1>6 DEF Parent
  <2> QED
    BY <1>4, <1>6, <2>1
<1>10. /\ Tail(a) \in Seq(Blocks) /\ Len(Tail(a)) = Len(a) - 1
       /\ \A i \in 1..Len(Tail(a)) : Tail(a)[i] = a[i + 1] /\ i + 1 \in 1..Len(a)
  BY <1>2
<1>11. \A i \in 1..Len(Tail(a)) : Tail(a)[i] = Path[n][k + 1 + i]
  <2> TAKE i \in 1..Len(Tail(a))
  <2>1. Tail(a)[i] = Path[n][k + (i + 1)] /\ k + (i + 1) = k + 1 + i
    BY <1>1, <1>10
  <2> QED
    BY <2>1
<1>12. Len(Tail(a)) = m - (k + 1)
  BY <1>1, <1>10
<1>13. Path[b][k + 1] = Path[n][k + 1] /\ k + 1 \in 1..Len(Path[b])
  BY <1>6
<1>14. Len(<<>>) = Len(Path[b]) - (k + 1)
  BY <1>6
<1> HIDE DEF b
<1>15. ReorgLists(b, n, k + 1, <<>>, Tail(a))
  BY <1>5, <1>11, <1>12, <1>13, <1>14 DEF ReorgLists, m
<1> QED
  BY <1>5, <1>7, <1>8, <1>9, <1>15

(***************************************************************************)
(* ... and when both are empty, n is the tip.                              *)
(***************************************************************************)
LEMMA ReorgEnds ==
    ASSUME NEW t \in Blocks, NEW n \in Blocks, NEW k \in Nat, ReorgLists(t, n, k, <<>>, <<>>)
    PROVE  t = n
<1>1. Len(<<>>) = 0
  OBVIOUS
<1>2. k = Len(Path[t]) /\ k = Len(Path[n]) /\ Path[t][k] = Path[n][k]
  BY <1>1, PathFacts DEF ReorgLists
<1>3. Path[t][Len(Path[t])] = t /\ Path[n][Len(Path[n])] = n
  BY PathFacts
<1> QED
  BY <1>2, <1>3

-----------------------------------------------------------------------------
(***************************************************************************)
(* What a step of a running process does to the stored chain: nothing, or  *)
(* connect a child of the best block that obeys the rules and has its row, *)
(* or take the best block back.                                            *)
(***************************************************************************)
StoreStep ==
    \/ UNCHANGED <<dbTip, dbMain, dbUtxo, dbJournal, tip>>
    \/ \E b \in Rows \ {Genesis} :
          /\ Parent(b) = dbTip
          /\ MayConnect(b, UtxoOf(dbTip))
          /\ ConnectTx(b)
    \/ dbTip # Genesis /\ DisconnectTx(dbTip)

(***************************************************************************)
(* A node of a clean index has its row.                                    *)
(***************************************************************************)
LEMMA CleanHasRow ==
    ASSUME IInv, dirty = {}
    PROVE  index \subseteq Rows
BY DEF IInv, TypeOK, NodeTypeOK, IndexInv, UnsavedIsDirty, Rows

(***************************************************************************)
(* The state of a running reorganize.                                      *)
(***************************************************************************)
LEMMA ReorgState ==
    ASSUME IInv, pc = "reorg"
    PROVE  /\ tip \in Blocks /\ cur \in Blocks
           /\ detachNodes \in Seq(Blocks) /\ attachNodes \in Seq(Blocks)
           /\ \E k \in Nat : ReorgLists(tip, cur, k, detachNodes, attachNodes)
<1>1. cur \in Blocks
  BY CurFacts
<1> QED
  BY <1>1 DEF IInv, TypeOK, NodeTypeOK, CallTypeOK, CallInv, HandInv

(***************************************************************************)
(* Every step of a running process is such a step.                         *)
(***************************************************************************)
LEMMA StoreStepOf == IInv /\ [Deliver \/ Step]_vars => StoreStep
<1> SUFFICES ASSUME IInv, [Deliver \/ Step]_vars PROVE StoreStep
  OBVIOUS
<1>1. ASSUME NEW b \in Blocks, NEW fast \in BOOLEAN, fast => b \in FastBlocks,
             ProcessBlock(b, fast)
      PROVE  StoreStep
  BY <1>1 DEF ProcessBlock, StoreStep, dbVars
<1>2. ASSUME NEW b \in Blocks, NEW expired \in 0..Len(orphans),
             ProcessOrphanBlock(b, expired)
      PROVE  StoreStep
  BY <1>2 DEF ProcessOrphanBlock, StoreStep, dbVars
<1>3. CASE RejectBlock
  BY <1>3 DEF RejectBlock, StoreStep, dbVars
<1>4. CASE FastExtend
  BY <1>4 DEF FastExtend, StoreStep, dbVars
<1>5. CASE SideChain
  BY <1>5 DEF SideChain, StoreStep, dbVars
<1>6. CASE ReorgChecked
  BY <1>6 DEF ReorgChecked, StoreStep, dbVars
<1>7. CASE BlockAccepted
  BY <1>7 DEF BlockAccepted, StoreStep, dbVars
<1>8. CASE AcceptOrphan
  BY <1>8 DEF AcceptOrphan, StoreStep, dbVars
<1>9. CASE NextHash
  BY <1>9 DEF NextHash, StoreStep, dbVars
<1>10. ASSUME NEW ok \in BOOLEAN, StoreBlock(ok)
      PROVE  StoreStep
  BY <1>10 DEF StoreBlock, StoreStep, dbVars
<1>11. ASSUME NEW ok \in BOOLEAN, AddNode(ok)
      PROVE  StoreStep
  BY <1>11 DEF AddNode, StoreStep, dbVars
<1>12. ASSUME NEW ok \in BOOLEAN, CheckExtend(ok)
      PROVE  StoreStep
  BY <1>12 DEF CheckExtend, StoreStep, dbVars
<1>13. ASSUME NEW ok \in BOOLEAN, ExtendChain(ok)
      PROVE  StoreStep
  <2>1. CASE UNCHANGED <<dbTip, dbMain, dbUtxo, dbJournal, tip>>
    BY <2>1 DEF StoreStep
  <2>2. CASE ConnectTx(cur)
    <3>1. cur \in Blocks /\ cur # Genesis
      BY <1>13, CurFacts DEF ExtendChain
    <3>2. cur \in index /\ Parent(cur) = tip /\ MayConnect(cur, UtxoOf(tip)) /\ tip = dbTip
      BY <1>13 DEF ExtendChain, IInv, CallInv, HandInv, StoreInv, StoreDescribesOneChain
    <3>3. cur \in Rows
      BY <1>13, <3>1, <3>2, CleanHasRow DEF ExtendChain
    <3> QED
      BY <2>2, <3>1, <3>2, <3>3 DEF StoreStep
  <2> QED
    BY <1>13, <2>1, <2>2 DEF ExtendChain
<1>14. ASSUME NEW ok \in BOOLEAN, MarkExtended(ok)
      PROVE  StoreStep
  BY <1>14 DEF MarkExtended, StoreStep, dbVars
<1>15. ASSUME NEW ok \in BOOLEAN, ReorgInvalidBranch(ok)
      PROVE  StoreStep
  BY <1>15 DEF ReorgInvalidBranch, StoreStep, dbVars
<1>16. ASSUME NEW ok \in BOOLEAN, ReorgRefused(ok)
      PROVE  StoreStep
  BY <1>16 DEF ReorgRefused, StoreStep, dbVars
<1>17. ASSUME NEW ok \in BOOLEAN, ReorgDetach(ok)
      PROVE  StoreStep
  <2>1. CASE UNCHANGED <<dbTip, dbMain, dbUtxo, dbJournal, tip>>
    BY <2>1 DEF StoreStep
  <2>2. CASE DisconnectTx(Head(detachNodes))
    <3>1. Head(detachNodes) = tip /\ tip # Genesis
      BY <1>17, ReorgState, DetachOne DEF ReorgDetach
    <3>2. tip = dbTip
      BY DEF IInv, StoreInv, StoreDescribesOneChain
    <3> QED
      BY <2>2, <3>1, <3>2 DEF StoreStep
  <2> QED
    BY <1>17, <2>1, <2>2 DEF ReorgDetach
<1>18. ASSUME NEW ok \in BOOLEAN, ReorgAttach(ok)
      PROVE  StoreStep
  <2>1. CASE UNCHANGED <<dbTip, dbMain, dbUtxo, dbJournal, tip>>
    BY <2>1 DEF StoreStep
  <2>2. CASE ConnectTx(Head(attachNodes))
    <3> DEFINE b == Head(attachNodes)
    <3>1. b \in OnChain(cur) \ {Genesis} /\ Parent(b) = tip
      BY <1>18, ReorgState, AttachOne DEF ReorgAttach
    <3>2. cur \in Blocks /\ ChainOK(cur) /\ OnChain(cur) \subseteq index
      BY <1>18, CurFacts DEF ReorgAttach, IInv, CallInv, HandInv, IndexInv
    <3>3. b \in Blocks /\ ChainOK(b)
      BY <3>1, <3>2, OnChainFacts, ChainOKAncestor
    <3>4. MayConnect(b, UtxoOf(tip)) /\ tip = dbTip
      BY <3>1, <3>3, ChainOKParent DEF IInv, StoreInv, StoreDescribesOneChain
    <3>5. b \in Rows
      BY <1>18, <3>1, <3>2, CleanHasRow DEF ReorgAttach
    <3> HIDE DEF b
    <3> QED
      BY <2>2, <3>1, <3>4, <3>5 DEF StoreStep, b
  <2> QED
    BY <1>18, <2>1, <2>2 DEF ReorgAttach
<1>19. ASSUME NEW ok \in BOOLEAN, ReorgDone(ok)
      PROVE  StoreStep
  BY <1>19 DEF ReorgDone, StoreStep, dbVars
<1>20. ASSUME NEW ok \in BOOLEAN, NEW again \in BOOLEAN, FlushBeforeUpdate(ok, again)
      PROVE  StoreStep
  BY <1>20 DEF FlushBeforeUpdate, StoreStep, dbVars
<1>21. CASE UNCHANGED vars
  BY <1>21 DEF vars, dbVars, StoreStep
<1> QED
  BY <1>1, <1>2, <1>3, <1>4, <1>5, <1>6, <1>7, <1>8, <1>9, <1>10, <1>11,
     <1>12, <1>13, <1>14, <1>15, <1>16, <1>17, <1>18, <1>19, <1>20, <1>21, ChainAssumption
  DEF Step, Deliver

(***************************************************************************)
(* A StoreStep leaves a database that describes one chain.                 *)
(***************************************************************************)
LEMMA StoreStepPreserves ==
    ASSUME IInv, StoreStep, Rows \subseteq Rows', dbBlocks \subseteq dbBlocks'
    PROVE  /\ StoreInv'
           /\ dbTip' \in Blocks /\ dbMain' \subseteq Blocks /\ dbUtxo' \subseteq Outs
           /\ dbJournal' \subseteq Blocks /\ tip' \in Blocks
<1> SUFFICES ASSUME TRUE
             PROVE  /\ dbTip' \in Rows
                    /\ ChainOK(dbTip')
                    /\ dbMain' = OnChain(dbTip')
                    /\ dbJournal' = OnChain(dbTip') \ {Genesis}
                    /\ dbUtxo' = UtxoOf(dbTip')
                    /\ OnChain(dbTip') \subseteq dbBlocks
                    /\ tip' = dbTip'
  <2>1. Rows \subseteq Blocks
    BY DEF Rows
  <2>2. UtxoOf(dbTip') \subseteq Outs
    BY DEF UtxoOf, AllCreates
  <2>3. \A b \in Blocks : OnChain(b) \subseteq Blocks
    BY OnChainFacts
  <2>4. ChainOK(dbTip') => (ChainOK(dbTip))'
    OBVIOUS
  <2>5. UtxoOf(dbTip') = (UtxoOf(dbTip))' /\ OnChain(dbTip') = (OnChain(dbTip))'
    OBVIOUS
  <2> QED
    BY <2>1, <2>2, <2>3, <2>4, <2>5 DEF StoreInv, StoreDescribesOneChain
<1>1. /\ dbTip \in Rows /\ dbTip \in Blocks /\ ChainOK(dbTip) /\ dbMain = OnChain(dbTip)
      /\ dbJournal = OnChain(dbTip) \ {Genesis} /\ dbUtxo = UtxoOf(dbTip)
      /\ OnChain(dbTip) \subseteq dbBlocks /\ tip = dbTip
  BY DEF IInv, StoreInv, StoreDescribesOneChain, TypeOK, DbTypeOK
<1>2. CASE UNCHANGED <<dbTip, dbMain, dbUtxo, dbJournal, tip>>
  BY <1>1, <1>2
<1>3. ASSUME NEW b \in Rows \ {Genesis}, Parent(b) = dbTip,
             MayConnect(b, UtxoOf(dbTip)), ConnectTx(b)
      PROVE  /\ dbTip' \in Rows
             /\ ChainOK(dbTip')
             /\ dbMain' = OnChain(dbTip')
             /\ dbJournal' = OnChain(dbTip') \ {Genesis}
             /\ dbUtxo' = UtxoOf(dbTip')
             /\ OnChain(dbTip') \subseteq dbBlocks
             /\ tip' = dbTip'
  <2>1. b \in Blocks /\ b # Genesis /\ b \in dbBlocks
    BY <1>3 DEF Rows, IInv, IndexInv, UnsavedIsDirty
  <2>2. OnChain(b) = OnChain(dbTip) \cup {b}
    BY <1>3, <2>1, OnChainParent
  <2>3. UtxoOf(b) = (UtxoOf(dbTip) \ Spends[b]) \cup Creates[b]
    BY <1>3, <2>1, UtxoConnect
  <2>4. ChainOK(b)
    BY <1>1, <1>3, <2>1, ChainOKParent
  <2> QED
    BY <1>1, <1>3, <2>1, <2>2, <2>3, <2>4 DEF ConnectTx
<1>4. CASE dbTip # Genesis /\ DisconnectTx(dbTip)
  <2> DEFINE p == Parent(dbTip)
  <2>1. p \in Blocks /\ OnChain(dbTip) = OnChain(p) \cup {dbTip} /\ dbTip \notin OnChain(p)
    BY <1>1, <1>4, OnChainParent, ParentFacts
  <2>2. UtxoOf(p) = (UtxoOf(dbTip) \ Creates[dbTip]) \cup Spends[dbTip]
    BY <1>1, <1>4, UtxoDisconnect
  <2>3. ChainOK(p)
    BY <1>1, <1>4, ChainOKParent
  <2>4. p \in Rows
    BY <1>1, <2>1, OnChainFacts DEF IInv, IndexInv
  <2> HIDE DEF p
  <2> QED
    BY <1>1, <1>4, <2>1, <2>2, <2>3, <2>4 DEF DisconnectTx, p
<1> QED
  BY <1>2, <1>3, <1>4 DEF StoreStep

-----------------------------------------------------------------------------
(***************************************************************************)
(* Stored blocks are blocks, and stay.                                     *)
(***************************************************************************)
LEMMA BlocksStep == IInv /\ [Next]_vars => dbBlocks \subseteq dbBlocks' /\ dbBlocks' \subseteq Blocks
<1> SUFFICES ASSUME IInv, [Next]_vars PROVE dbBlocks \subseteq dbBlocks' /\ dbBlocks' \subseteq Blocks
  OBVIOUS
<1> USE DEF IInv, TypeOK, DbTypeOK
<1>1. ASSUME NEW b \in Blocks, NEW fast \in BOOLEAN, fast => b \in FastBlocks,
             ProcessBlock(b, fast)
      PROVE  dbBlocks \subseteq dbBlocks' /\ dbBlocks' \subseteq Blocks
  BY <1>1 DEF ProcessBlock, dbVars
<1>2. ASSUME NEW b \in Blocks, NEW expired \in 0..Len(orphans),
             ProcessOrphanBlock(b, expired)
      PROVE  dbBlocks \subseteq dbBlocks' /\ dbBlocks' \subseteq Blocks
  BY <1>2 DEF ProcessOrphanBlock, dbVars
<1>3. CASE RejectBlock
  BY <1>3 DEF RejectBlock, dbVars
<1>4. CASE FastExtend
  BY <1>4 DEF FastExtend, dbVars
<1>5. CASE SideChain
  BY <1>5 DEF SideChain, dbVars
<1>6. CASE ReorgChecked
  BY <1>6 DEF ReorgChecked, dbVars
<1>7. CASE BlockAccepted
  BY <1>7 DEF BlockAccepted, dbVars
<1>8. CASE AcceptOrphan
  BY <1>8 DEF AcceptOrphan, dbVars
<1>9. CASE NextHash
  BY <1>9 DEF NextHash, dbVars
<1>10. ASSUME NEW ok \in BOOLEAN, StoreBlock(ok)
      PROVE  dbBlocks \subseteq dbBlocks' /\ dbBlocks' \subseteq Blocks
  <2>1. cur \in Blocks
    BY <1>10, CurFacts DEF StoreBlock, IInv
  <2> QED
    BY <1>10, <2>1 DEF StoreBlock
<1>11. ASSUME NEW ok \in BOOLEAN, AddNode(ok)
      PROVE  dbBlocks \subseteq dbBlocks' /\ dbBlocks' \subseteq Blocks
  BY <1>11 DEF AddNode, dbVars
<1>12. ASSUME NEW ok \in BOOLEAN, CheckExtend(ok)
      PROVE  dbBlocks \subseteq dbBlocks' /\ dbBlocks' \subseteq Blocks
  BY <1>12 DEF CheckExtend, dbVars
<1>13. ASSUME NEW ok \in BOOLEAN, ExtendChain(ok)
      PROVE  dbBlocks \subseteq dbBlocks' /\ dbBlocks' \subseteq Blocks
  BY <1>13 DEF ExtendChain, dbVars
<1>14. ASSUME NEW ok \in BOOLEAN, MarkExtended(ok)
      PROVE  dbBlocks \subseteq dbBlocks' /\ dbBlocks' \subseteq Blocks
  BY <1>14 DEF MarkExtended, dbVars
<1>15. ASSUME NEW ok \in BOOLEAN, ReorgInvalidBranch(ok)
      PROVE  dbBlocks \subseteq dbBlocks' /\ dbBlocks' \subseteq Blocks
  BY <1>15 DEF ReorgInvalidBranch, dbVars
<1>16. ASSUME NEW ok \in BOOLEAN, ReorgRefused(ok)
      PROVE  dbBlocks \subseteq dbBlocks' /\ dbBlocks' \subseteq Blocks
  BY <1>16 DEF ReorgRefused, dbVars
<1>17. ASSUME NEW ok \in BOOLEAN, ReorgDetach(ok)
      PROVE  dbBlocks \subseteq dbBlocks' /\ dbBlocks' \subseteq Blocks
  BY <1>17 DEF ReorgDetach, dbVars
<1>18. ASSUME NEW ok \in BOOLEAN, ReorgAttach(ok)
      PROVE  dbBlocks \subseteq dbBlocks' /\ dbBlocks' \subseteq Blocks
  BY <1>18 DEF ReorgAttach, dbVars
<1>19. ASSUME NEW ok \in BOOLEAN, ReorgDone(ok)
      PROVE  dbBlocks \subseteq dbBlocks' /\ dbBlocks' \subseteq Blocks
  BY <1>19 DEF ReorgDone, dbVars
<1>20. ASSUME NEW ok \in BOOLEAN, NEW again \in BOOLEAN, FlushBeforeUpdate(ok, again)
      PROVE  dbBlocks \subseteq dbBlocks' /\ dbBlocks' \subseteq Blocks
  BY <1>20 DEF FlushBeforeUpdate, dbVars
<1>21. CASE CrashAndRestart
  BY <1>21 DEF CrashAndRestart, dbVars
<1>22. CASE UNCHANGED vars
  BY <1>22 DEF vars, dbVars
<1>23. CASE CheckConnectBlockTemplate
  BY <1>23 DEF CheckConnectBlockTemplate, dbVars
<1> QED
  BY <1>1, <1>2, <1>3, <1>4, <1>5, <1>6, <1>7, <1>8, <1>9, <1>10, <1>11,
     <1>12, <1>13, <1>14, <1>15, <1>16, <1>17, <1>18, <1>19, <1>20, <1>21, <1>22, <1>23, ChainAssumption
  DEF Next, Step, Deliver

(***************************************************************************)
(* The chain of a block above the genesis block has one right above it.    *)
(***************************************************************************)
LEMMA SecondBlock ==
    ASSUME NEW c \in Blocks, c # Genesis
    PROVE  \E d \in OnChain(c) : d # Genesis /\ Parent(d) = Genesis
<1>1. Len(Path[c]) \in Nat /\ Len(Path[c]) > 1 /\ Path[c] \in Seq(Blocks)
  BY PathAssumption
<1>2. PICK d : d = Path[c][2]
  OBVIOUS
<1>3. d \in OnChain(c) /\ d \in Blocks
  BY <1>1, <1>2 DEF OnChain
<1>4. 2 \in 1..Len(Path[c]) /\ Path[c][1] = Genesis
  BY <1>1, PathAssumption
<1>5. Len(Path[d]) = 2 /\ Path[d][1] = Genesis
  <2>1. Path[Path[c][2]] = SubSeq(Path[c], 1, 2)
    BY <1>4, PathAssumption
  <2>2. Len(SubSeq(Path[c], 1, 2)) = 2 /\ SubSeq(Path[c], 1, 2)[1] = Path[c][1]
    BY <1>1
  <2> QED
    BY <1>2, <1>4, <2>1, <2>2
<1>6. d # Genesis
  <2>1. Len(Path[Genesis]) = 1
    BY PathAssumption
  <2> QED
    BY <1>5, <2>1
<1>7. Parent(d) = Path[d][2 - 1]
  BY <1>5 DEF Parent
<1> QED
  BY <1>3, <1>5, <1>6, <1>7

(***************************************************************************)
(* What TypeOK says of the work sums.                                      *)
(***************************************************************************)
SumsOK ==
    /\ workSum \in [Blocks -> Nat]
    /\ index # {Genesis} => \A b \in index : workSum[b] # 0

(***************************************************************************)
(* Work sums are numbers, and nil at most for a genesis block on its own.  *)
(***************************************************************************)
LEMMA WorkSumStep == IInv /\ [Next]_vars => SumsOK'
<1> SUFFICES ASSUME IInv, [Next]_vars PROVE SumsOK'
  OBVIOUS
<1> USE DEF IInv, TypeOK, NodeTypeOK, SumsOK
<1>1. ASSUME NEW b \in Blocks, NEW fast \in BOOLEAN, fast => b \in FastBlocks,
             ProcessBlock(b, fast)
      PROVE  SumsOK'
  BY <1>1 DEF ProcessBlock, nodeVars
<1>2. ASSUME NEW b \in Blocks, NEW expired \in 0..Len(orphans),
             ProcessOrphanBlock(b, expired)
      PROVE  SumsOK'
  BY <1>2 DEF ProcessOrphanBlock, nodeVars
<1>3. CASE RejectBlock
  BY <1>3 DEF RejectBlock, nodeVars
<1>4. CASE FastExtend
  BY <1>4 DEF FastExtend, nodeVars
<1>5. CASE SideChain
  <2>1. cur \in Blocks
    BY <1>5, CurFacts DEF SideChain, IInv
  <2>2. workSum' = [workSum EXCEPT ![cur] = Work[cur]] /\ index' = index
    BY <1>5 DEF SideChain
  <2>3. Work[cur] \in Nat \ {0}
    BY <2>1, WorkAssumption
  <2> QED
    BY <2>2, <2>3
<1>6. CASE ReorgChecked
  <2>1. cur \in Blocks
    BY <1>6, CurFacts DEF ReorgChecked, BeginReorg, IInv
  <2>2. workSum' = [workSum EXCEPT ![cur] = Work[cur]] /\ index' = index
    BY <1>6 DEF ReorgChecked, BeginReorg
  <2>3. Work[cur] \in Nat \ {0}
    BY <2>1, WorkAssumption
  <2> QED
    BY <2>2, <2>3
<1>7. CASE BlockAccepted
  BY <1>7 DEF BlockAccepted, nodeVars
<1>8. CASE AcceptOrphan
  BY <1>8 DEF AcceptOrphan, nodeVars
<1>9. CASE NextHash
  BY <1>9 DEF NextHash, nodeVars
<1>10. ASSUME NEW ok \in BOOLEAN, StoreBlock(ok)
      PROVE  SumsOK'
  BY <1>10 DEF StoreBlock, nodeVars
<1>11. ASSUME NEW ok \in BOOLEAN, AddNode(ok)
      PROVE  SumsOK'
  <2>1. cur \in Blocks /\ Parent(cur) \in Blocks
    BY <1>11, CurFacts DEF AddNode, IInv
  <2>2. Work[cur] \in Nat \ {0} /\ Work[Parent(cur)] \in Nat \ {0}
    BY <2>1, WorkAssumption
  <2>3. workSum' = initBlockNode(workSum, cur) /\ index' = index \cup {cur}
    BY <1>11 DEF AddNode
  <2>4. Work[Parent(cur)] + Work[cur] \in Nat \ {0}
    BY <2>2
  <2>5. workSum' \in [Blocks -> Nat]
    BY <2>2, <2>3, <2>4 DEF initBlockNode
  <2>6. Parent(cur) \in index
    BY <1>11 DEF AddNode, CallInv, HandInv
  <2>7. ASSUME NEW b \in index' PROVE workSum'[b] # 0
    <3>1. CASE b \in {cur, Parent(cur)}
      BY <2>1, <2>2, <2>3, <2>4, <3>1 DEF initBlockNode
    <3>2. CASE b \notin {cur, Parent(cur)}
      <4>1. b \in index /\ workSum'[b] = workSum[b]
        BY <2>3, <3>2 DEF initBlockNode
      <4>2. index # {Genesis}
        BY <2>6, <3>2, <4>1
      <4> QED
        BY <4>1, <4>2
    <3> QED
      BY <3>1, <3>2
  <2> QED
    BY <2>5, <2>7
<1>12. ASSUME NEW ok \in BOOLEAN, CheckExtend(ok)
      PROVE  SumsOK'
  BY <1>12 DEF CheckExtend, nodeVars
<1>13. ASSUME NEW ok \in BOOLEAN, ExtendChain(ok)
      PROVE  SumsOK'
  BY <1>13 DEF ExtendChain, nodeVars
<1>14. ASSUME NEW ok \in BOOLEAN, MarkExtended(ok)
      PROVE  SumsOK'
  BY <1>14 DEF MarkExtended, nodeVars
<1>15. ASSUME NEW ok \in BOOLEAN, ReorgInvalidBranch(ok)
      PROVE  SumsOK'
  <2>1. cur \in Blocks
    BY <1>15, CurFacts DEF ReorgInvalidBranch, IInv
  <2>2. workSum' = [workSum EXCEPT ![cur] = Work[cur]] /\ index' = index
    BY <1>15 DEF ReorgInvalidBranch
  <2>3. Work[cur] \in Nat \ {0}
    BY <2>1, WorkAssumption
  <2> QED
    BY <2>2, <2>3
<1>16. ASSUME NEW ok \in BOOLEAN, ReorgRefused(ok)
      PROVE  SumsOK'
  <2>1. cur \in Blocks
    BY <1>16, CurFacts DEF ReorgRefused, BeginReorg, IInv
  <2>2. workSum' = [workSum EXCEPT ![cur] = Work[cur]] /\ index' = index
    BY <1>16 DEF ReorgRefused, BeginReorg
  <2>3. Work[cur] \in Nat \ {0}
    BY <2>1, WorkAssumption
  <2> QED
    BY <2>2, <2>3
<1>17. ASSUME NEW ok \in BOOLEAN, ReorgDetach(ok)
      PROVE  SumsOK'
  BY <1>17 DEF ReorgDetach, nodeVars
<1>18. ASSUME NEW ok \in BOOLEAN, ReorgAttach(ok)
      PROVE  SumsOK'
  BY <1>18 DEF ReorgAttach, nodeVars
<1>19. ASSUME NEW ok \in BOOLEAN, ReorgDone(ok)
      PROVE  SumsOK'
  BY <1>19 DEF ReorgDone, nodeVars
<1>20. ASSUME NEW ok \in BOOLEAN, NEW again \in BOOLEAN, FlushBeforeUpdate(ok, again)
      PROVE  SumsOK'
  BY <1>20 DEF FlushBeforeUpdate, nodeVars
<1>21. CASE CrashAndRestart
  <2>1. \A b \in Blocks : Work[b] \in Nat
    BY WorkAssumption
  <2>2. \A b \in Rows \ {Genesis} : b \in Blocks /\ Parent(b) \in Blocks
    BY ParentFacts DEF Rows
  <2>3. \A b \in Blocks :
            IF \E c \in Rows \ {Genesis} : Parent(c) = b THEN Work[b] \in Nat
            ELSE IF b \in Rows \ {Genesis} THEN Work[Parent(b)] + Work[b] \in Nat
            ELSE 0 \in Nat
    <3> TAKE b \in Blocks
    <3>1. b \in Rows \ {Genesis} => Work[Parent(b)] + Work[b] \in Nat
      BY <2>1, <2>2
    <3> QED
      BY <2>1, <3>1
  <2>4. workSum' = [b \in Blocks |->
                     IF \E c \in Rows \ {Genesis} : Parent(c) = b THEN Work[b]
                     ELSE IF b \in Rows \ {Genesis} THEN Work[Parent(b)] + Work[b]
                     ELSE 0]
    BY <1>21 DEF CrashAndRestart
  <2>5. workSum' \in [Blocks -> Nat]
    BY <2>3, <2>4
  <2>6. ASSUME NEW b \in Rows, Rows # {Genesis} PROVE workSum'[b] # 0
    <3>1. b \in Blocks /\ Work[b] \in Nat \ {0}
      BY WorkAssumption DEF Rows
    <3>2. CASE b # Genesis
      <4>1. Work[Parent(b)] + Work[b] # 0
        BY <2>1, <2>2, <3>1, <3>2
      <4> QED
        BY <2>4, <3>1, <3>2, <4>1
    <3>3. CASE b = Genesis
      <4>1. PICK c \in Rows : c # Genesis
        BY <2>6 DEF IndexInv
      <4>2. c \in Blocks
        BY DEF Rows
      <4>3. PICK d \in OnChain(c) : d # Genesis /\ Parent(d) = Genesis
        BY <4>1, <4>2, SecondBlock
      <4>4. d \in Rows
        BY <4>1, <4>3 DEF IndexInv
      <4> QED
        BY <2>4, <3>1, <3>3, <4>3, <4>4
    <3> QED
      BY <3>2, <3>3
  <2>7. index' = Rows
    BY <1>21 DEF CrashAndRestart
  <2> QED
    BY <2>5, <2>6, <2>7
<1>22. CASE UNCHANGED vars
  BY <1>22 DEF vars, nodeVars
<1>23. CASE CheckConnectBlockTemplate
  <2>1. tip \in Blocks /\ Work[tip] \in Nat \ {0}
    BY WorkAssumption
  <2> QED
    BY <1>23, <2>1 DEF CheckConnectBlockTemplate
<1> QED
  BY <1>1, <1>2, <1>3, <1>4, <1>5, <1>6, <1>7, <1>8, <1>9, <1>10, <1>11,
     <1>12, <1>13, <1>14, <1>15, <1>16, <1>17, <1>18, <1>19, <1>20, <1>21, <1>22, <1>23, ChainAssumption
  DEF Next, Step, Deliver

(***************************************************************************)
(* The pool holds blocks, never the genesis block, which is not sane.      *)
(***************************************************************************)
LEMMA PoolStep == IInv /\ [Next]_vars => PoolTypeOK' /\ \A i \in 1..Len(orphans') : orphans'[i] # Genesis
<1> SUFFICES ASSUME IInv, [Next]_vars PROVE PoolTypeOK' /\ \A i \in 1..Len(orphans') : orphans'[i] # Genesis
  OBVIOUS
<1> USE DEF IInv, TypeOK, PoolTypeOK, CallInv
<1>1. ASSUME NEW b \in Blocks, NEW fast \in BOOLEAN, fast => b \in FastBlocks,
             ProcessBlock(b, fast)
      PROVE  PoolTypeOK' /\ \A i \in 1..Len(orphans') : orphans'[i] # Genesis
  BY <1>1 DEF ProcessBlock, orphanVars
<1>2. ASSUME NEW b \in Blocks, NEW expired \in 0..Len(orphans),
             ProcessOrphanBlock(b, expired)
      PROVE  PoolTypeOK' /\ \A i \in 1..Len(orphans') : orphans'[i] # Genesis
  <2>1. b # Genesis
    BY <1>2, ChainAssumption DEF ProcessOrphanBlock
  <2>2. addOrphanBlock(b, expired)
    BY <1>2 DEF ProcessOrphanBlock
  <2> QED
    BY <2>1, <2>2, AddOrphanFacts
<1>3. CASE RejectBlock
  BY <1>3 DEF RejectBlock, orphanVars
<1>4. CASE FastExtend
  BY <1>4 DEF FastExtend, orphanVars
<1>5. CASE SideChain
  BY <1>5 DEF SideChain, orphanVars
<1>6. CASE ReorgChecked
  BY <1>6 DEF ReorgChecked, orphanVars
<1>7. CASE BlockAccepted
  BY <1>7 DEF BlockAccepted, orphanVars
<1>8. CASE AcceptOrphan
  <2>1. PICK b : orphans' = removeOrphanBlock(orphans, b)
    BY <1>8 DEF AcceptOrphan
  <2>2. oldestOrphan' = oldestOrphan
    BY <1>8 DEF AcceptOrphan
  <2> QED
    BY <2>1, <2>2, RemoveOrphanFacts
<1>9. CASE NextHash
  BY <1>9 DEF NextHash, orphanVars
<1>10. ASSUME NEW ok \in BOOLEAN, StoreBlock(ok)
      PROVE  PoolTypeOK' /\ \A i \in 1..Len(orphans') : orphans'[i] # Genesis
  BY <1>10 DEF StoreBlock, orphanVars
<1>11. ASSUME NEW ok \in BOOLEAN, AddNode(ok)
      PROVE  PoolTypeOK' /\ \A i \in 1..Len(orphans') : orphans'[i] # Genesis
  BY <1>11 DEF AddNode, orphanVars
<1>12. ASSUME NEW ok \in BOOLEAN, CheckExtend(ok)
      PROVE  PoolTypeOK' /\ \A i \in 1..Len(orphans') : orphans'[i] # Genesis
  BY <1>12 DEF CheckExtend, orphanVars
<1>13. ASSUME NEW ok \in BOOLEAN, ExtendChain(ok)
      PROVE  PoolTypeOK' /\ \A i \in 1..Len(orphans') : orphans'[i] # Genesis
  BY <1>13 DEF ExtendChain, orphanVars
<1>14. ASSUME NEW ok \in BOOLEAN, MarkExtended(ok)
      PROVE  PoolTypeOK' /\ \A i \in 1..Len(orphans') : orphans'[i] # Genesis
  BY <1>14 DEF MarkExtended, orphanVars
<1>15. ASSUME NEW ok \in BOOLEAN, ReorgInvalidBranch(ok)
      PROVE  PoolTypeOK' /\ \A i \in 1..Len(orphans') : orphans'[i] # Genesis
  BY <1>15 DEF ReorgInvalidBranch, orphanVars
<1>16. ASSUME NEW ok \in BOOLEAN, ReorgRefused(ok)
      PROVE  PoolTypeOK' /\ \A i \in 1..Len(orphans') : orphans'[i] # Genesis
  BY <1>16 DEF ReorgRefused, orphanVars
<1>17. ASSUME NEW ok \in BOOLEAN, ReorgDetach(ok)
      PROVE  PoolTypeOK' /\ \A i \in 1..Len(orphans') : orphans'[i] # Genesis
  BY <1>17 DEF ReorgDetach, orphanVars
<1>18. ASSUME NEW ok \in BOOLEAN, ReorgAttach(ok)
      PROVE  PoolTypeOK' /\ \A i \in 1..Len(orphans') : orphans'[i] # Genesis
  BY <1>18 DEF ReorgAttach, orphanVars
<1>19. ASSUME NEW ok \in BOOLEAN, ReorgDone(ok)
      PROVE  PoolTypeOK' /\ \A i \in 1..Len(orphans') : orphans'[i] # Genesis
  BY <1>19 DEF ReorgDone, orphanVars
<1>20. ASSUME NEW ok \in BOOLEAN, NEW again \in BOOLEAN, FlushBeforeUpdate(ok, again)
      PROVE  PoolTypeOK' /\ \A i \in 1..Len(orphans') : orphans'[i] # Genesis
  BY <1>20 DEF FlushBeforeUpdate, orphanVars
<1>21. CASE CrashAndRestart
  BY <1>21 DEF CrashAndRestart
<1>22. CASE UNCHANGED vars
  BY <1>22 DEF vars, orphanVars
<1>23. CASE CheckConnectBlockTemplate
  BY <1>23 DEF CheckConnectBlockTemplate, orphanVars
<1> QED
  BY <1>1, <1>2, <1>3, <1>4, <1>5, <1>6, <1>7, <1>8, <1>9, <1>10, <1>11,
     <1>12, <1>13, <1>14, <1>15, <1>16, <1>17, <1>18, <1>19, <1>20, <1>21, <1>22, <1>23, ChainAssumption
  DEF Next, Step, Deliver

-----------------------------------------------------------------------------
(***************************************************************************)
(* The end of a call, and the return of connectBestChain, keep what holds  *)
(* of the block at hand.                                                   *)
(***************************************************************************)
LEMMA ReturnHand == Return => HandInv' /\ ListInv' /\ AcceptedIsTip'
BY DEF Return, HandInv, ListInv, AcceptedIsTip

(***************************************************************************)
(* connectBestChain leaves the block at hand in the index when it returns. *)
(***************************************************************************)
LEMMA ConnectedHand ==
    ASSUME IInv, pc \in {"connect", "extended", "reorg"}, index \subseteq index',
           NEW main \in BOOLEAN, Connected(main)
    PROVE  HandInv' /\ ListInv'
<1>1. /\ pc' = "accepted" /\ UNCHANGED <<cur, fastAdd, processHashes>>
  BY DEF Connected
<1>2. HandInv'
  BY <1>1 DEF IInv, CallInv, HandInv
<1>3. ListInv'
  BY <1>1 DEF IInv, CallInv, ListInv
<1> QED
  BY <1>2, <1>3

(***************************************************************************)
(* The index never loses a node while the process runs.                    *)
(***************************************************************************)
LEMMA IndexGrows == IInv /\ [Deliver \/ Step]_vars => index \subseteq index'
BY NodeStepOf DEF NodeStep

(***************************************************************************)
(* Every step of a running process keeps what holds of the block at hand.  *)
(***************************************************************************)
LEMMA HandStep == IInv /\ [Deliver \/ Step]_vars => HandInv'
<1> SUFFICES ASSUME IInv, [Deliver \/ Step]_vars PROVE HandInv'
  OBVIOUS
<1>0. index \subseteq index'
  BY IndexGrows
<1> USE DEF IInv, CallInv
<1>1. ASSUME NEW b \in Blocks, NEW fast \in BOOLEAN, fast => b \in FastBlocks,
             ProcessBlock(b, fast)
      PROVE  HandInv'
  <2>1. b # Genesis
    BY <1>1, ChainAssumption DEF ProcessBlock
  <2>2. b \in FastBlocks => Trusted(b)
    BY OnChainFacts DEF Trusted
  <2>3. /\ pc' = "accept" /\ cur' = b /\ Parent(b) \in index' /\ fastAdd' = fast
    BY <1>1 DEF ProcessBlock, nodeVars
  <2> QED
    BY <1>1, <2>1, <2>2, <2>3 DEF HandInv
<1>2. ASSUME NEW b \in Blocks, NEW expired \in 0..Len(orphans),
             ProcessOrphanBlock(b, expired)
      PROVE  HandInv'
  BY <1>2 DEF ProcessOrphanBlock, callVars, HandInv
<1>3. CASE RejectBlock
  BY <1>3, ReturnHand DEF RejectBlock
<1>4. CASE FastExtend
  <2>1. CASE Return
    BY <2>1, ReturnHand
  <2>2. CASE Spends[cur] \subseteq dbUtxo /\ pc' = "extend" /\ UNCHANGED callVars
    <3>1. MayConnect(cur, UtxoOf(tip))
      BY <1>4, <2>2 DEF FastExtend, MayConnect, HandInv, StoreInv, StoreDescribesOneChain
    <3>2. UNCHANGED <<tip, index>> /\ pc = "connect" /\ Parent(cur) = tip
      BY <1>4 DEF FastExtend, nodeVars
    <3> QED
      BY <2>2, <3>1, <3>2 DEF HandInv, callVars
  <2> QED
    BY <1>4, <2>1, <2>2 DEF FastExtend
<1>5. CASE SideChain
  BY <1>5, <1>0, ConnectedHand DEF SideChain
<1>6. CASE ReorgChecked
  <2> DEFINE a == AttachNodes(cur)
  <2>1. cur \in Blocks /\ tip \in Blocks /\ ChainOK(tip)
    BY <1>6, CurFacts DEF ReorgChecked, BeginReorg, IInv, StoreInv, StoreDescribesOneChain,
                        TypeOK, NodeTypeOK
  <2>2. a \in Seq(Blocks) /\ Len(a) \in Nat
    BY <2>1, ReorgListsFacts
  <2>3. \A i \in 1..Len(a) : ~AttachFails(DetachNodes(cur), a, i)
    BY <1>6 DEF ReorgChecked
  <2>4. ChainOK(cur)
    <3>1. CASE Len(a) = 0
      <4>1. FindFork(tip, cur) = Len(Path[cur])
        BY <2>1, <3>1, ReorgListsFacts, PathFacts DEF ReorgLists
      <4>2. cur \in OnChain(tip)
        <5>1. /\ Path[cur][Len(Path[cur])] = cur
              /\ Len(Path[cur]) \in 1..Len(Path[tip])
              /\ Path[tip][Len(Path[cur])] = Path[cur][Len(Path[cur])]
          BY <2>1, <4>1, FindForkFacts, PathFacts
        <5> QED
          BY <5>1 DEF OnChain
      <4> QED
        BY <2>1, <4>2, ChainOKAncestor
    <3>2. CASE Len(a) # 0
      <4>1. Len(a) \in 1..Len(a) /\ \A j \in 1..Len(a) : j \in 1..Len(a)
        BY <2>2, <3>2
      <4>2. ChainOK(a[Len(a)]) /\ a[Len(a)] = cur
        BY <2>1, <2>3, <4>1, AttachFacts, PassedIsValid
      <4> QED
        BY <4>2
    <3> QED
      BY <3>1, <3>2
  <2>5. \E k \in Nat : ReorgLists(tip, cur, k, DetachNodes(cur), a)
    BY <2>1, ReorgListsFacts
  <2>6. /\ pc = "connect" /\ pc' = "reorg" /\ UNCHANGED <<index, tip, cur, fastAdd>>
        /\ attachNodes' = a /\ detachNodes' = DetachNodes(cur)
    BY <1>6 DEF ReorgChecked, BeginReorg
  <2> HIDE DEF a
  <2> QED
    BY <2>4, <2>5, <2>6 DEF HandInv
<1>7. CASE BlockAccepted
  BY <1>7 DEF BlockAccepted, HandInv
<1>8. CASE AcceptOrphan
  <2>1. PICK i \in 1..Len(orphans) : Parent(orphans[i]) = Head(processHashes) /\ cur' = orphans[i]
    BY <1>8 DEF AcceptOrphan
  <2>2. cur' \in Blocks /\ cur' # Genesis /\ Parent(cur') = Head(processHashes)
    BY <2>1 DEF TypeOK, PoolTypeOK
  <2>3. Head(processHashes) \in index /\ (fastAdd => Trusted(Head(processHashes)))
    <3>1. processHashes \in Seq(Blocks) /\ processHashes # <<>>
      BY <1>8 DEF AcceptOrphan, TypeOK, CallTypeOK
    <3>2. Head(processHashes) = processHashes[1] /\ 1 \in 1..Len(processHashes)
      BY <3>1
    <3> QED
      BY <3>2 DEF ListInv
  <2>4. fastAdd => Trusted(cur')
    BY <2>2, <2>3, OnChainParent DEF Trusted
  <2>5. pc' = "accept" /\ UNCHANGED <<index, fastAdd>>
    BY <1>8 DEF AcceptOrphan, nodeVars
  <2> QED
    BY <2>2, <2>3, <2>4, <2>5 DEF HandInv
<1>9. CASE NextHash
  <2>1. CASE Return
    BY <2>1, ReturnHand
  <2>2. CASE UNCHANGED pc
    BY <1>9, <2>2 DEF NextHash, HandInv
  <2> QED
    BY <1>9, <2>1, <2>2 DEF NextHash
<1>10. ASSUME NEW ok \in BOOLEAN, StoreBlock(ok)
      PROVE  HandInv'
  <2>1. CASE Return
    BY <2>1, ReturnHand
  <2>2. CASE dbBlocks' = dbBlocks \cup {cur} /\ pc' = "addnode" /\ UNCHANGED callVars
    BY <1>10, <2>2 DEF StoreBlock, HandInv, callVars, nodeVars
  <2> QED
    BY <1>10, <2>1, <2>2 DEF StoreBlock
<1>11. ASSUME NEW ok \in BOOLEAN, AddNode(ok)
      PROVE  HandInv'
  <2>1. CASE Return
    BY <2>1, ReturnHand
  <2>2. CASE pc' = "connect" /\ UNCHANGED callVars
    BY <1>11, <2>2 DEF AddNode, HandInv, callVars
  <2> QED
    BY <1>11, <2>1, <2>2 DEF AddNode
<1>12. ASSUME NEW ok \in BOOLEAN, CheckExtend(ok)
      PROVE  HandInv'
  <2>1. CASE Return
    BY <2>1, ReturnHand
  <2>2. CASE checkConnectBlock(cur, dbUtxo) /\ pc' = "extend" /\ UNCHANGED callVars
    <3>1. MayConnect(cur, UtxoOf(tip))
      BY <2>2, CheckedMayConnect DEF StoreInv, StoreDescribesOneChain
    <3>2. UNCHANGED <<tip, index>> /\ pc = "connect" /\ Parent(cur) = tip
      BY <1>12 DEF CheckExtend
    <3> QED
      BY <2>2, <3>1, <3>2 DEF HandInv, callVars
  <2> QED
    BY <1>12, <2>1, <2>2 DEF CheckExtend
<1>13. ASSUME NEW ok \in BOOLEAN, ExtendChain(ok)
      PROVE  HandInv'
  <2>1. CASE Return
    BY <2>1, ReturnHand
  <2>2. CASE ConnectTx(cur) /\ pc' = "extended" /\ UNCHANGED callVars
    BY <1>13, <2>2 DEF ExtendChain, ConnectTx, HandInv, callVars, nodeVars
  <2> QED
    BY <1>13, <2>1, <2>2 DEF ExtendChain
<1>14. ASSUME NEW ok \in BOOLEAN, MarkExtended(ok)
      PROVE  HandInv'
  BY <1>14, <1>0, ConnectedHand DEF MarkExtended
<1>15. ASSUME NEW ok \in BOOLEAN, ReorgInvalidBranch(ok)
      PROVE  HandInv'
  BY <1>15, <1>0, ConnectedHand DEF ReorgInvalidBranch
<1>16. ASSUME NEW ok \in BOOLEAN, ReorgRefused(ok)
      PROVE  HandInv'
  BY <1>16, ReturnHand DEF ReorgRefused
<1>17. ASSUME NEW ok \in BOOLEAN, ReorgDetach(ok)
      PROVE  HandInv'
  <2>1. CASE Return
    BY <2>1, ReturnHand
  <2>2. CASE /\ DisconnectTx(Head(detachNodes)) /\ detachNodes' = Tail(detachNodes)
             /\ UNCHANGED <<pc, cur, fastAdd, attachNodes, isMainChain, processHashes>>
    <3>1. PICK k \in Nat : ReorgLists(tip, cur, k, detachNodes, attachNodes)
      BY <1>17, ReorgState DEF ReorgDetach
    <3>2. Head(detachNodes) = tip /\ ReorgLists(Parent(tip), cur, k, Tail(detachNodes), attachNodes)
      BY <1>17, <3>1, ReorgState, DetachOne DEF ReorgDetach
    <3>3. tip' = Parent(tip) /\ index' = index /\ pc = "reorg"
      BY <1>17, <2>2, <3>2 DEF ReorgDetach, DisconnectTx, nodeVars
    <3>4. ReorgLists(tip, cur, k, detachNodes, attachNodes)'
      BY <2>2, <3>2, <3>3 DEF ReorgLists
    <3> QED
      BY <2>2, <3>3, <3>4 DEF HandInv
  <2> QED
    BY <1>17, <2>1, <2>2 DEF ReorgDetach
<1>18. ASSUME NEW ok \in BOOLEAN, ReorgAttach(ok)
      PROVE  HandInv'
  <2>1. CASE Return
    BY <2>1, ReturnHand
  <2>2. CASE /\ ConnectTx(Head(attachNodes)) /\ attachNodes' = Tail(attachNodes)
             /\ UNCHANGED <<pc, cur, fastAdd, detachNodes, isMainChain, processHashes>>
    <3>1. PICK k \in Nat : ReorgLists(tip, cur, k, <<>>, attachNodes)
      BY <1>18, ReorgState DEF ReorgAttach
    <3>2. ReorgLists(Head(attachNodes), cur, k + 1, <<>>, Tail(attachNodes))
      BY <1>18, <3>1, ReorgState, AttachOne DEF ReorgAttach
    <3>3. /\ tip' = Head(attachNodes) /\ index' = index /\ pc = "reorg"
          /\ detachNodes' = <<>>
      BY <1>18, <2>2 DEF ReorgAttach, ConnectTx, nodeVars
    <3>4. ReorgLists(tip', cur', k + 1, detachNodes', attachNodes') /\ k + 1 \in Nat
      BY <2>2, <3>2, <3>3
    <3>5. \E m \in Nat : ReorgLists(tip', cur', m, detachNodes', attachNodes')
      BY <3>4
    <3>6. (\E m \in Nat : ReorgLists(tip, cur, m, detachNodes, attachNodes))'
      BY <3>5
    <3> QED
      BY <2>2, <3>3, <3>6 DEF HandInv
  <2> QED
    BY <1>18, <2>1, <2>2 DEF ReorgAttach
<1>19. ASSUME NEW ok \in BOOLEAN, ReorgDone(ok)
      PROVE  HandInv'
  BY <1>19, <1>0, ConnectedHand DEF ReorgDone
<1>20. ASSUME NEW ok \in BOOLEAN, NEW again \in BOOLEAN, FlushBeforeUpdate(ok, again)
      PROVE  HandInv'
  <2>1. CASE Return
    BY <2>1, ReturnHand
  <2>2. CASE UNCHANGED <<pc, callVars>>
    <3>1. UNCHANGED <<pc, cur, fastAdd, tip, index, dbBlocks, detachNodes, attachNodes>>
      BY <1>20, <2>2 DEF FlushBeforeUpdate, callVars
    <3> QED
      BY <3>1 DEF HandInv, ReorgLists
  <2> QED
    BY <1>20, <2>1, <2>2 DEF FlushBeforeUpdate
<1>21. CASE UNCHANGED vars
  <2>1. UNCHANGED <<pc, cur, fastAdd, tip, index, dbBlocks, detachNodes, attachNodes>>
    BY <1>21 DEF vars, dbVars, nodeVars, callVars
  <2> QED
    BY <2>1 DEF HandInv, ReorgLists
<1> QED
  BY <1>1, <1>2, <1>3, <1>4, <1>5, <1>6, <1>7, <1>8, <1>9, <1>10, <1>11,
     <1>12, <1>13, <1>14, <1>15, <1>16, <1>17, <1>18, <1>19, <1>20, <1>21, ChainAssumption
  DEF Step, Deliver

(***************************************************************************)
(* ... and of the work list.                                               *)
(***************************************************************************)
LEMMA ListStep == IInv /\ [Deliver \/ Step]_vars => ListInv'
<1> SUFFICES ASSUME IInv, [Deliver \/ Step]_vars PROVE ListInv'
  OBVIOUS
<1>0. index \subseteq index'
  BY IndexGrows
<1> USE DEF IInv, CallInv
<1>1. ASSUME NEW b \in Blocks, NEW fast \in BOOLEAN, fast => b \in FastBlocks,
             ProcessBlock(b, fast)
      PROVE  ListInv'
  <2>1. processHashes' = <<>>
    BY <1>1 DEF ProcessBlock, ListInv
  <2> QED
    BY <1>1, <2>1 DEF ProcessBlock, ListInv
<1>2. ASSUME NEW b \in Blocks, NEW expired \in 0..Len(orphans),
             ProcessOrphanBlock(b, expired)
      PROVE  ListInv'
  <2>1. UNCHANGED <<pc, fastAdd, processHashes>>
    BY <1>2 DEF ProcessOrphanBlock, callVars
  <2> QED
    BY <1>0, <2>1 DEF ListInv
<1>3. CASE RejectBlock
  BY <1>3, ReturnHand DEF RejectBlock
<1>4. CASE FastExtend
  <2>1. CASE Return
    BY <2>1, ReturnHand
  <2>2. CASE ~Return
    <3>1. pc' # "idle" /\ UNCHANGED <<fastAdd, processHashes>>
      BY <1>4, <2>2 DEF FastExtend, callVars
    <3> QED
      BY <1>0, <3>1 DEF ListInv
  <2> QED
    BY <2>1, <2>2
<1>5. CASE SideChain
  BY <1>5, <1>0, ConnectedHand DEF SideChain
<1>6. CASE ReorgChecked
  <2>1. pc' = "reorg" /\ UNCHANGED <<fastAdd, processHashes>>
    BY <1>6 DEF ReorgChecked
  <2> QED
    BY <1>0, <2>1 DEF ListInv
<1>7. CASE BlockAccepted
  <2>1. cur \in index /\ (fastAdd => Trusted(cur)) /\ processHashes \in Seq(Blocks) /\ cur \in Blocks
    BY <1>7, CurFacts DEF BlockAccepted, HandInv, TypeOK, CallTypeOK
  <2>2. \A i \in 1..Len(Append(processHashes, cur)) :
            \/ Append(processHashes, cur)[i] = cur
            \/ i \in 1..Len(processHashes) /\ Append(processHashes, cur)[i] = processHashes[i]
    BY <2>1
  <2>3. pc' = "orphans" /\ processHashes' = Append(processHashes, cur) /\ fastAdd' = fastAdd
    BY <1>7 DEF BlockAccepted
  <2> QED
    BY <1>0, <2>1, <2>2, <2>3 DEF ListInv
<1>8. CASE AcceptOrphan
  <2>1. pc' = "accept" /\ UNCHANGED <<fastAdd, processHashes>>
    BY <1>8 DEF AcceptOrphan
  <2> QED
    BY <1>0, <2>1 DEF ListInv
<1>9. CASE NextHash
  <2>1. CASE Return
    BY <2>1, ReturnHand
  <2>2. CASE ~Return
    <3>1. /\ processHashes' = Tail(processHashes) /\ processHashes # <<>>
          /\ processHashes \in Seq(Blocks) /\ UNCHANGED <<pc, fastAdd>> /\ pc = "orphans"
      BY <1>9, <2>2 DEF NextHash, TypeOK, CallTypeOK
    <3>2. \A i \in 1..Len(Tail(processHashes)) :
              i + 1 \in 1..Len(processHashes) /\ Tail(processHashes)[i] = processHashes[i + 1]
      BY <3>1
    <3> QED
      BY <1>0, <3>1, <3>2 DEF ListInv
  <2> QED
    BY <2>1, <2>2
<1>10. ASSUME NEW ok \in BOOLEAN, StoreBlock(ok)
      PROVE  ListInv'
  <2>1. CASE Return
    BY <2>1, ReturnHand
  <2>2. CASE ~Return
    <3>1. pc' # "idle" /\ UNCHANGED <<fastAdd, processHashes>>
      BY <1>10, <2>2 DEF StoreBlock, callVars
    <3> QED
      BY <1>0, <3>1 DEF ListInv
  <2> QED
    BY <2>1, <2>2
<1>11. ASSUME NEW ok \in BOOLEAN, AddNode(ok)
      PROVE  ListInv'
  <2>1. CASE Return
    BY <2>1, ReturnHand
  <2>2. CASE ~Return
    <3>1. pc' # "idle" /\ UNCHANGED <<fastAdd, processHashes>>
      BY <1>11, <2>2 DEF AddNode, callVars
    <3> QED
      BY <1>0, <3>1 DEF ListInv
  <2> QED
    BY <2>1, <2>2
<1>12. ASSUME NEW ok \in BOOLEAN, CheckExtend(ok)
      PROVE  ListInv'
  <2>1. CASE Return
    BY <2>1, ReturnHand
  <2>2. CASE ~Return
    <3>1. pc' # "idle" /\ UNCHANGED <<fastAdd, processHashes>>
      BY <1>12, <2>2 DEF CheckExtend, callVars
    <3> QED
      BY <1>0, <3>1 DEF ListInv
  <2> QED
    BY <2>1, <2>2
<1>13. ASSUME NEW ok \in BOOLEAN, ExtendChain(ok)
      PROVE  ListInv'
  <2>1. CASE Return
    BY <2>1, ReturnHand
  <2>2. CASE ~Return
    <3>1. pc' # "idle" /\ UNCHANGED <<fastAdd, processHashes>>
      BY <1>13, <2>2 DEF ExtendChain, callVars
    <3> QED
      BY <1>0, <3>1 DEF ListInv
  <2> QED
    BY <2>1, <2>2
<1>14. ASSUME NEW ok \in BOOLEAN, MarkExtended(ok)
      PROVE  ListInv'
  BY <1>14, <1>0, ConnectedHand DEF MarkExtended
<1>15. ASSUME NEW ok \in BOOLEAN, ReorgInvalidBranch(ok)
      PROVE  ListInv'
  BY <1>15, <1>0, ConnectedHand DEF ReorgInvalidBranch
<1>16. ASSUME NEW ok \in BOOLEAN, ReorgRefused(ok)
      PROVE  ListInv'
  BY <1>16, ReturnHand DEF ReorgRefused
<1>17. ASSUME NEW ok \in BOOLEAN, ReorgDetach(ok)
      PROVE  ListInv'
  <2>1. CASE Return
    BY <2>1, ReturnHand
  <2>2. CASE ~Return
    <3>1. pc' = "reorg" /\ UNCHANGED <<fastAdd, processHashes>>
      BY <1>17, <2>2 DEF ReorgDetach
    <3> QED
      BY <1>0, <3>1 DEF ListInv
  <2> QED
    BY <2>1, <2>2
<1>18. ASSUME NEW ok \in BOOLEAN, ReorgAttach(ok)
      PROVE  ListInv'
  <2>1. CASE Return
    BY <2>1, ReturnHand
  <2>2. CASE ~Return
    <3>1. pc' = "reorg" /\ UNCHANGED <<fastAdd, processHashes>>
      BY <1>18, <2>2 DEF ReorgAttach
    <3> QED
      BY <1>0, <3>1 DEF ListInv
  <2> QED
    BY <2>1, <2>2
<1>19. ASSUME NEW ok \in BOOLEAN, ReorgDone(ok)
      PROVE  ListInv'
  BY <1>19, <1>0, ConnectedHand DEF ReorgDone
<1>20. ASSUME NEW ok \in BOOLEAN, NEW again \in BOOLEAN, FlushBeforeUpdate(ok, again)
      PROVE  ListInv'
  <2>1. CASE Return
    BY <2>1, ReturnHand
  <2>2. CASE ~Return
    <3>1. pc' # "idle" /\ UNCHANGED <<fastAdd, processHashes>>
      BY <1>20, <2>2 DEF FlushBeforeUpdate, callVars
    <3> QED
      BY <1>0, <3>1 DEF ListInv
  <2> QED
    BY <2>1, <2>2
<1>21. CASE UNCHANGED vars
  <2>1. UNCHANGED <<pc, fastAdd, processHashes>>
    BY <1>21 DEF vars, callVars
  <2> QED
    BY <1>0, <2>1 DEF ListInv
<1> QED
  BY <1>1, <1>2, <1>3, <1>4, <1>5, <1>6, <1>7, <1>8, <1>9, <1>10, <1>11,
     <1>12, <1>13, <1>14, <1>15, <1>16, <1>17, <1>18, <1>19, <1>20, <1>21, ChainAssumption
  DEF Step, Deliver

(***************************************************************************)
(* A branch with a known invalid block ends in a block that is marked, now *)
(* or before.                                                              *)
(***************************************************************************)
LEMMA InvalidBranchEnd ==
    ASSUME IInv, NEW n \in Blocks, InvalidBranch(n) # {}
    PROVE  KnownInvalid(status, n) \/ n \in InvalidBranch(n)
<1> DEFINE a == AttachNodes(n)
           S == {j \in 1..Len(a) : /\ \E m \in 1..(j - 1) : KnownInvalid(status, a[m])
                                   /\ \A m \in j..Len(a) : ~KnownInvalid(status, a[m])}
<1>1. InvalidBranch(n) = {a[i] : i \in S}
  BY DEF InvalidBranch
<1>2. PICK j \in S : TRUE
  BY <1>1
<1>3. Len(a) \in Nat
  BY ReorgListsFacts DEF IInv, TypeOK, NodeTypeOK
<1>4. Len(a) \in 1..Len(a) /\ a[Len(a)] = n
  <2>1. Len(a) \in 1..Len(a) /\ j \in 1..Len(a)
    BY <1>2, <1>3
  <2> QED
    BY <2>1, AttachFacts
<1> HIDE DEF a
<1>5. Len(a) \in S
  <2>1. PICK m \in 1..(j - 1) : KnownInvalid(status, a[m])
    BY <1>2
  <2>2. m \in 1..(Len(a) - 1)
    BY <1>2, <1>3
  <2>3. \A x \in Len(a)..Len(a) : x \in j..Len(a)
    BY <1>2, <1>3
  <2>4. \A x \in Len(a)..Len(a) : ~KnownInvalid(status, a[x])
    BY <1>2, <2>3
  <2> QED
    BY <1>4, <2>1, <2>2, <2>4
<1> HIDE DEF S
<1> QED
  BY <1>1, <1>4, <1>5

(***************************************************************************)
(* Every step of a running process keeps AcceptedIsTip.                    *)
(***************************************************************************)
LEMMA AcceptedStep == IInv /\ [Deliver \/ Step]_vars => AcceptedIsTip'
<1> SUFFICES ASSUME IInv, [Deliver \/ Step]_vars PROVE AcceptedIsTip'
  OBVIOUS
<1> USE DEF IInv, CallInv
<1>1. ASSUME NEW b \in Blocks, NEW fast \in BOOLEAN, fast => b \in FastBlocks,
             ProcessBlock(b, fast)
      PROVE  AcceptedIsTip'
  BY <1>1, ReturnHand DEF ProcessBlock, AcceptedIsTip
<1>2. ASSUME NEW b \in Blocks, NEW expired \in 0..Len(orphans),
             ProcessOrphanBlock(b, expired)
      PROVE  AcceptedIsTip'
  BY <1>2, ReturnHand DEF ProcessOrphanBlock, AcceptedIsTip
<1>3. CASE RejectBlock
  BY <1>3, ReturnHand DEF RejectBlock, AcceptedIsTip
<1>4. CASE FastExtend
  <2>1. CASE Return
    BY <2>1, ReturnHand
  <2>2. CASE pc' # "accepted"
    BY <2>2 DEF AcceptedIsTip
  <2> QED
    BY <1>4, <2>1, <2>2 DEF FastExtend
<1>5. CASE SideChain
  BY <1>5 DEF SideChain, Connected, AcceptedIsTip
<1>6. CASE ReorgChecked
  BY <1>6, ReturnHand DEF ReorgChecked, AcceptedIsTip
<1>7. CASE BlockAccepted
  BY <1>7, ReturnHand DEF BlockAccepted, AcceptedIsTip
<1>8. CASE AcceptOrphan
  BY <1>8, ReturnHand DEF AcceptOrphan, AcceptedIsTip
<1>9. CASE NextHash
  <2>1. CASE Return
    BY <2>1, ReturnHand
  <2>2. CASE pc' # "accepted"
    BY <2>2 DEF AcceptedIsTip
  <2> QED
    BY <1>9, <2>1, <2>2 DEF NextHash
<1>10. ASSUME NEW ok \in BOOLEAN, StoreBlock(ok)
      PROVE  AcceptedIsTip'
  <2>1. CASE Return
    BY <2>1, ReturnHand
  <2>2. CASE pc' # "accepted"
    BY <2>2 DEF AcceptedIsTip
  <2> QED
    BY <1>10, <2>1, <2>2 DEF StoreBlock
<1>11. ASSUME NEW ok \in BOOLEAN, AddNode(ok)
      PROVE  AcceptedIsTip'
  <2>1. CASE Return
    BY <2>1, ReturnHand
  <2>2. CASE pc' # "accepted"
    BY <2>2 DEF AcceptedIsTip
  <2> QED
    BY <1>11, <2>1, <2>2 DEF AddNode
<1>12. ASSUME NEW ok \in BOOLEAN, CheckExtend(ok)
      PROVE  AcceptedIsTip'
  <2>1. CASE Return
    BY <2>1, ReturnHand
  <2>2. CASE pc' # "accepted"
    BY <2>2 DEF AcceptedIsTip
  <2> QED
    BY <1>12, <2>1, <2>2 DEF CheckExtend
<1>13. ASSUME NEW ok \in BOOLEAN, ExtendChain(ok)
      PROVE  AcceptedIsTip'
  <2>1. CASE Return
    BY <2>1, ReturnHand
  <2>2. CASE pc' # "accepted"
    BY <2>2 DEF AcceptedIsTip
  <2> QED
    BY <1>13, <2>1, <2>2 DEF ExtendChain
<1>14. ASSUME NEW ok \in BOOLEAN, MarkExtended(ok)
      PROVE  AcceptedIsTip'
  <2>1. tip' = tip /\ cur' = cur /\ tip = cur
    BY <1>14 DEF MarkExtended, Connected, HandInv
  <2> QED
    BY <2>1 DEF AcceptedIsTip
<1>15. ASSUME NEW ok \in BOOLEAN, ReorgInvalidBranch(ok)
      PROVE  AcceptedIsTip'
  <2>1. cur \in Blocks
    BY <1>15, CurFacts DEF ReorgInvalidBranch
  <2>2. KnownInvalid(status, cur) \/ cur \in InvalidBranch(cur)
    BY <1>15, <2>1, InvalidBranchEnd DEF ReorgInvalidBranch
  <2>3. status' = SetStatusFlags(status, InvalidBranch(cur), "InvalidAncestor") /\ cur' = cur
    BY <1>15 DEF ReorgInvalidBranch, Connected
  <2>4. KnownInvalid(status', cur)
    BY <2>1, <2>2, <2>3 DEF KnownInvalid, SetStatusFlags
  <2>5. KnownInvalid(status', cur')
    BY <2>3, <2>4
  <2> QED
    BY <2>5 DEF AcceptedIsTip
<1>16. ASSUME NEW ok \in BOOLEAN, ReorgRefused(ok)
      PROVE  AcceptedIsTip'
  BY <1>16, ReturnHand DEF ReorgRefused, AcceptedIsTip
<1>17. ASSUME NEW ok \in BOOLEAN, ReorgDetach(ok)
      PROVE  AcceptedIsTip'
  <2>1. CASE Return
    BY <2>1, ReturnHand
  <2>2. CASE pc' = pc
    BY <1>17, <2>2 DEF ReorgDetach, AcceptedIsTip
  <2> QED
    BY <1>17, <2>1, <2>2 DEF ReorgDetach
<1>18. ASSUME NEW ok \in BOOLEAN, ReorgAttach(ok)
      PROVE  AcceptedIsTip'
  <2>1. CASE Return
    BY <2>1, ReturnHand
  <2>2. CASE pc' = pc
    BY <1>18, <2>2 DEF ReorgAttach, AcceptedIsTip
  <2> QED
    BY <1>18, <2>1, <2>2 DEF ReorgAttach
<1>19. ASSUME NEW ok \in BOOLEAN, ReorgDone(ok)
      PROVE  AcceptedIsTip'
  <2>1. pc = "reorg" /\ detachNodes = <<>> /\ attachNodes = <<>> /\ UNCHANGED <<tip, cur>>
    BY <1>19 DEF ReorgDone, Connected
  <2>2. tip = cur
    BY <2>1, ReorgState, ReorgEnds
  <2> QED
    BY <2>1, <2>2 DEF AcceptedIsTip
<1>20. ASSUME NEW ok \in BOOLEAN, NEW again \in BOOLEAN, FlushBeforeUpdate(ok, again)
      PROVE  AcceptedIsTip'
  <2>1. CASE Return
    BY <2>1, ReturnHand
  <2>2. CASE pc' = pc
    BY <1>20, <2>2 DEF FlushBeforeUpdate, AcceptedIsTip
  <2> QED
    BY <1>20, <2>1, <2>2 DEF FlushBeforeUpdate
<1>21. CASE UNCHANGED vars
  <2>1. UNCHANGED <<pc, isMainChain, tip, cur, status>>
    BY <1>21 DEF vars, nodeVars, callVars
  <2> QED
    BY <2>1 DEF AcceptedIsTip, KnownInvalid
<1> QED
  BY <1>1, <1>2, <1>3, <1>4, <1>5, <1>6, <1>7, <1>8, <1>9, <1>10, <1>11,
     <1>12, <1>13, <1>14, <1>15, <1>16, <1>17, <1>18, <1>19, <1>20, <1>21, ChainAssumption
  DEF Step, Deliver

-----------------------------------------------------------------------------
(***************************************************************************)
(* A crash at any point and the restart after it keep the invariant.       *)
(***************************************************************************)
LEMMA CrashStep == IInv /\ CrashAndRestart => IInv'
<1> SUFFICES ASSUME IInv, CrashAndRestart PROVE IInv'
  OBVIOUS
<1> DEFINE up == {b \in OnChain(dbTip) : ~KnownValid(dbIndex, b)}
<1>1. /\ index' = Rows
      /\ status' = SetStatusFlags(dbIndex, up, "Valid")
      /\ flushToDB(status', up, TRUE)
      /\ tip' = dbTip
      /\ Return
      /\ UNCHANGED <<dbBlocks, dbTip, dbMain, dbUtxo, dbJournal>>
  BY DEF CrashAndRestart
<1>2. /\ up \subseteq OnChain(dbTip)
      /\ dbTip \in Rows /\ Rows \subseteq Blocks /\ ChainOK(dbTip) /\ dbTip \in Blocks
      /\ dbIndex \in [Blocks -> SUBSET StatusFlags]
  BY DEF Rows, IInv, StoreInv, TypeOK, DbTypeOK
<1>3. up \subseteq Rows /\ \A b \in up : ChainOK(b)
  BY <1>2, ChainOKAncestor DEF IInv, IndexInv
<1> HIDE DEF up
<1>4. /\ status' \in [Blocks -> SUBSET StatusFlags]
      /\ \A b \in up : status'[b] = dbIndex[b] \cup {"Valid"}
      /\ \A b \in Blocks \ up : status'[b] = dbIndex[b]
  BY <1>1, <1>2, <1>3, SetStatusFlagsFacts DEF StatusFlags
<1>5. /\ dirty' = {}
      /\ dbIndex' \in [Blocks -> SUBSET StatusFlags]
      /\ \A b \in Blocks : dbIndex'[b] = status'[b]
  BY <1>1, <1>2, <1>4 DEF flushToDB
<1>6. Rows' = Rows
  <2>1. \A b \in Blocks : dbIndex'[b] # {} <=> dbIndex[b] # {}
    <3>1. \A b \in up : dbIndex[b] # {} /\ dbIndex'[b] # {}
      BY <1>2, <1>3, <1>4, <1>5 DEF Rows
    <3> QED
      BY <1>4, <1>5, <3>1
  <2> QED
    BY <2>1 DEF Rows
<1>7. [Next]_vars
  BY DEF Next
<1>8. TypeOK'
  <2>1. CallTypeOK' /\ PoolTypeOK' /\ SumsOK' /\ dbBlocks' \subseteq Blocks
    BY <1>7, CallTypeStep, PoolStep, WorkSumStep, BlocksStep
  <2>2. DbTypeOK'
    BY <1>1, <1>5, <2>1 DEF DbTypeOK, IInv, TypeOK
  <2>3. NodeTypeOK'
    BY <1>1, <1>2, <1>4, <1>5, <2>1 DEF NodeTypeOK, SumsOK
  <2> QED
    BY <2>1, <2>2, <2>3 DEF TypeOK
<1>9. IndexInv'
  <2>1. \A b \in Rows : OnChain(b) \subseteq Rows
    BY DEF IInv, IndexInv
  <2>2. Genesis \in Rows /\ Rows \subseteq dbBlocks
    BY DEF IInv, IndexInv, UnsavedIsDirty
  <2>3. \A b \in index' : status'[b] # {}
    BY <1>1, <1>2, <1>5, <1>6 DEF Rows
  <2>4. UnsavedIsDirty'
    BY <1>1, <1>2, <1>5, <1>6 DEF UnsavedIsDirty
  <2> QED
    BY <1>1, <1>5, <1>6, <2>1, <2>2, <2>3, <2>4 DEF IndexInv
<1>10. StoreInv'
  BY <1>1, <1>2, <1>6 DEF StoreInv, StoreDescribesOneChain, IInv
<1>11. StatusSound'
  <2>1. \A b \in Blocks : /\ KnownValid(status', b) => KnownValid(dbIndex, b) \/ b \in up
                          /\ KnownInvalid(status', b) => KnownInvalid(dbIndex, b)
    BY <1>2, <1>4 DEF KnownValid, KnownInvalid
  <2>2. MarksSound(status')
    BY <1>3, <2>1 DEF IInv, StatusSound, MarksSound
  <2>3. MarksSound(dbIndex')
    BY <1>5, <2>2 DEF MarksSound, KnownValid, KnownInvalid
  <2> QED
    BY <2>2, <2>3 DEF StatusSound
<1>12. CallInv'
  BY <1>1, <1>7, ReturnHand, PoolStep DEF CallInv
<1>13. AcceptedIsTip'
  BY <1>1, ReturnHand
<1> QED
  BY <1>8, <1>9, <1>10, <1>11, <1>12, <1>13 DEF IInv

(***************************************************************************)
(* Checking a template changes the tip's work sum only.                    *)
(***************************************************************************)
LEMMA TemplateStep == IInv /\ CheckConnectBlockTemplate => IInv'
<1> SUFFICES ASSUME IInv, CheckConnectBlockTemplate PROVE IInv'
  OBVIOUS
<1>1. UNCHANGED <<dbVars, index, status, dirty, tip, orphanVars, pc, callVars>>
  BY DEF CheckConnectBlockTemplate
<1>2. UNCHANGED <<dbBlocks, dbIndex, dbTip, dbMain, dbUtxo, dbJournal>>
  BY <1>1 DEF dbVars
<1>3. UNCHANGED <<orphans, oldestOrphan, cur, fastAdd, detachNodes, attachNodes,
                  isMainChain, processHashes>>
  BY <1>1 DEF orphanVars, callVars
<1>4. TypeOK'
  <2>1. SumsOK'
    BY WorkSumStep DEF Next
  <2>2. DbTypeOK' /\ PoolTypeOK' /\ CallTypeOK'
    BY <1>1, <1>2, <1>3 DEF IInv, TypeOK, DbTypeOK, PoolTypeOK, CallTypeOK
  <2>3. NodeTypeOK'
    BY <1>1, <2>1 DEF IInv, TypeOK, NodeTypeOK, SumsOK
  <2> QED
    BY <2>2, <2>3 DEF TypeOK
<1>5. IndexInv'
  BY <1>1, <1>2 DEF IInv, IndexInv, UnsavedIsDirty, Rows
<1>6. StoreInv' /\ StatusSound'
  BY <1>1, <1>2 DEF IInv, StoreInv, StoreDescribesOneChain, Rows, StatusSound
<1>7. CallInv'
  BY <1>1, <1>2, <1>3 DEF IInv, CallInv, HandInv, ListInv
<1>8. AcceptedIsTip'
  BY <1>1, <1>3 DEF IInv, AcceptedIsTip
<1> QED
  BY <1>4, <1>5, <1>6, <1>7, <1>8 DEF IInv

(***************************************************************************)
(* Every step keeps the invariant.                                         *)
(***************************************************************************)
LEMMA StepIInv == IInv /\ [Next]_vars => IInv'
<1> SUFFICES ASSUME IInv, [Next]_vars PROVE IInv'
  OBVIOUS
<1>1. CASE CrashAndRestart
  BY <1>1, CrashStep
<1>3. CASE CheckConnectBlockTemplate
  BY <1>3, TemplateStep
<1>2. CASE [Deliver \/ Step]_vars
  <2>1. PICK di : NodeStep(di)
    BY <1>2, NodeStepOf
  <2>2. IndexInv' /\ StatusSound' /\ Rows \subseteq Rows'
    BY <2>1, NodeStepPreserves
  <2>3. dbBlocks \subseteq dbBlocks' /\ dbBlocks' \subseteq Blocks
    BY BlocksStep
  <2>4. StoreStep
    BY <1>2, StoreStepOf
  <2>5. /\ StoreInv'
        /\ dbTip' \in Blocks /\ dbMain' \subseteq Blocks /\ dbUtxo' \subseteq Outs
        /\ dbJournal' \subseteq Blocks /\ tip' \in Blocks
    BY <2>2, <2>3, <2>4, StoreStepPreserves
  <2>6. DbTypeOK'
    BY <2>1, <2>3, <2>5 DEF DbTypeOK, NodeStep, Written
  <2>7. NodeTypeOK'
    <3>1. SumsOK'
      BY WorkSumStep
    <3>2. dirty' \subseteq Blocks
      BY <2>1 DEF NodeStep, Written
    <3> QED
      BY <2>1, <2>5, <3>1, <3>2 DEF NodeTypeOK, NodeStep, SumsOK
  <2>8. TypeOK'
    BY <2>6, <2>7, CallTypeStep, PoolStep DEF TypeOK
  <2>9. CallInv'
    BY <1>2, HandStep, ListStep, PoolStep DEF CallInv
  <2>10. AcceptedIsTip'
    BY <1>2, AcceptedStep
  <2> QED
    BY <2>2, <2>5, <2>8, <2>9, <2>10 DEF IInv
<1> QED
  BY <1>1, <1>2, <1>3 DEF Next

-----------------------------------------------------------------------------
(***************************************************************************)
(* The invariant holds in every state of the node, over any number of      *)
(* calls, failed database updates, crashes and restarts.                   *)
(***************************************************************************)
THEOREM Invariance == Spec => []IInv
<1>1. Init => IInv
  BY InitIInv
<1>2. IInv /\ [Next]_vars => IInv'
  BY StepIInv
<1> QED
  BY <1>1, <1>2, PTL DEF Spec

(***************************************************************************)
(* Every variable of the node keeps its type, and no block is at hand      *)
(* between two calls of maybeAcceptBlock.                                  *)
(***************************************************************************)
THEOREM TypeCorrect == Spec => []TypeOK
<1>1. IInv => TypeOK
  BY DEF IInv
<1> QED
  BY <1>1, Invariance, PTL

(***************************************************************************)
(* connectBlock and disconnectBlock keep the best state, the main-chain    *)
(* index, the spend journal and the utxo set on one chain, whatever update *)
(* fails and wherever a reorganize is interrupted.                         *)
(***************************************************************************)
THEOREM OneChainStored == Spec => []StoreDescribesOneChain
<1>1. IInv => StoreDescribesOneChain
  BY DEF IInv, StoreInv
<1> QED
  BY <1>1, Invariance, PTL

(***************************************************************************)
(* initChainState can load the database after a crash at any point: rows,  *)
(* blocks and best state are written by separate transactions, in an order *)
(* that never leaves a row without its parent's, or a best block without   *)
(* its row or its bytes.                                                   *)
(***************************************************************************)
THEOREM AlwaysLoadable == Spec => []CrashLoadable
<1>1. IInv => CrashLoadable
  <2> SUFFICES ASSUME IInv PROVE CrashLoadable
    OBVIOUS
  <2>1. \A b \in Rows : OnChain(b) \subseteq Rows
    BY DEF IInv, IndexInv
  <2>2. \A b \in Rows \ {Genesis} : Parent(b) \in Rows
    <3> TAKE b \in Rows \ {Genesis}
    <3>1. b \in Blocks /\ b # Genesis
      BY DEF Rows
    <3>2. Parent(b) \in OnChain(Parent(b)) /\ OnChain(b) = OnChain(Parent(b)) \cup {b}
      BY <3>1, ParentFacts, OnChainFacts, OnChainParent
    <3> QED
      BY <2>1, <3>2
  <2>3. dbTip \in Rows /\ dbTip \in dbBlocks /\ Genesis \in Rows
    BY DEF IInv, StoreInv, IndexInv, UnsavedIsDirty
  <2> QED
    BY <2>2, <2>3 DEF CrashLoadable, Loadable
<1> QED
  BY <1>1, Invariance, PTL

(***************************************************************************)
(* A status that checkConnectBlock, reorganizeChain or initChainState sets, *)
(* in memory or in a row, tells the truth about the whole chain below the  *)
(* node, so reorganizeChain may skip the check of a node marked valid and  *)
(* maybeAcceptBlock may refuse the children of one marked invalid.         *)
(***************************************************************************)
THEOREM MarksAreSound == Spec => []StatusSound
<1>1. IInv => StatusSound
  BY DEF IInv
<1> QED
  BY <1>1, Invariance, PTL

(***************************************************************************)
(* A status that did not reach the database stays dirty, whatever flush    *)
(* failed (flushToDB clears the dirty set only after a successful write).  *)
(***************************************************************************)
THEOREM NoStatusLost == Spec => []UnsavedIsDirty
<1>1. IInv => UnsavedIsDirty
  BY DEF IInv, IndexInv
<1> QED
  BY <1>1, Invariance, PTL

(***************************************************************************)
(* When connectBestChain reports the main chain without an error, the      *)
(* block is the tip or its branch is marked invalid.                       *)
(***************************************************************************)
THEOREM MainChainReported == Spec => []AcceptedIsTip
<1>1. IInv => AcceptedIsTip
  BY DEF IInv
<1> QED
  BY <1>1, Invariance, PTL

(***************************************************************************)
(* The pool's size, and the pointer that makes the next removal succeed    *)
(* when the pool is one over its limit.                                    *)
(***************************************************************************)
PoolInv ==
    /\ OrphanPoolBounded
    /\ Len(orphans) = MaxOrphanBlocks + 1 => oldestOrphan = NoBlock

(***************************************************************************)
(* addOrphanBlock and removeOrphanBlock keep it.                           *)
(***************************************************************************)
LEMMA PoolInvStep == IInv /\ PoolInv /\ [Next]_vars => PoolInv'
<1> SUFFICES ASSUME IInv, PoolInv, [Next]_vars PROVE PoolInv'
  OBVIOUS
<1> USE DEF PoolInv, OrphanPoolBounded
<1>1. ASSUME NEW b \in Blocks, NEW fast \in BOOLEAN, fast => b \in FastBlocks,
             ProcessBlock(b, fast)
      PROVE  PoolInv'
  BY <1>1 DEF ProcessBlock, orphanVars
<1>2. ASSUME NEW b \in Blocks, NEW expired \in 0..Len(orphans),
             ProcessOrphanBlock(b, expired)
      PROVE  PoolInv'
  <2> DEFINE live   == SubSeq(orphans, expired + 1, Len(orphans))
             oldest == IF oldestOrphan = NoBlock /\ live # <<>> THEN live[1] ELSE oldestOrphan
             full   == Len(live) + 1 > MaxOrphanBlocks
             kept   == IF full THEN removeOrphanBlock(live, oldest) ELSE live
  <2>1. MaxOrphanBlocks \in Nat /\ orphans \in Seq(Blocks)
    BY ChainAssumption DEF IInv, TypeOK, PoolTypeOK
  <2>2. live \in Seq(Blocks) /\ Len(live) = Len(orphans) - expired /\ Len(live) \in Nat
    BY <2>1
  <2>3. orphans' = Append(kept, b) /\ oldestOrphan' = IF full THEN NoBlock ELSE oldest
    BY <1>2 DEF ProcessOrphanBlock, addOrphanBlock
  <2> HIDE DEF live
  <2>4. Len(live) = MaxOrphanBlocks + 1 => InPool(live, oldest)
    <3> SUFFICES ASSUME Len(live) = MaxOrphanBlocks + 1 PROVE InPool(live, oldest)
      OBVIOUS
    <3>1. oldestOrphan = NoBlock
      BY <2>1, <2>2
    <3>2. live # <<>> /\ 1 \in 1..Len(live)
      BY <2>1, <2>2
    <3> QED
      BY <3>1, <3>2 DEF InPool
  <2> HIDE DEF oldest
  <2>5. /\ removeOrphanBlock(live, oldest) \in Seq(Blocks)
        /\ Len(removeOrphanBlock(live, oldest)) =
              IF InPool(live, oldest) THEN Len(live) - 1 ELSE Len(live)
    BY <2>2, RemoveOrphanFacts
  <2>6. kept \in Seq(Blocks) /\ Len(kept) <= MaxOrphanBlocks /\ (~full => Len(kept) < MaxOrphanBlocks)
    BY <2>1, <2>2, <2>4, <2>5
  <2> HIDE DEF kept
  <2>7. Len(orphans') = Len(kept) + 1 /\ Len(kept) \in Nat
    BY <2>3, <2>6
  <2> HIDE DEF full
  <2>8. Len(orphans') <= MaxOrphanBlocks + 1
    BY <2>1, <2>6, <2>7
  <2>9. Len(orphans') = MaxOrphanBlocks + 1 => oldestOrphan' = NoBlock
    BY <2>1, <2>3, <2>6, <2>7
  <2> QED
    BY <2>8, <2>9
<1>3. CASE RejectBlock
  BY <1>3 DEF RejectBlock, orphanVars
<1>4. CASE FastExtend
  BY <1>4 DEF FastExtend, orphanVars
<1>5. CASE SideChain
  BY <1>5 DEF SideChain, orphanVars
<1>6. CASE ReorgChecked
  BY <1>6 DEF ReorgChecked, orphanVars
<1>7. CASE BlockAccepted
  BY <1>7 DEF BlockAccepted, orphanVars
<1>8. CASE AcceptOrphan
  <2>1. PICK i \in 1..Len(orphans) : orphans' = removeOrphanBlock(orphans, orphans[i])
    BY <1>8 DEF AcceptOrphan
  <2>2. InPool(orphans, orphans[i])
    BY <2>1 DEF InPool
  <2>3. Len(orphans') = Len(orphans) - 1 /\ Len(orphans) \in Nat /\ MaxOrphanBlocks \in Nat
    BY <2>1, <2>2, RemoveOrphanFacts, ChainAssumption DEF IInv, TypeOK, PoolTypeOK
  <2>4. Len(orphans') <= MaxOrphanBlocks
    BY <2>3
  <2> QED
    BY <2>3, <2>4
<1>9. CASE NextHash
  BY <1>9 DEF NextHash, orphanVars
<1>10. ASSUME NEW ok \in BOOLEAN, StoreBlock(ok)
      PROVE  PoolInv'
  BY <1>10 DEF StoreBlock, orphanVars
<1>11. ASSUME NEW ok \in BOOLEAN, AddNode(ok)
      PROVE  PoolInv'
  BY <1>11 DEF AddNode, orphanVars
<1>12. ASSUME NEW ok \in BOOLEAN, CheckExtend(ok)
      PROVE  PoolInv'
  BY <1>12 DEF CheckExtend, orphanVars
<1>13. ASSUME NEW ok \in BOOLEAN, ExtendChain(ok)
      PROVE  PoolInv'
  BY <1>13 DEF ExtendChain, orphanVars
<1>14. ASSUME NEW ok \in BOOLEAN, MarkExtended(ok)
      PROVE  PoolInv'
  BY <1>14 DEF MarkExtended, orphanVars
<1>15. ASSUME NEW ok \in BOOLEAN, ReorgInvalidBranch(ok)
      PROVE  PoolInv'
  BY <1>15 DEF ReorgInvalidBranch, orphanVars
<1>16. ASSUME NEW ok \in BOOLEAN, ReorgRefused(ok)
      PROVE  PoolInv'
  BY <1>16 DEF ReorgRefused, orphanVars
<1>17. ASSUME NEW ok \in BOOLEAN, ReorgDetach(ok)
      PROVE  PoolInv'
  BY <1>17 DEF ReorgDetach, orphanVars
<1>18. ASSUME NEW ok \in BOOLEAN, ReorgAttach(ok)
      PROVE  PoolInv'
  BY <1>18 DEF ReorgAttach, orphanVars
<1>19. ASSUME NEW ok \in BOOLEAN, ReorgDone(ok)
      PROVE  PoolInv'
  BY <1>19 DEF ReorgDone, orphanVars
<1>20. ASSUME NEW ok \in BOOLEAN, NEW again \in BOOLEAN, FlushBeforeUpdate(ok, again)
      PROVE  PoolInv'
  BY <1>20 DEF FlushBeforeUpdate, orphanVars
<1>21. CASE CrashAndRestart
  <2>1. orphans' = <<>> /\ Len(<<>>) = 0 /\ MaxOrphanBlocks \in Nat
    BY <1>21, ChainAssumption DEF CrashAndRestart
  <2> QED
    BY <2>1
<1>22. CASE UNCHANGED vars
  BY <1>22 DEF vars, orphanVars
<1>23. CASE CheckConnectBlockTemplate
  BY <1>23 DEF CheckConnectBlockTemplate, orphanVars
<1> QED
  BY <1>1, <1>2, <1>3, <1>4, <1>5, <1>6, <1>7, <1>8, <1>9, <1>10, <1>11,
     <1>12, <1>13, <1>14, <1>15, <1>16, <1>17, <1>18, <1>19, <1>20, <1>21, <1>22, <1>23, ChainAssumption
  DEF Next, Step, Deliver

(***************************************************************************)
(* The orphan pool never exceeds maxOrphanBlocks + 1 blocks.               *)
(***************************************************************************)
THEOREM PoolBounded == Spec => []OrphanPoolBounded
<1>1. Init => PoolInv
  <2> SUFFICES ASSUME Init PROVE PoolInv
    OBVIOUS
  <2>1. orphans = <<>> /\ Len(<<>>) = 0 /\ oldestOrphan = NoBlock /\ MaxOrphanBlocks \in Nat
    BY ChainAssumption DEF Init
  <2> QED
    BY <2>1 DEF PoolInv, OrphanPoolBounded
<1>2. IInv /\ PoolInv /\ [Next]_vars => PoolInv'
  BY PoolInvStep
<1>3. PoolInv => OrphanPoolBounded
  BY DEF PoolInv
<1> QED
  BY <1>1, <1>2, <1>3, Invariance, PTL DEF Spec

-----------------------------------------------------------------------------
(***************************************************************************)
(* The block tree that BestChain speaks of is this one.                    *)
(***************************************************************************)
LEMMA SameTree ==
    /\ \A b : Store!OnChain(b) = OnChain(b)
    /\ \A b : Store!Parent(b) = Parent(b)
    /\ \A b : Store!UtxoOf(b) = UtxoOf(b)
    /\ \A b, view : Store!MayConnect(b, view) <=> MayConnect(b, view)
BY DEF Store!OnChain, OnChain, Store!Parent, Parent, Store!UtxoOf, UtxoOf,
       Store!AllCreates, AllCreates, Store!AllSpends, AllSpends,
       Store!MayConnect, MayConnect, Store!Trusted, Trusted

(***************************************************************************)
(* The stored best block and the stored utxo set behave as BestChain says: *)
(* they move one block at a time along the tree, never onto a block that   *)
(* breaks a rule, whatever fails and whenever the process dies.            *)
(***************************************************************************)
THEOREM Refinement == Spec => RefinesBestChain
<1>1. Init => Store!Init
  BY SameTree, UtxoGenesis DEF Init, Store!Init
<1>2. IInv /\ IInv' /\ [Next]_vars => [Store!Next]_<<dbTip, dbUtxo>>
  <2> SUFFICES ASSUME IInv, IInv', [Next]_vars PROVE [Store!Next]_<<dbTip, dbUtxo>>
    OBVIOUS
  <2>1. dbUtxo = UtxoOf(dbTip) /\ dbTip \in Blocks
    BY DEF IInv, StoreInv, StoreDescribesOneChain, TypeOK, DbTypeOK
  <2>2. dbUtxo' = UtxoOf(dbTip')
    BY DEF IInv, StoreInv, StoreDescribesOneChain
  <2>3. CASE CrashAndRestart
    BY <2>3 DEF CrashAndRestart
  <2>5. CASE CheckConnectBlockTemplate
    BY <2>5 DEF CheckConnectBlockTemplate, dbVars
  <2>4. CASE [Deliver \/ Step]_vars
    <3>1. CASE UNCHANGED <<dbTip, dbMain, dbUtxo, dbJournal, tip>>
      BY <3>1
    <3>2. ASSUME NEW b \in Rows \ {Genesis}, Parent(b) = dbTip,
                 MayConnect(b, UtxoOf(dbTip)), ConnectTx(b)
          PROVE  Store!Next
      <4>1. b \in Blocks /\ b # Genesis /\ dbTip' = b
        BY <3>2 DEF Rows, ConnectTx
      <4>2. Store!Connect(b)
        BY <2>1, <2>2, <3>2, <4>1, SameTree DEF Store!Connect
      <4> QED
        BY <4>1, <4>2 DEF Store!Next
    <3>3. CASE dbTip # Genesis /\ DisconnectTx(dbTip)
      <4>1. dbTip' = Parent(dbTip)
        BY <3>3 DEF DisconnectTx
      <4>2. Store!Disconnect
        BY <2>2, <3>3, <4>1, SameTree DEF Store!Disconnect
      <4> QED
        BY <4>2 DEF Store!Next
    <3> QED
      BY <2>4, <3>1, <3>2, <3>3, StoreStepOf DEF StoreStep
  <2> QED
    BY <2>3, <2>4, <2>5 DEF Next
<1> QED
  BY <1>1, <1>2, Invariance, PTL DEF Spec, RefinesBestChain, Store!Spec
=============================================================================
