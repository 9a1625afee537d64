------------------------------- MODULE Mempool -------------------------------
(***************************************************************************)
(* The memory pool (cmd/node/mempool/mempool.go): transactions that wait   *)
(* to be mined, with the index of the outputs they spend, and orphans,     *)
(* which wait for a parent, with the index of the outputs they wait for.   *)
(*                                                                         *)
(* Every exported operation takes the pool's lock.  Three kinds of         *)
(* goroutine call them: the sync manager, for transactions of peers and    *)
(* when the chain tells it that a block has been connected or disconnected *)
(* (handleBlockchainNotification in pkg/chain/sync/manager.go, which makes *)
(* several calls, one after the other, after the chain has changed); RPC   *)
(* handlers, at any time between those calls; and the goroutines of peers  *)
(* that leave.  ProcessOrphans is a loop; its iterations are steps here,   *)
(* and while it runs the lock is held and nothing else happens to the      *)
(* pool; the chain may change.                                             *)
(***************************************************************************)
EXTENDS Naturals, Sequences, FiniteSets

CONSTANTS
    Txs,               \* transactions
    OutPoints,         \* their outputs, and those of earlier transactions
    Ins,               \* Ins[t]: the outputs that t spends
    TxOut,             \* TxOut[t]: the sequence of outputs that t creates
    Coins,             \* outputs that exist at the start
    NonStd,            \* transactions that only a block can carry
    Free,              \* transactions that the rules on inputs, fees and rates may reject
    Blocks,            \* blocks: sequences of transactions
    Peers,
    None,              \* nil
    MaxOrphanTxs,
    Expiry,            \* orphans may expire
    MaxChain           \* bound: blocks connected so far

ASSUME MempoolAssumption ==
    /\ IsFiniteSet(Txs) /\ None \notin Txs /\ None \notin Peers
    /\ Ins \in [Txs -> SUBSET OutPoints] /\ TxOut \in [Txs -> Seq(OutPoints)]
    /\ Coins \subseteq OutPoints /\ NonStd \subseteq Txs /\ Free \subseteq Txs
    /\ Blocks \subseteq Seq(Txs)
    /\ MaxOrphanTxs \in Nat /\ MaxChain \in Nat /\ Expiry \in BOOLEAN

VARIABLES
    chain,             \* the blocks on the main chain
    connected,         \* blocks connected so far
    reorg,             \* what a reorganization does next: detach or attach blocks
    note,              \* handleBlockchainNotification: what is left to do
    pool,              \* mp.pool
    outpoints,         \* the transaction of the pool that spends an output
    orphans,           \* mp.orphans
    tag,               \* the peer an orphan came from
    orphansByPrev,
    work,              \* ProcessOrphans: the lock, outputs to look at, accepted transactions
    peers,             \* connected peers
    peerStates         \* peers the sync manager knows of

chainVars == <<chain, connected, reorg>>
poolVars == <<pool, outpoints>>
orphanVars == <<orphans, tag, orphansByPrev>>
peerVars == <<peers, peerStates>>
vars == <<chainVars, poolVars, orphanVars, peerVars, note, work>>

NoWork == [busy |-> FALSE, queue |-> <<>>, accepted |-> {}]
NoNote == [step |-> "none", txs |-> <<>>]

Init ==
    /\ chain = <<>> /\ connected = 0 /\ reorg = "none" /\ note = NoNote
    /\ pool = {} /\ outpoints = [op \in OutPoints |-> None]
    /\ orphans = {} /\ tag = [t \in Txs |-> None]
    /\ orphansByPrev = [op \in OutPoints |-> {}]
    /\ work = NoWork
    /\ peers = Peers /\ peerStates = Peers

-----------------------------------------------------------------------------
(***************************************************************************)
(* The chain: confirmed transactions and unspent outputs.                  *)
(***************************************************************************)
ElementsOf(s) == {s[i] : i \in DOMAIN s}

Confirmed == UNION {ElementsOf(chain[i]) : i \in DOMAIN chain}

Outs(t) == ElementsOf(TxOut[t])
OutsOf(T) == UNION {Outs(t) : t \in T}
InsOf(T) == UNION {Ins[t] : t \in T}

Unspent == (Coins \cup OutsOf(Confirmed)) \ InsOf(Confirmed)

(***************************************************************************)
(* An output is named by the hash of the transaction that creates it, and  *)
(* CheckTransactionSanity, which maybeAcceptTransaction calls, refuses a   *)
(* transaction without inputs.                                             *)
(***************************************************************************)
ASSUME OutputsAssumption ==
    /\ \A s, t \in Txs : s # t => Outs(s) \cap Outs(t) = {}
    /\ OutsOf(Txs) \cap Coins = {}
    /\ \A t \in Txs \ NonStd : Ins[t] # {}

IsValidBlock(b) ==
    \A i \in DOMAIN b :
        LET before == {b[k] : k \in 1..(i-1)} IN
        /\ b[i] \notin Confirmed \cup before
        /\ Ins[b[i]] \subseteq (Unspent \cup OutsOf(before)) \ InsOf(before)

(***************************************************************************)
(* The least set of transactions that holds those of S and is closed under *)
(* F.                                                                      *)
(***************************************************************************)
Closed(D, F) == \A d \in D : F[d] \subseteq D

Closure(S, F) == {t \in Txs : \A D \in SUBSET Txs : S \subseteq D /\ Closed(D, F) => t \in D}

-----------------------------------------------------------------------------
(***************************************************************************)
(* removeTransaction: a transaction and, if wanted, all that redeem its    *)
(* outputs.                                                                *)
(***************************************************************************)
Redeemers == [t \in Txs |-> {outpoints[op] : op \in Outs(t)} \ {None}]

WithRedeemers(S) == Closure(S, Redeemers)

(***************************************************************************)
(* The transactions of R leave the pool and their inputs are unspent.  The *)
(* fault forgets the latter.                                               *)
(***************************************************************************)
OutpointsKept(R) == outpoints

OutpointsWithout(R) ==
    [op \in OutPoints |-> IF op \in InsOf(R \cap pool) THEN None ELSE outpoints[op]]

removeTransactions(R) ==
    /\ pool' = pool \ R
    /\ outpoints' = OutpointsWithout(R)

(***************************************************************************)
(* removeOrphan and removeOrphanDoubleSpends: orphans leave the orphan     *)
(* pool and its index, with all orphans that redeem their outputs where    *)
(* that is asked for.  One fault forgets the index, another one the        *)
(* orphans that double-spend.                                              *)
(***************************************************************************)
OrphanRedeemers == [t \in Txs |-> UNION {orphansByPrev[op] : op \in Outs(t)}]

OnlyOrphans(S) == S \cap orphans
OrphansWithRedeemers(S) == Closure(S \cap orphans, OrphanRedeemers)

NoDoubleSpendingOrphans(T) == {}
DoubleSpendingOrphans(T) == UNION {orphansByPrev[op] : op \in InsOf(T)}

OrphansByPrevKept(R) == orphansByPrev
OrphansByPrevWithout(R) == [op \in OutPoints |-> orphansByPrev[op] \ R]

removeOrphans(R) ==
    /\ orphans' = orphans \ R
    /\ orphansByPrev' = OrphansByPrevWithout(R)
    /\ tag' = [t \in Txs |-> IF t \in R THEN None ELSE tag[t]]

(***************************************************************************)
(* addTransaction.  The fault makes a new index.                           *)
(***************************************************************************)
newIndex(t) ==
    /\ pool' = pool \cup {t}
    /\ outpoints' = [op \in Ins[t] |-> t]

addTransaction(t) ==
    /\ pool' = pool \cup {t}
    /\ outpoints' = [op \in OutPoints |-> IF op \in Ins[t] THEN t ELSE outpoints[op]]

(***************************************************************************)
(* addOrphan, with limitNumOrphans: expired orphans go, and then another   *)
(* one if there is no room.  The fault looks for room too late.            *)
(***************************************************************************)
RoomForOne(O) == Cardinality(O) <= MaxOrphanTxs
HasRoom(O) == Cardinality(O) + 1 <= MaxOrphanTxs

Evicted(R) ==
    IF HasRoom(orphans \ R) THEN {R} ELSE {R \cup {o} : o \in orphans \ R}

addOrphan(t, p) ==
    \E X \in (IF Expiry THEN SUBSET orphans ELSE {{}}) :
    \E R \in Evicted(OrphansWithRedeemers(X)) :
        /\ orphans' = (orphans \ R) \cup {t}
        /\ orphansByPrev' = [op \in OutPoints |->
              (orphansByPrev[op] \ R) \cup (IF op \in Ins[t] THEN {t} ELSE {})]
        /\ tag' = [o \in Txs |-> IF o = t THEN p ELSE IF o \in R THEN None ELSE tag[o]]

(***************************************************************************)
(* maybeAcceptTransaction: what may come out of it.  It looks for a        *)
(* transaction of its own in the pool (and in the orphan pool, if dup is   *)
(* set), for rules the transaction breaks, for spenders of its inputs in   *)
(* the pool, for itself in the chain, for its inputs in the chain and the  *)
(* pool, and last at the rules that depend on the inputs, fees and rates.  *)
(***************************************************************************)
checkPoolDoubleSpend(t) == \E op \in Ins[t] : outpoints[op] # None

HaveInputs(t) == Ins[t] \subseteq Unspent \cup OutsOf(pool)

Refused(t, dup) ==
    \/ t \in pool \/ (dup /\ t \in orphans)
    \/ t \in NonStd
    \/ checkPoolDoubleSpend(t)
    \/ Outs(t) \cap Unspent # {}

maybeAcceptTransaction(t, dup) ==
    IF Refused(t, dup) THEN {"error"}
    ELSE IF ~HaveInputs(t) THEN {"orphan"}
    ELSE IF t \in Free THEN {"accepted", "error"}
    ELSE {"accepted"}

-----------------------------------------------------------------------------
(***************************************************************************)
(* processOrphans, for an accepted transaction T: the outputs of T are     *)
(* looked at one after the other, and then those of the orphans accepted   *)
(* on the way.  Of the orphans that wait for an output, in any order, the  *)
(* first that is no longer an orphan is accepted or thrown away, with its  *)
(* redeemers, and the others are left.  The fault does not look at the     *)
(* outputs of the orphans it accepts.                                      *)
(***************************************************************************)
StartOrphans(t) == work' = [busy |-> TRUE, queue |-> TxOut[t], accepted |-> {t}]

NoMore(o) == <<>>
OutputsOf(o) == TxOut[o]

Resolvable(op) ==
    {o \in orphansByPrev[op] : maybeAcceptTransaction(o, FALSE) # {"orphan"}}

NextOutput == work' = [work EXCEPT !.queue = Tail(@)]

ProcessOutput ==
    LET op == Head(work.queue) IN
    /\ work.busy /\ work.queue # <<>>
    /\ \/ /\ Resolvable(op) = {}
          /\ NextOutput
          /\ UNCHANGED <<poolVars, orphanVars>>
       \/ \E o \in Resolvable(op) :
             \/ /\ "error" \in maybeAcceptTransaction(o, FALSE)
                /\ removeOrphans(OrphansWithRedeemers({o}))
                /\ NextOutput
                /\ UNCHANGED poolVars
             \/ /\ "accepted" \in maybeAcceptTransaction(o, FALSE)
                /\ addTransaction(o)
                /\ removeOrphans(OnlyOrphans({o}))
                /\ work' = [busy |-> TRUE, queue |-> Tail(work.queue) \o OutputsOf(o),
                            accepted |-> work.accepted \cup {o}]
    /\ UNCHANGED <<chainVars, peerVars, note>>

AfterProcess == IF note.step = "processing"
                THEN [step |-> IF Len(note.txs) = 1 THEN "none" ELSE "remove",
                      txs |-> Tail(note.txs)]
                ELSE note

ProcessedOrphans ==
    /\ work.busy /\ work.queue = <<>>
    /\ removeOrphans(OrphansWithRedeemers(DoubleSpendingOrphans(work.accepted)))
    /\ work' = NoWork
    /\ note' = AfterProcess
    /\ UNCHANGED <<chainVars, poolVars, peerVars>>

(***************************************************************************)
(* ProcessTransaction, called by handleTxMsg and by sendrawtransaction.  A *)
(* transaction that is refused, or an orphan that is not allowed, changes  *)
(* nothing.                                                                *)
(***************************************************************************)
Accept(t) ==
    /\ "accepted" \in maybeAcceptTransaction(t, TRUE)
    /\ addTransaction(t)
    /\ UNCHANGED orphanVars

ManagerIdle == note = NoNote /\ reorg = "none"

PeerTx(p, t) ==
    /\ p \in peerStates /\ ManagerIdle /\ ~work.busy
    /\ \/ Accept(t) /\ StartOrphans(t)
       \/ /\ "orphan" \in maybeAcceptTransaction(t, TRUE) /\ MaxOrphanTxs > 0
          /\ addOrphan(t, p)
          /\ UNCHANGED <<poolVars, work>>
    /\ UNCHANGED <<chainVars, peerVars, note>>

SendRawTransaction(t) ==
    /\ ~work.busy
    /\ Accept(t) /\ StartOrphans(t)
    /\ UNCHANGED <<chainVars, peerVars, note>>

(***************************************************************************)
(* A peer leaves: the sync manager is told, with a message that waits      *)
(* behind those of the peer, and the orphans of the peer are removed.      *)
(***************************************************************************)
PeerLeaves(p) ==
    /\ p \in peers /\ ~work.busy
    /\ peers' = peers \ {p}
    /\ removeOrphans(OrphansWithRedeemers({o \in orphans : tag[o] = p}))
    /\ UNCHANGED <<chainVars, poolVars, peerStates, note, work>>

HandleDonePeer(p) ==
    /\ p \in peerStates \ peers /\ ManagerIdle /\ ~work.busy
    /\ peerStates' = peerStates \ {p}
    /\ UNCHANGED <<chainVars, poolVars, orphanVars, peers, note, work>>

-----------------------------------------------------------------------------
(***************************************************************************)
(* The chain connects or disconnects a block, and then tells the sync      *)
(* manager, in whose goroutine it runs; the pool's lock does not stop it.  *)
(* A reorganization disconnects blocks and then connects others, which may *)
(* be fewer (BlockChain says when), and may give up after any of them.     *)
(***************************************************************************)
Notify(step, b) == note' = IF b = <<>> THEN NoNote ELSE [step |-> step, txs |-> b]

ConnectBlock(b) ==
    /\ note = NoNote /\ connected < MaxChain
    /\ IsValidBlock(b)
    /\ chain' = Append(chain, b)
    /\ connected' = connected + 1
    /\ reorg' \in (IF reorg = "none" THEN {"none"} ELSE {"attach", "none"})
    /\ Notify("remove", b)
    /\ UNCHANGED <<poolVars, orphanVars, peerVars, work>>

DisconnectBlock ==
    /\ note = NoNote /\ chain # <<>> /\ reorg # "attach"
    /\ connected < MaxChain
    /\ chain' = SubSeq(chain, 1, Len(chain) - 1)
    /\ reorg' \in {"detach", "none"}
    /\ Notify("reinsert", chain[Len(chain)])
    /\ UNCHANGED <<connected, poolVars, orphanVars, peerVars, work>>

(***************************************************************************)
(* handleBlockchainNotification: the calls for a transaction of a          *)
(* connected block, in order, and for one of a disconnected block.  The    *)
(* fault leaves the transactions that redeem a double spend.               *)
(***************************************************************************)
Current(step) == note.step = step /\ ~work.busy

GoTo(step) == note' = [note EXCEPT !.step = step]

RemoveTransaction ==
    /\ Current("remove")
    /\ removeTransactions({Head(note.txs)})
    /\ GoTo("doubles")
    /\ UNCHANGED <<chainVars, orphanVars, peerVars, work>>

OnlyDoubleSpends(S) == S
DoubleSpends(S) == WithRedeemers(S)

RemoveDoubleSpends ==
    LET t == Head(note.txs) IN
    /\ Current("doubles")
    /\ removeTransactions(DoubleSpends({outpoints[op] : op \in Ins[t]} \ {None, t}))
    /\ GoTo("orphan")
    /\ UNCHANGED <<chainVars, orphanVars, peerVars, work>>

RemoveOrphan ==
    /\ Current("orphan")
    /\ removeOrphans(OnlyOrphans({Head(note.txs)}))
    /\ GoTo("process")
    /\ UNCHANGED <<chainVars, poolVars, peerVars, work>>

ProcessOrphans ==
    /\ Current("process")
    /\ StartOrphans(Head(note.txs))
    /\ GoTo("processing")
    /\ UNCHANGED <<chainVars, poolVars, orphanVars, peerVars>>

MaybeAcceptTransaction ==
    LET t == Head(note.txs) IN
    /\ Current("reinsert")
    /\ \/ Accept(t) /\ Notify("reinsert", Tail(note.txs))
       \/ /\ "orphan" \in maybeAcceptTransaction(t, TRUE)
          /\ Notify("reinsert", Tail(note.txs))
          /\ UNCHANGED <<poolVars, orphanVars>>
       \/ /\ "error" \in maybeAcceptTransaction(t, TRUE)
          /\ GoTo("drop")
          /\ UNCHANGED <<poolVars, orphanVars>>
    /\ UNCHANGED <<chainVars, peerVars, work>>

DropTransaction ==
    /\ Current("drop")
    /\ removeTransactions(WithRedeemers({Head(note.txs)}))
    /\ Notify("reinsert", Tail(note.txs))
    /\ UNCHANGED <<chainVars, orphanVars, peerVars, work>>

Next ==
    \/ ProcessOutput \/ ProcessedOrphans
    \/ \E t \in Txs : SendRawTransaction(t) \/ \E p \in Peers : PeerTx(p, t)
    \/ \E p \in Peers : PeerLeaves(p) \/ HandleDonePeer(p)
    \/ \E b \in Blocks : ConnectBlock(b)
    \/ DisconnectBlock
    \/ RemoveTransaction \/ RemoveDoubleSpends \/ RemoveOrphan \/ ProcessOrphans
    \/ MaybeAcceptTransaction \/ DropTransaction

Spec == Init /\ [][Next]_vars

-----------------------------------------------------------------------------
Reorgs == {"none", "detach", "attach"}

(***************************************************************************)
(* Type correctness.                                                       *)
(***************************************************************************)
TypeOK ==
    /\ chain \in Seq(Blocks) /\ connected \in 0..MaxChain
    /\ reorg \in Reorgs
    /\ note \in [step : {"none", "remove", "doubles", "orphan", "process", "processing",
                         "reinsert", "drop"}, txs : Seq(Txs)]
    /\ pool \subseteq Txs /\ outpoints \in [OutPoints -> Txs \cup {None}]
    /\ orphans \subseteq Txs /\ tag \in [Txs -> Peers \cup {None}]
    /\ orphansByPrev \in [OutPoints -> SUBSET Txs]
    /\ work \in [busy : BOOLEAN, queue : Seq(OutPoints), accepted : SUBSET Txs]
    /\ peers \subseteq Peers /\ peerStates \subseteq Peers

(***************************************************************************)
(* mp.outpoints is exactly the index of the outputs that the pool spends:  *)
(* no two transactions of the pool spend the same output, and nothing      *)
(* blocks an output that no transaction of the pool spends.                *)
(***************************************************************************)
SpendsIndexed ==
    \A op \in OutPoints, t \in Txs : outpoints[op] = t <=> t \in pool /\ op \in Ins[t]

(***************************************************************************)
(* mp.orphansByPrev is exactly the index of the outputs the orphans spend, *)
(* and no transaction is both in the pool and an orphan.                   *)
(***************************************************************************)
OrphansIndexed ==
    /\ \A op \in OutPoints : orphansByPrev[op] = {o \in orphans : op \in Ins[o]}
    /\ pool \cap orphans = {}

(***************************************************************************)
(* The orphan pool does not grow over its limit, through expiry, eviction  *)
(* and the recursive removals.                                             *)
(***************************************************************************)
OrphansLimited == Cardinality(orphans) <= MaxOrphanTxs

(***************************************************************************)
(* When the sync manager has handled the notifications of the chain, the   *)
(* pool could be mined: no transaction of it is confirmed, and every input *)
(* is unspent in the chain or created by another transaction of the pool,  *)
(* through reorganizations and RPCs between any two calls.  The            *)
(* notification handler promises to "remove the transaction and all        *)
(* transactions that depend on it if it wasn't accepted into the           *)
(* transaction pool" (manager.go 688-689).                                 *)
(***************************************************************************)
PoolMinable ==
    note = NoNote =>
        /\ pool \cap Confirmed = {}
        /\ InsOf(pool) \subseteq Unspent \cup OutsOf(pool)

(***************************************************************************)
(* Transactions that some block carries after a transaction they spend an  *)
(* output of.  When such a block is disconnected and the parent does not   *)
(* return to the pool, MaybeAcceptTransaction finds an orphan, which is no *)
(* error: the transaction is not put back and its redeemers stay           *)
(* (manager.go 686-690).                                                   *)
(***************************************************************************)
Chained == {t \in Txs : \E b \in Blocks : \E i \in DOMAIN b :
               t = b[i] /\ Ins[t] \cap OutsOf({b[k] : k \in 1..(i-1)}) # {}}

(***************************************************************************)
(* Nothing spends an output of a transaction that a block carries after    *)
(* its parent.  handleBlockchainNotification strands such a spender.       *)
(***************************************************************************)
ChainedUnspent == InsOf(Txs) \cap OutsOf(Chained) = {}

\* The transactions that blocks carry.
Carried == UNION {ElementsOf(b) : b \in Blocks}

(***************************************************************************)
(* No orphan waits for an output that the pool spends, and could only be   *)
(* thrown away later: addOrphan comes after the test for double spends,    *)
(* and ProcessOrphans ends with removeOrphanDoubleSpends for all that it   *)
(* accepted.  Only a transaction that came back with a disconnected block  *)
(* may conflict with an orphan, for nothing looks at the orphans then.     *)
(***************************************************************************)
OrphansNoConflict ==
    ~work.busy =>
        \A o \in orphans : \A op \in Ins[o] : outpoints[op] \in {None} \cup Carried

(***************************************************************************)
(* ProcessOrphans goes on "until there are no more" (mempool.go 236-237):  *)
(* an orphan is left only if an output it spends does not exist, or is     *)
(* spent by a transaction of the pool.  Excepted are conflicts with a      *)
(* transaction that does not return to the pool when its block is          *)
(* disconnected: nothing looks for the orphans it had kept out.            *)
(***************************************************************************)
KeptOut == {o \in Txs : Ins[o] \cap InsOf(Carried \cap (Free \cup NonStd)) # {}}

NoOrphanLeft ==
    note = NoNote /\ ~work.busy =>
        \A o \in orphans \ KeptOut : ~HaveInputs(o) \/ checkPoolDoubleSpend(o)
=============================================================================
