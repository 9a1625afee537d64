---------------------------- MODULE Mempool_proofs ----------------------------
(***************************************************************************)
(* Proofs about Mempool, for any transactions, blocks and peers: both      *)
(* indexes are exact, the orphan pool keeps its limit, the pool can be     *)
(* mined, no orphan redeems what the pool redeems, and none is left whose  *)
(* inputs are all there.                                                   *)
(***************************************************************************)
EXTENDS Mempool, FiniteSetTheorems, TLAPS

(***************************************************************************)
(* A notification is at a step as long as it has transactions left.        *)
(***************************************************************************)
NoteInv == note.step # "none" => note.txs # <<>>

Inv == TypeOK /\ NoteInv /\ SpendsIndexed /\ OrphansIndexed /\ OrphansLimited

-----------------------------------------------------------------------------
(***************************************************************************)
(* The pieces the actions are made of.                                     *)
(***************************************************************************)
LEMMA RemoveTransactionsInv ==
    ASSUME TypeOK, SpendsIndexed, pool \cap orphans = {}, NEW R, removeTransactions(R)
    PROVE  /\ pool' \subseteq pool /\ outpoints' \in [OutPoints -> Txs \cup {None}]
           /\ SpendsIndexed'
<1>1. pool' = pool \ R /\ pool \subseteq Txs
  BY DEF removeTransactions, TypeOK
<1>2. outpoints' = [op \in OutPoints |-> IF op \in InsOf(R \cap pool) THEN None ELSE outpoints[op]]
  BY DEF removeTransactions, OutpointsWithout
<1>3. outpoints' \in [OutPoints -> Txs \cup {None}]
  BY <1>2 DEF TypeOK
<1>4. ASSUME NEW op \in OutPoints, NEW t \in Txs
      PROVE  outpoints'[op] = t <=> t \in pool' /\ op \in Ins[t]
  <2>1. outpoints[op] = t <=> t \in pool /\ op \in Ins[t]
    BY DEF SpendsIndexed
  <2>2. None \notin Txs
    BY MempoolAssumption
  <2>3. CASE op \in InsOf(R \cap pool)
    <3>1. PICK r \in R \cap pool : op \in Ins[r]
      BY <2>3 DEF InsOf
    <3>2. outpoints[op] = r
      BY <3>1, <1>1 DEF SpendsIndexed
    <3>3. outpoints'[op] = None
      BY <1>2, <2>3
    <3> QED
      BY <1>1, <2>1, <2>2, <3>1, <3>2, <3>3
  <2>4. CASE op \notin InsOf(R \cap pool)
    <3>1. outpoints'[op] = outpoints[op]
      BY <1>2, <2>4
    <3>2. ~(t \in R /\ t \in pool /\ op \in Ins[t])
      BY <2>4 DEF InsOf
    <3> QED
      BY <1>1, <2>1, <3>1, <3>2
  <2> QED
    BY <2>3, <2>4
<1> QED
  BY <1>1, <1>3, <1>4 DEF SpendsIndexed

LEMMA AddTransactionInv ==
    ASSUME TypeOK, SpendsIndexed, NEW t \in Txs, addTransaction(t),
           t \notin pool, ~checkPoolDoubleSpend(t)
    PROVE  /\ pool' = pool \cup {t} /\ outpoints' \in [OutPoints -> Txs \cup {None}]
           /\ SpendsIndexed'
<1>1. outpoints' = [op \in OutPoints |-> IF op \in Ins[t] THEN t ELSE outpoints[op]]
      /\ pool' = pool \cup {t}
  BY DEF addTransaction
<1>2. outpoints' \in [OutPoints -> Txs \cup {None}]
  BY <1>1 DEF TypeOK
<1>3. ASSUME NEW op \in OutPoints, NEW s \in Txs
      PROVE  outpoints'[op] = s <=> s \in pool' /\ op \in Ins[s]
  <2>1. outpoints[op] = s <=> s \in pool /\ op \in Ins[s]
    BY DEF SpendsIndexed
  <2>2. CASE op \in Ins[t]
    <3>1. outpoints[op] = None /\ None \notin Txs
      BY <2>2, MempoolAssumption DEF checkPoolDoubleSpend
    <3> QED
      BY <1>1, <2>1, <2>2, <3>1
  <2>3. CASE op \notin Ins[t]
    BY <1>1, <2>1, <2>3
  <2> QED
    BY <2>2, <2>3
<1> QED
  BY <1>1, <1>2, <1>3 DEF SpendsIndexed

LEMMA RemoveOrphansInv ==
    ASSUME Inv, NEW R, removeOrphans(R)
    PROVE  /\ orphans' \subseteq orphans
           /\ tag' \in [Txs -> Peers \cup {None}] /\ orphansByPrev' \in [OutPoints -> SUBSET Txs]
           /\ \A op \in OutPoints : orphansByPrev'[op] = {o \in orphans' : op \in Ins[o]}
           /\ OrphansLimited'
<1> USE DEF Inv
<1>1. orphans' = orphans \ R
  BY DEF removeOrphans
<1>2. tag' \in [Txs -> Peers \cup {None}]
  BY DEF removeOrphans, TypeOK
<1>3. orphansByPrev' = [op \in OutPoints |-> orphansByPrev[op] \ R]
  BY DEF removeOrphans, OrphansByPrevWithout
<1>4. \A op \in OutPoints : orphansByPrev'[op] = {o \in orphans' : op \in Ins[o]}
  BY <1>1, <1>3 DEF OrphansIndexed
<1>5. orphansByPrev' \in [OutPoints -> SUBSET Txs]
  BY <1>3 DEF TypeOK
<1>6. OrphansLimited'
  <2>1. IsFiniteSet(orphans)
    BY FS_Subset, MempoolAssumption DEF TypeOK
  <2>2. Cardinality(orphans') <= Cardinality(orphans) /\ IsFiniteSet(orphans')
    BY <1>1, <2>1, FS_Subset
  <2>3. Cardinality(orphans) \in Nat /\ Cardinality(orphans') \in Nat
    BY <2>1, <2>2, FS_CardinalityType
  <2> QED
    BY <2>2, <2>3, MempoolAssumption DEF OrphansLimited
<1> QED
  BY <1>1, <1>2, <1>4, <1>5, <1>6

(***************************************************************************)
(* addOrphan makes room before it adds.                                    *)
(***************************************************************************)
LEMMA AddOrphanInv ==
    ASSUME Inv, NEW t \in Txs, NEW p \in Peers, addOrphan(t, p)
    PROVE  /\ orphans' \subseteq orphans \cup {t}
           /\ tag' \in [Txs -> Peers \cup {None}] /\ orphansByPrev' \in [OutPoints -> SUBSET Txs]
           /\ \A op \in OutPoints : orphansByPrev'[op] = {o \in orphans' : op \in Ins[o]}
           /\ OrphansLimited'
<1> USE DEF Inv
<1>1. PICK X : \E R \in Evicted(X) :
        /\ orphans' = (orphans \ R) \cup {t}
        /\ orphansByPrev' = [op \in OutPoints |->
              (orphansByPrev[op] \ R) \cup (IF op \in Ins[t] THEN {t} ELSE {})]
        /\ tag' = [o \in Txs |-> IF o = t THEN p ELSE IF o \in R THEN None ELSE tag[o]]
  BY DEF addOrphan
<1>2. PICK R \in Evicted(X) :
        /\ orphans' = (orphans \ R) \cup {t}
        /\ orphansByPrev' = [op \in OutPoints |->
              (orphansByPrev[op] \ R) \cup (IF op \in Ins[t] THEN {t} ELSE {})]
        /\ tag' = [o \in Txs |-> IF o = t THEN p ELSE IF o \in R THEN None ELSE tag[o]]
  BY <1>1
<1>3. tag' \in [Txs -> Peers \cup {None}]
  BY <1>2 DEF TypeOK
<1>4. orphansByPrev' \in [OutPoints -> SUBSET Txs]
  BY <1>2 DEF TypeOK
<1>5. ASSUME NEW op \in OutPoints
      PROVE  orphansByPrev'[op] = {o \in orphans' : op \in Ins[o]}
  <2>1. orphansByPrev[op] = {o \in orphans : op \in Ins[o]}
    BY DEF OrphansIndexed
  <2>2. orphansByPrev'[op] = (orphansByPrev[op] \ R) \cup (IF op \in Ins[t] THEN {t} ELSE {})
    BY <1>2
  <2> QED
    BY <1>2, <2>1, <2>2
<1>6. OrphansLimited'
  <2> DEFINE O == orphans \ X
  <2>1. IsFiniteSet(orphans)
    BY FS_Subset, MempoolAssumption DEF TypeOK
  <2>2. IsFiniteSet(O) /\ Cardinality(O) <= Cardinality(orphans)
    BY <2>1, FS_Subset
  <2>3. Cardinality(O) \in Nat /\ Cardinality(orphans) \in Nat /\ MaxOrphanTxs \in Nat
    BY <2>1, <2>2, FS_CardinalityType, MempoolAssumption
  <2>4. Cardinality(orphans) <= MaxOrphanTxs
    BY DEF OrphansLimited
  <2>5. IsFiniteSet(orphans \ R) /\ Cardinality(orphans \ R) + 1 <= MaxOrphanTxs
    <3>1. CASE HasRoom(O)
      <4>1. R = X
        BY <1>2, <3>1 DEF Evicted
      <4> QED
        BY <3>1, <4>1, <2>2 DEF HasRoom
    <3>2. CASE ~HasRoom(O)
      <4>1. PICK o \in O : R = X \cup {o}
        BY <1>2, <3>2 DEF Evicted
      <4>2. orphans \ R = O \ {o}
        BY <4>1
      <4>3. IsFiniteSet(O \ {o}) /\ Cardinality(O \ {o}) = Cardinality(O) - 1
        BY <2>2, FS_RemoveElement
      <4>4. IsFiniteSet(orphans \ R) /\ Cardinality(orphans \ R) = Cardinality(O) - 1
        BY <4>2, <4>3
      <4> HIDE DEF O
      <4>5. Cardinality(O) - 1 + 1 <= MaxOrphanTxs
        BY <2>2, <2>3, <2>4
      <4> QED
        BY <2>3, <4>4, <4>5
    <3> QED
      BY <3>1, <3>2
  <2>6. /\ IsFiniteSet((orphans \ R) \cup {t})
        /\ Cardinality((orphans \ R) \cup {t}) <= Cardinality(orphans \ R) + 1
    <3>1. Cardinality(orphans \ R) \in Nat
      BY <2>5, FS_CardinalityType
    <3>2. /\ IsFiniteSet((orphans \ R) \cup {t})
          /\ \/ Cardinality((orphans \ R) \cup {t}) = Cardinality(orphans \ R)
             \/ Cardinality((orphans \ R) \cup {t}) = Cardinality(orphans \ R) + 1
      BY <2>5, FS_AddElement
    <3> QED
      BY <3>1, <3>2
  <2>7. Cardinality(orphans \ R) \in Nat /\ Cardinality((orphans \ R) \cup {t}) \in Nat
    BY <2>5, <2>6, FS_CardinalityType
  <2>8. Cardinality((orphans \ R) \cup {t}) <= MaxOrphanTxs
    BY <2>3, <2>5, <2>6, <2>7
  <2> QED
    BY <1>2, <2>8 DEF OrphansLimited
<1> QED
  BY <1>2, <1>3, <1>4, <1>5, <1>6

(***************************************************************************)
(* What is accepted is not in the pool, spends nothing the pool spends     *)
(* and, where that is looked at, is not an orphan.                         *)
(***************************************************************************)
LEMMA AcceptedFacts ==
    ASSUME NEW t, NEW dup, "error" # "accepted", "orphan" # "accepted",
           "accepted" \in maybeAcceptTransaction(t, dup)
    PROVE  t \notin pool /\ ~checkPoolDoubleSpend(t) /\ (dup => t \notin orphans)
BY DEF maybeAcceptTransaction, Refused

LEMMA OrphanFacts ==
    ASSUME NEW t, NEW dup, "error" # "orphan", "orphan" # "accepted",
           "orphan" \in maybeAcceptTransaction(t, dup)
    PROVE  t \notin pool
BY DEF maybeAcceptTransaction, Refused

(***************************************************************************)
(* The parts of the invariant are preserved when the variables they are    *)
(* about do not change.                                                    *)
(***************************************************************************)
LEMMA PoolUnchanged ==
    ASSUME TypeOK, SpendsIndexed, UNCHANGED poolVars
    PROVE  /\ pool' = pool /\ outpoints' \in [OutPoints -> Txs \cup {None}] /\ SpendsIndexed'
BY DEF TypeOK, SpendsIndexed, poolVars

LEMMA OrphansUnchanged ==
    ASSUME TypeOK, OrphansIndexed, OrphansLimited, UNCHANGED orphanVars
    PROVE  /\ orphans' = orphans
           /\ tag' \in [Txs -> Peers \cup {None}] /\ orphansByPrev' \in [OutPoints -> SUBSET Txs]
           /\ \A op \in OutPoints : orphansByPrev'[op] = {o \in orphans' : op \in Ins[o]}
           /\ OrphansLimited'
BY DEF TypeOK, OrphansIndexed, OrphansLimited, orphanVars

NoteType == [step : {"none", "remove", "doubles", "orphan", "process", "processing",
                     "reinsert", "drop"}, txs : Seq(Txs)]
WorkType == [busy : BOOLEAN, queue : Seq(OutPoints), accepted : SUBSET Txs]

(***************************************************************************)
(* The invariant from its parts.                                           *)
(***************************************************************************)
LEMMA InvFromParts ==
    ASSUME chain' \in Seq(Blocks), connected' \in 0..MaxChain, reorg' \in Reorgs,
           note' \in NoteType, NoteInv', work' \in WorkType,
           pool' \subseteq Txs, outpoints' \in [OutPoints -> Txs \cup {None}],
           orphans' \subseteq Txs, tag' \in [Txs -> Peers \cup {None}],
           orphansByPrev' \in [OutPoints -> SUBSET Txs],
           peers' \subseteq Peers, peerStates' \subseteq Peers,
           SpendsIndexed', OrphansLimited', pool' \cap orphans' = {},
           \A op \in OutPoints : orphansByPrev'[op] = {o \in orphans' : op \in Ins[o]}
    PROVE  Inv'
BY DEF Inv, TypeOK, OrphansIndexed, NoteType, WorkType

LEMMA InitInv == Init => Inv
<1> SUFFICES ASSUME Init PROVE Inv
  OBVIOUS
<1>1. NoNote \in NoteType /\ NoWork \in WorkType
  BY DEF NoNote, NoWork, NoteType, WorkType
<1>2. TypeOK
  BY <1>1, MempoolAssumption DEF Init, TypeOK, NoteType, WorkType, Reorgs
<1>3. SpendsIndexed
  BY MempoolAssumption DEF Init, SpendsIndexed
<1>4. OrphansIndexed
  BY DEF Init, OrphansIndexed
<1>5. OrphansLimited
  BY FS_EmptySet, MempoolAssumption DEF Init, OrphansLimited
<1>6. NoteInv
  BY DEF Init, NoteInv, NoNote
<1> QED
  BY <1>2, <1>3, <1>4, <1>5, <1>6 DEF Inv

-----------------------------------------------------------------------------
(***************************************************************************)
(* Notifications: going on to another step, and to the next transaction.   *)
(***************************************************************************)
LEMMA GoToType ==
    ASSUME Inv, note.step # "none",
           NEW s \in {"doubles", "orphan", "process", "processing", "drop"}, GoTo(s)
    PROVE  note' \in NoteType /\ NoteInv'
<1>1. note \in NoteType /\ note.txs # <<>>
  BY DEF Inv, TypeOK, NoteType, NoteInv
<1>2. note'.txs = note.txs /\ note'.step = s /\ note' \in NoteType
  BY <1>1 DEF GoTo, NoteType
<1> QED
  BY <1>1, <1>2 DEF NoteInv

LEMMA NotifyType ==
    ASSUME NEW s \in {"remove", "reinsert"}, NEW b \in Seq(Txs), Notify(s, b)
    PROVE  note' \in NoteType /\ NoteInv'
<1>1. CASE b = <<>>
  BY <1>1 DEF Notify, NoNote, NoteType, NoteInv
<1>2. CASE b # <<>>
  BY <1>2 DEF Notify, NoteType, NoteInv
<1> QED
  BY <1>1, <1>2

LEMMA HeadTail ==
    ASSUME Inv, note.step # "none"
    PROVE  Head(note.txs) \in Txs /\ Tail(note.txs) \in Seq(Txs)
<1>1. note.txs \in Seq(Txs) /\ note.txs # <<>>
  BY DEF Inv, TypeOK, NoteInv
<1> QED
  BY <1>1

LEMMA NoteAlone ==
    ASSUME Inv, UNCHANGED note
    PROVE  note' \in NoteType /\ NoteInv'
BY DEF Inv, TypeOK, NoteType, NoteInv

LEMMA WorkAlone ==
    ASSUME Inv, UNCHANGED work
    PROVE  work' \in WorkType
BY DEF Inv, TypeOK, WorkType

LEMMA StartOrphansType ==
    ASSUME NEW t \in Txs, StartOrphans(t)
    PROVE  work' \in WorkType
BY MempoolAssumption DEF StartOrphans, WorkType

LEMMA ChainAlone ==
    ASSUME Inv, UNCHANGED chainVars
    PROVE  chain' \in Seq(Blocks) /\ connected' \in 0..MaxChain /\ reorg' \in Reorgs
BY DEF Inv, TypeOK, chainVars

LEMMA PeersAlone ==
    ASSUME Inv, UNCHANGED peerVars
    PROVE  peers' \subseteq Peers /\ peerStates' \subseteq Peers
BY DEF Inv, TypeOK, peerVars

-----------------------------------------------------------------------------
LEMMA ProcessOutputInv == ASSUME Inv, ProcessOutput PROVE Inv'
<1> USE DEF Inv
<1> DEFINE op == Head(work.queue)
<1>0. work \in WorkType /\ work.queue \in Seq(OutPoints) /\ work.queue # <<>> /\ work.accepted \subseteq Txs
  BY DEF TypeOK, WorkType, ProcessOutput
<1>1. op \in OutPoints /\ Tail(work.queue) \in Seq(OutPoints)
  BY <1>0
<1>2. UNCHANGED chainVars /\ UNCHANGED peerVars /\ UNCHANGED note
  BY DEF ProcessOutput
<1>3. NextOutput => work' \in WorkType
  BY <1>0, <1>1 DEF NextOutput, WorkType
<1>4. pool \subseteq Txs /\ orphans \subseteq Txs /\ pool \cap orphans = {}
  BY DEF TypeOK, OrphansIndexed
<1> DEFINE Rest == /\ chain' \in Seq(Blocks) /\ connected' \in 0..MaxChain /\ reorg' \in Reorgs
                   /\ note' \in NoteType /\ NoteInv'
                   /\ peers' \subseteq Peers /\ peerStates' \subseteq Peers
<1>5. Rest
  BY <1>2, ChainAlone, PeersAlone, NoteAlone
<1>6. CASE NextOutput /\ UNCHANGED <<poolVars, orphanVars>>
  <2>1. UNCHANGED poolVars /\ UNCHANGED orphanVars
    BY <1>6
  <2> QED
    BY <1>3, <1>4, <1>5, <1>6, <2>1, PoolUnchanged, OrphansUnchanged, InvFromParts
<1>7. ASSUME NEW R, removeOrphans(R), NextOutput, UNCHANGED poolVars PROVE Inv'
  BY <1>3, <1>4, <1>5, <1>7, PoolUnchanged, RemoveOrphansInv, InvFromParts
<1>8. ASSUME NEW o \in Resolvable(op),
             "accepted" \in maybeAcceptTransaction(o, FALSE),
             addTransaction(o), removeOrphans(OnlyOrphans({o})),
             work' = [busy |-> TRUE, queue |-> Tail(work.queue) \o OutputsOf(o),
                      accepted |-> work.accepted \cup {o}]
      PROVE  Inv'
  <2>1. o \in orphans /\ o \in Txs
    BY <1>1, <1>4 DEF Resolvable, OrphansIndexed
  <2>2. work' \in WorkType
    <3>1. TxOut[o] \in Seq(OutPoints)
      BY <2>1, MempoolAssumption
    <3>2. Tail(work.queue) \o OutputsOf(o) \in Seq(OutPoints)
      BY <1>1, <3>1 DEF OutputsOf
    <3> QED
      BY <1>0, <1>8, <2>1, <3>2 DEF WorkType
  <2>3. o \notin pool /\ ~checkPoolDoubleSpend(o)
    BY <1>8, AcceptedFacts
  <2>4. /\ pool' = pool \cup {o} /\ outpoints' \in [OutPoints -> Txs \cup {None}]
        /\ SpendsIndexed'
    BY <1>8, <2>1, <2>3, AddTransactionInv
  <2>5. /\ orphans' \subseteq orphans
        /\ tag' \in [Txs -> Peers \cup {None}] /\ orphansByPrev' \in [OutPoints -> SUBSET Txs]
        /\ \A q \in OutPoints : orphansByPrev'[q] = {x \in orphans' : q \in Ins[x]}
        /\ OrphansLimited'
    BY <1>8, RemoveOrphansInv
  <2>6. o \notin orphans'
    BY <1>8, <2>1 DEF removeOrphans, OnlyOrphans
  <2>7. pool' \subseteq Txs /\ orphans' \subseteq Txs /\ pool' \cap orphans' = {}
    BY <1>4, <2>1, <2>4, <2>5, <2>6
  <2> QED
    BY <1>5, <2>2, <2>4, <2>5, <2>7, InvFromParts
<1>9. \/ NextOutput /\ UNCHANGED <<poolVars, orphanVars>>
      \/ \E o \in Resolvable(op) :
           \/ removeOrphans(OrphansWithRedeemers({o})) /\ NextOutput /\ UNCHANGED poolVars
           \/ /\ "accepted" \in maybeAcceptTransaction(o, FALSE)
              /\ addTransaction(o) /\ removeOrphans(OnlyOrphans({o}))
              /\ work' = [busy |-> TRUE, queue |-> Tail(work.queue) \o OutputsOf(o),
                          accepted |-> work.accepted \cup {o}]
  BY DEF ProcessOutput
<1> QED
  BY <1>6, <1>7, <1>8, <1>9

LEMMA ProcessedOrphansInv == ASSUME Inv, ProcessedOrphans PROVE Inv'
<1> USE DEF Inv
<1>1. UNCHANGED chainVars /\ UNCHANGED peerVars /\ UNCHANGED poolVars
  BY DEF ProcessedOrphans
<1>2. work' \in WorkType
  BY DEF ProcessedOrphans, NoWork, WorkType
<1>3. note' \in NoteType /\ NoteInv'
  <2>1. note \in NoteType /\ note' = AfterProcess
    BY DEF TypeOK, NoteType, ProcessedOrphans
  <2>2. CASE note.step = "processing"
    <3>1. note.txs \in Seq(Txs) /\ note.txs # <<>>
      BY <2>1, <2>2 DEF NoteType, NoteInv
    <3>2. Tail(note.txs) \in Seq(Txs) /\ (Len(note.txs) # 1 => Tail(note.txs) # <<>>)
      <4> DEFINE s == note.txs
      <4> HIDE DEF s
      <4>1. s \in Seq(Txs) /\ s # <<>>
        BY <3>1 DEF s
      <4>2. Tail(s) \in Seq(Txs)
        BY <4>1
      <4>3. Len(s) \in Nat /\ Len(Tail(s)) = Len(s) - 1
        BY <4>1
      <4>4. Len(s) # 1 => Len(Tail(s)) # 0
        BY <4>3
      <4>5. Len(s) # 1 => Tail(s) # <<>>
        BY <4>4
      <4> QED
        BY <4>2, <4>5 DEF s
    <3>3. note' = [step |-> IF Len(note.txs) = 1 THEN "none" ELSE "remove", txs |-> Tail(note.txs)]
      BY <2>1, <2>2 DEF AfterProcess
    <3> QED
      BY <3>2, <3>3 DEF NoteType, NoteInv
  <2>3. CASE note.step # "processing"
    BY <2>1, <2>3 DEF AfterProcess, NoteInv
  <2> QED
    BY <2>2, <2>3
<1>4. PICK R : removeOrphans(R)
  BY DEF ProcessedOrphans
<1>5. pool \subseteq Txs /\ orphans \subseteq Txs /\ pool \cap orphans = {}
  BY DEF TypeOK, OrphansIndexed
<1> QED
  BY <1>1, <1>2, <1>3, <1>4, <1>5, ChainAlone, PeersAlone, PoolUnchanged, RemoveOrphansInv, InvFromParts

(***************************************************************************)
(* ProcessTransaction.                                                     *)
(***************************************************************************)
LEMMA AcceptInv ==
    ASSUME Inv, NEW t \in Txs, Accept(t),
           UNCHANGED <<chainVars, peerVars>>, note' \in NoteType, NoteInv', work' \in WorkType
    PROVE  Inv'
<1> USE DEF Inv
<1>1. UNCHANGED chainVars /\ UNCHANGED peerVars /\ UNCHANGED orphanVars
  BY DEF Accept
<1>2. t \notin pool /\ ~checkPoolDoubleSpend(t) /\ t \notin orphans /\ addTransaction(t)
  BY AcceptedFacts DEF Accept
<1>3. /\ pool' = pool \cup {t} /\ outpoints' \in [OutPoints -> Txs \cup {None}]
      /\ SpendsIndexed'
  BY <1>2, AddTransactionInv
<1>4. pool \subseteq Txs /\ orphans \subseteq Txs /\ pool \cap orphans = {}
  BY DEF TypeOK, OrphansIndexed
<1>5. orphans' = orphans
  BY <1>1 DEF orphanVars
<1>6. pool' \subseteq Txs /\ orphans' \subseteq Txs /\ pool' \cap orphans' = {}
  BY <1>2, <1>3, <1>4, <1>5
<1> QED
  BY <1>1, <1>3, <1>6, ChainAlone, PeersAlone, OrphansUnchanged, InvFromParts

LEMMA ArrivesInv ==
    ASSUME Inv, NEW t \in Txs, SendRawTransaction(t) \/ \E p \in Peers : PeerTx(p, t)
    PROVE  Inv'
<1> USE DEF Inv
<1>0. UNCHANGED chainVars /\ UNCHANGED peerVars /\ UNCHANGED note
  BY DEF SendRawTransaction, PeerTx
<1>1. CASE Accept(t) /\ StartOrphans(t)
  BY <1>0, <1>1, NoteAlone, StartOrphansType, AcceptInv
<1>2. ASSUME NEW p \in Peers, "orphan" \in maybeAcceptTransaction(t, TRUE),
             addOrphan(t, p), UNCHANGED poolVars, UNCHANGED work
      PROVE  Inv'
  <2>1. t \notin pool
    BY <1>2, OrphanFacts
  <2>2. pool \subseteq Txs /\ orphans \subseteq Txs /\ pool \cap orphans = {}
    BY DEF TypeOK, OrphansIndexed
  <2>3. /\ orphans' \subseteq orphans \cup {t}
        /\ tag' \in [Txs -> Peers \cup {None}] /\ orphansByPrev' \in [OutPoints -> SUBSET Txs]
        /\ \A op \in OutPoints : orphansByPrev'[op] = {o \in orphans' : op \in Ins[o]}
        /\ OrphansLimited'
    BY <1>2, AddOrphanInv
  <2>4. pool' = pool /\ outpoints' \in [OutPoints -> Txs \cup {None}] /\ SpendsIndexed'
    BY <1>2, PoolUnchanged
  <2>5. pool' \subseteq Txs /\ orphans' \subseteq Txs /\ pool' \cap orphans' = {}
    BY <2>1, <2>2, <2>3, <2>4
  <2> QED
    BY <1>0, <1>2, <2>3, <2>4, <2>5, NoteAlone, WorkAlone, ChainAlone, PeersAlone, InvFromParts
<1> QED
  BY <1>1, <1>2 DEF SendRawTransaction, PeerTx

LEMMA PeerLeavesInv ==
    ASSUME Inv, NEW p \in Peers, PeerLeaves(p) \/ HandleDonePeer(p) PROVE Inv'
<1> USE DEF Inv
<1>1. pool \subseteq Txs /\ orphans \subseteq Txs /\ pool \cap orphans = {}
  BY DEF TypeOK, OrphansIndexed
<1>2. /\ UNCHANGED chainVars /\ UNCHANGED poolVars /\ UNCHANGED note /\ UNCHANGED work
      /\ peers' \subseteq Peers /\ peerStates' \subseteq Peers
  BY DEF PeerLeaves, HandleDonePeer, TypeOK
<1>3. (\E R : removeOrphans(R)) \/ UNCHANGED orphanVars
  BY DEF PeerLeaves, HandleDonePeer
<1>4. CASE UNCHANGED orphanVars
  BY <1>1, <1>2, <1>4, NoteAlone, WorkAlone, ChainAlone, PoolUnchanged, OrphansUnchanged, InvFromParts
<1>5. ASSUME NEW R, removeOrphans(R) PROVE Inv'
  BY <1>1, <1>2, <1>5, NoteAlone, WorkAlone, ChainAlone, PoolUnchanged, RemoveOrphansInv, InvFromParts
<1> QED
  BY <1>3, <1>4, <1>5

LEMMA ChainInv == ASSUME Inv, DisconnectBlock \/ \E b \in Blocks : ConnectBlock(b) PROVE Inv'
<1> USE DEF Inv
<1>1. /\ UNCHANGED poolVars /\ UNCHANGED orphanVars /\ UNCHANGED peerVars /\ UNCHANGED work
  BY DEF DisconnectBlock, ConnectBlock
<1>2. pool \subseteq Txs /\ orphans \subseteq Txs /\ pool \cap orphans = {}
  BY DEF TypeOK, OrphansIndexed
<1>3. /\ chain' \in Seq(Blocks) /\ connected' \in 0..MaxChain /\ reorg' \in Reorgs
      /\ note' \in NoteType /\ NoteInv'
  <2>1. ASSUME NEW b \in Blocks, ConnectBlock(b)
        PROVE  /\ chain' \in Seq(Blocks) /\ connected' \in 0..MaxChain /\ reorg' \in Reorgs
               /\ note' \in NoteType /\ NoteInv'
    <3>1. chain' \in Seq(Blocks)
      BY <2>1 DEF ConnectBlock, TypeOK
    <3>2. connected' \in 0..MaxChain /\ reorg' \in Reorgs
      BY <2>1, MempoolAssumption DEF ConnectBlock, TypeOK, Reorgs
    <3>3. b \in Seq(Txs)
      BY MempoolAssumption
    <3>4. Notify("remove", b)
      BY <2>1 DEF ConnectBlock
    <3> QED
      BY <3>1, <3>2, <3>3, <3>4, NotifyType
  <2>2. ASSUME DisconnectBlock
        PROVE  /\ chain' \in Seq(Blocks) /\ connected' \in 0..MaxChain /\ reorg' \in Reorgs
               /\ note' \in NoteType /\ NoteInv'
    <3>1. chain \in Seq(Blocks) /\ chain # <<>>
      BY <2>2 DEF DisconnectBlock, TypeOK
    <3>2. SubSeq(chain, 1, Len(chain) - 1) \in Seq(Blocks) /\ chain[Len(chain)] \in Blocks
      BY <3>1
    <3>3. connected' \in 0..MaxChain /\ reorg' \in Reorgs
      BY <2>2 DEF DisconnectBlock, TypeOK, Reorgs
    <3>4. chain[Len(chain)] \in Seq(Txs)
      BY <3>2, MempoolAssumption
    <3>5. Notify("reinsert", chain[Len(chain)]) /\ chain' = SubSeq(chain, 1, Len(chain) - 1)
      BY <2>2 DEF DisconnectBlock
    <3> QED
      BY <3>2, <3>3, <3>4, <3>5, NotifyType
  <2> QED
    BY <2>1, <2>2
<1> QED
  BY <1>1, <1>2, <1>3, PeersAlone, WorkAlone, PoolUnchanged, OrphansUnchanged, InvFromParts

(***************************************************************************)
(* The calls of handleBlockchainNotification.                              *)
(***************************************************************************)
LEMMA RemovesInv ==
    ASSUME Inv, NEW R, removeTransactions(R), UNCHANGED <<chainVars, orphanVars, peerVars, work>>,
           note' \in NoteType, NoteInv'
    PROVE  Inv'
<1> USE DEF Inv
<1>1. UNCHANGED chainVars /\ UNCHANGED orphanVars /\ UNCHANGED peerVars /\ UNCHANGED work
  OBVIOUS
<1>2. pool \subseteq Txs /\ orphans \subseteq Txs /\ pool \cap orphans = {}
  BY DEF TypeOK, OrphansIndexed
<1>3. /\ pool' \subseteq pool /\ outpoints' \in [OutPoints -> Txs \cup {None}]
      /\ SpendsIndexed'
  BY <1>2, RemoveTransactionsInv
<1>4. orphans' = orphans
  BY <1>1 DEF orphanVars
<1>5. pool' \subseteq Txs /\ orphans' \subseteq Txs /\ pool' \cap orphans' = {}
  BY <1>2, <1>3, <1>4
<1> QED
  BY <1>1, <1>3, <1>5, ChainAlone, PeersAlone, WorkAlone, OrphansUnchanged, InvFromParts

LEMMA NotificationInv ==
    ASSUME Inv, RemoveTransaction \/ RemoveDoubleSpends \/ RemoveOrphan \/ ProcessOrphans
                \/ MaybeAcceptTransaction \/ DropTransaction
    PROVE  Inv'
<1> USE DEF Inv
<1>0. note.step # "none"
  BY DEF RemoveTransaction, RemoveDoubleSpends, RemoveOrphan, ProcessOrphans,
         MaybeAcceptTransaction, DropTransaction, Current
<1>1. Head(note.txs) \in Txs /\ Tail(note.txs) \in Seq(Txs)
  BY <1>0, HeadTail
<1>2. pool \subseteq Txs /\ orphans \subseteq Txs /\ pool \cap orphans = {}
  BY DEF TypeOK, OrphansIndexed
<1>3. CASE RemoveTransaction
  BY <1>0, <1>3, GoToType, RemovesInv DEF RemoveTransaction
<1>4. CASE RemoveDoubleSpends
  BY <1>0, <1>4, GoToType, RemovesInv DEF RemoveDoubleSpends
<1>5. CASE RemoveOrphan
  <2>1. /\ UNCHANGED chainVars /\ UNCHANGED poolVars /\ UNCHANGED peerVars /\ UNCHANGED work
        /\ GoTo("process") /\ removeOrphans(OnlyOrphans({Head(note.txs)}))
    BY <1>5 DEF RemoveOrphan
  <2> QED
    BY <1>0, <1>2, <2>1, GoToType, ChainAlone, PeersAlone, WorkAlone, PoolUnchanged, RemoveOrphansInv, InvFromParts
<1>6. CASE ProcessOrphans
  <2>1. /\ UNCHANGED chainVars /\ UNCHANGED poolVars /\ UNCHANGED peerVars /\ UNCHANGED orphanVars
        /\ GoTo("processing") /\ StartOrphans(Head(note.txs))
    BY <1>6 DEF ProcessOrphans
  <2> QED
    BY <1>0, <1>1, <1>2, <2>1, GoToType, ChainAlone, PeersAlone, StartOrphansType, PoolUnchanged, OrphansUnchanged, InvFromParts
<1>7. CASE MaybeAcceptTransaction
  <2>0. UNCHANGED chainVars /\ UNCHANGED peerVars /\ UNCHANGED work
    BY <1>7 DEF MaybeAcceptTransaction
  <2>1. CASE Accept(Head(note.txs)) /\ Notify("reinsert", Tail(note.txs))
    BY <1>1, <2>0, <2>1, NotifyType, WorkAlone, AcceptInv
  <2>2. CASE UNCHANGED <<poolVars, orphanVars>> /\ (Notify("reinsert", Tail(note.txs)) \/ GoTo("drop"))
    <3>1. UNCHANGED poolVars /\ UNCHANGED orphanVars
      BY <2>2
    <3>2. note' \in NoteType /\ NoteInv'
      BY <1>0, <1>1, <2>2, NotifyType, GoToType
    <3> QED
      BY <1>2, <2>0, <3>1, <3>2, ChainAlone, PeersAlone, WorkAlone, PoolUnchanged, OrphansUnchanged, InvFromParts
  <2> QED
    BY <1>7, <2>1, <2>2 DEF MaybeAcceptTransaction
<1>8. CASE DropTransaction
  BY <1>1, <1>8, NotifyType, RemovesInv DEF DropTransaction
<1> QED
  BY <1>3, <1>4, <1>5, <1>6, <1>7, <1>8

LEMMA NextInv == Inv /\ [Next]_vars => Inv'
<1> SUFFICES ASSUME Inv, [Next]_vars PROVE Inv'
  OBVIOUS
<1>1. CASE UNCHANGED vars
  <2>1. /\ UNCHANGED chainVars /\ UNCHANGED poolVars /\ UNCHANGED orphanVars
        /\ UNCHANGED peerVars /\ UNCHANGED note /\ UNCHANGED work
    BY <1>1 DEF vars
  <2>2. pool \subseteq Txs /\ orphans \subseteq Txs /\ pool \cap orphans = {}
    BY DEF Inv, TypeOK, OrphansIndexed
  <2> QED
    BY <2>1, <2>2, NoteAlone, ChainAlone, PeersAlone, WorkAlone, PoolUnchanged, OrphansUnchanged, InvFromParts DEF Inv
<1> QED
  BY <1>1, ProcessOutputInv, ProcessedOrphansInv, ArrivesInv, PeerLeavesInv, ChainInv, NotificationInv DEF Next

LEMMA InvHolds == Spec => []Inv
BY InitInv, NextInv, PTL DEF Spec

-----------------------------------------------------------------------------
(***************************************************************************)
(* Type correctness.                                                       *)
(***************************************************************************)
THEOREM MempoolTypeCorrect == Spec => []TypeOK
<1>1. Inv => TypeOK
  BY DEF Inv
<1> QED
  BY <1>1, InvHolds, PTL

(***************************************************************************)
(* The pool never holds a double spend and blocks no other output,         *)
(* whatever is accepted, mined, disconnected and removed.                  *)
(***************************************************************************)
THEOREM MempoolSpendsIndexed == Spec => []SpendsIndexed
<1>1. Inv => SpendsIndexed
  BY DEF Inv
<1> QED
  BY <1>1, InvHolds, PTL

(***************************************************************************)
(* The index of the orphans is exact, and no orphan is in the pool.        *)
(***************************************************************************)
THEOREM MempoolOrphansIndexed == Spec => []OrphansIndexed
<1>1. Inv => OrphansIndexed
  BY DEF Inv
<1> QED
  BY <1>1, InvHolds, PTL

(***************************************************************************)
(* The orphan pool keeps its limit.                                        *)
(***************************************************************************)
THEOREM MempoolOrphansLimited == Spec => []OrphansLimited
<1>1. Inv => OrphansLimited
  BY DEF Inv
<1> QED
  BY <1>1, InvHolds, PTL

-----------------------------------------------------------------------------
(***************************************************************************)
(* The pool and the chain.  The second inductive invariant, ChainInv,      *)
(* says in which order the chain has confirmed transactions, which block a *)
(* notification is about, and how the pool differs from one that could be  *)
(* mined by what the notification has still to do.                         *)
(*                                                                         *)
(* ChainValid: every transaction of the chain was new where it stands and  *)
(* spends what the transactions before it leave.                           *)
(***************************************************************************)
ConfirmedUpTo(j) == UNION {ElementsOf(chain[i]) : i \in 1..j}

BeforeTx(j, i) == ConfirmedUpTo(j - 1) \cup {chain[j][k] : k \in 1..(i-1)}

ChainValid ==
    \A j \in DOMAIN chain : \A i \in DOMAIN chain[j] :
        /\ chain[j][i] \notin BeforeTx(j, i)
        /\ Ins[chain[j][i]] \subseteq (Coins \cup OutsOf(BeforeTx(j, i))) \ InsOf(BeforeTx(j, i))

(***************************************************************************)
(* What a notification has left is the rest of the block at the tip, or of *)
(* a disconnected block that could be connected again.                     *)
(***************************************************************************)
IsSuffixOf(s, b) ==
    \E k \in 0..Len(b) : Len(s) = Len(b) - k /\ \A i \in 1..Len(s) : s[i] = b[k + i]

Connecting == note.step \in {"remove", "doubles", "orphan", "process", "processing"}
Disconnecting == note.step \in {"reinsert", "drop"}

NoteBlock ==
    /\ Connecting => chain # <<>> /\ IsSuffixOf(note.txs, chain[Len(chain)])
    /\ Disconnecting => \E b \in Blocks : IsValidBlock(b) /\ IsSuffixOf(note.txs, b)

(***************************************************************************)
(* The transactions that have still to be removed from the pool, whose     *)
(* double spends have still to be removed, and that have still to be put   *)
(* back into it.                                                           *)
(***************************************************************************)
ToRemove == IF note.step = "remove" THEN ElementsOf(note.txs)
            ELSE IF Connecting THEN ElementsOf(Tail(note.txs)) ELSE {}

ToClear == IF note.step \in {"remove", "doubles"} THEN ElementsOf(note.txs)
           ELSE IF Connecting THEN ElementsOf(Tail(note.txs)) ELSE {}

ToReinsert == IF Disconnecting THEN ElementsOf(note.txs) ELSE {}

(***************************************************************************)
(* A pool P fits the confirmed transactions C, but for the transactions    *)
(* Rm that have to leave it, the double spends of Cl and the transactions  *)
(* Re that have to come back.                                              *)
(***************************************************************************)
Fits(P, C, Rm, Cl, Re) ==
    /\ P \cap C \subseteq Rm
    /\ InsOf(P) \cap InsOf(C) \subseteq InsOf(Cl)
    /\ InsOf(P) \subseteq Coins \cup OutsOf(C \cup P \cup Re \cup Chained)

PoolInv == Fits(pool, Confirmed, ToRemove, ToClear, ToReinsert)

(***************************************************************************)
(* While ProcessOrphans runs, the transactions that it accepted are those  *)
(* that may still conflict with an orphan.                                 *)
(***************************************************************************)
ConflictInv ==
    /\ ~work.busy => work = NoWork
    /\ \A o \in orphans : \A op \in Ins[o] :
          outpoints[op] \in {None} \cup Carried \cup work.accepted

ChainInvs == ChainValid /\ NoteBlock /\ PoolInv /\ ConflictInv

-----------------------------------------------------------------------------
(***************************************************************************)
(* Closure is closed, and redeemers are transactions.                      *)
(***************************************************************************)
LEMMA ClosureFacts ==
    ASSUME NEW S \in SUBSET Txs, NEW F \in [Txs -> SUBSET Txs]
    PROVE  /\ S \subseteq Closure(S, F) /\ Closure(S, F) \subseteq Txs
           /\ \A d \in Closure(S, F) : F[d] \subseteq Closure(S, F)
<1>1. S \subseteq Closure(S, F) /\ Closure(S, F) \subseteq Txs
  BY DEF Closure
<1>2. ASSUME NEW d \in Closure(S, F), NEW e \in F[d] PROVE e \in Closure(S, F)
  <2>1. d \in Txs /\ e \in Txs
    BY <1>2, <1>1
  <2>2. ASSUME NEW D \in SUBSET Txs, S \subseteq D, Closed(D, F) PROVE e \in D
    <3>1. d \in D
      BY <1>2, <2>2 DEF Closure
    <3> QED
      BY <1>2, <2>2, <3>1 DEF Closed
  <2> QED
    BY <2>1, <2>2 DEF Closure
<1> QED
  BY <1>1, <1>2

LEMMA OutsType == ASSUME NEW t \in Txs PROVE Outs(t) \subseteq OutPoints /\ Ins[t] \subseteq OutPoints
<1>1. TxOut[t] \in Seq(OutPoints) /\ Ins[t] \subseteq OutPoints
  BY MempoolAssumption
<1>2. \A i \in DOMAIN TxOut[t] : TxOut[t][i] \in OutPoints
  BY <1>1
<1> QED
  BY <1>1, <1>2 DEF Outs, ElementsOf

LEMMA RedeemersType ==
    ASSUME TypeOK
    PROVE  Redeemers \in [Txs -> SUBSET Txs] /\ OrphanRedeemers \in [Txs -> SUBSET Txs]
<1>1. ASSUME NEW t \in Txs PROVE {outpoints[op] : op \in Outs(t)} \ {None} \subseteq Txs
  BY OutsType DEF TypeOK
<1>2. ASSUME NEW t \in Txs PROVE UNION {orphansByPrev[op] : op \in Outs(t)} \subseteq Txs
  BY OutsType DEF TypeOK
<1> QED
  BY <1>1, <1>2 DEF Redeemers, OrphanRedeemers

(***************************************************************************)
(* When transactions leave the pool with their redeemers, nothing is left  *)
(* that spends an output of them.                                          *)
(***************************************************************************)
LEMMA RedeemersLeave ==
    ASSUME Inv, NEW S \in SUBSET Txs, removeTransactions(WithRedeemers(S))
    PROVE  /\ pool' \subseteq pool /\ pool' \cap S = {}
           /\ InsOf(pool') \cap OutsOf(S \cup (pool \ pool')) = {}
<1> DEFINE D == WithRedeemers(S)
<1>1. S \subseteq D /\ D \subseteq Txs /\ \A d \in D : Redeemers[d] \subseteq D
  BY RedeemersType, ClosureFacts DEF Inv, WithRedeemers
<1>2. pool' = pool \ D
  BY DEF removeTransactions
<1>3. ASSUME NEW d \in D, NEW s \in pool', NEW op \in Ins[s], op \in Outs(d) PROVE FALSE
  <2>1. s \in Txs /\ s \in pool /\ d \in Txs /\ op \in OutPoints
    BY <1>1, <1>2, <1>3, OutsType DEF Inv, TypeOK
  <2>2. outpoints[op] = s
    BY <2>1 DEF Inv, SpendsIndexed
  <2>3. s # None
    BY <2>1, MempoolAssumption
  <2>4. s \in Redeemers[d]
    BY <1>3, <2>1, <2>2, <2>3 DEF Redeemers
  <2> QED
    BY <1>1, <1>2, <2>4
<1>4. S \cup (pool \ pool') \subseteq D
  BY <1>1, <1>2
<1> QED
  BY <1>1, <1>2, <1>3, <1>4 DEF InsOf, OutsOf

(***************************************************************************)
(* How Fits changes when a transaction is added, when a confirmed one is   *)
(* removed, and when transactions are removed with their redeemers.        *)
(***************************************************************************)
LEMMA FitsAdd ==
    ASSUME NEW P, NEW C, NEW Rm, NEW Cl, NEW Re, NEW Re2, Fits(P, C, Rm, Cl, Re),
           NEW t, t \in C => t \in Rm,
           Ins[t] \cap InsOf(C) \subseteq InsOf(Cl),
           Ins[t] \subseteq Coins \cup OutsOf(C \cup P),
           Re \subseteq Re2 \cup {t}
    PROVE  Fits(P \cup {t}, C, Rm, Cl, Re2)
<1>1. (P \cup {t}) \cap C \subseteq Rm
  BY DEF Fits
<1>2. InsOf(P \cup {t}) \cap InsOf(C) \subseteq InsOf(Cl)
  <2>1. InsOf(P \cup {t}) = InsOf(P) \cup Ins[t]
    BY DEF InsOf
  <2> QED
    BY <2>1 DEF Fits
<1>3. InsOf(P \cup {t}) \subseteq Coins \cup OutsOf(C \cup (P \cup {t}) \cup Re2 \cup Chained)
  <2>1. InsOf(P \cup {t}) = InsOf(P) \cup Ins[t]
    BY DEF InsOf
  <2>2. OutsOf(C \cup P \cup Re \cup Chained) \subseteq OutsOf(C \cup (P \cup {t}) \cup Re2 \cup Chained)
    BY DEF OutsOf
  <2>3. OutsOf(C \cup P) \subseteq OutsOf(C \cup (P \cup {t}) \cup Re2 \cup Chained)
    BY DEF OutsOf
  <2> QED
    BY <2>1, <2>2, <2>3 DEF Fits
<1> QED
  BY <1>1, <1>2, <1>3 DEF Fits

LEMMA FitsRemove ==
    ASSUME NEW P, NEW C, NEW Rm, NEW Rm2, NEW Cl, NEW Re, Fits(P, C, Rm, Cl, Re),
           NEW t \in C, Rm \subseteq Rm2 \cup {t}
    PROVE  Fits(P \ {t}, C, Rm2, Cl, Re)
<1>1. InsOf(P \ {t}) \subseteq InsOf(P)
  BY DEF InsOf
<1>2. OutsOf(C \cup P \cup Re \cup Chained) \subseteq OutsOf(C \cup (P \ {t}) \cup Re \cup Chained)
  BY DEF OutsOf
<1> QED
  BY <1>1, <1>2 DEF Fits

LEMMA FitsWithout ==
    ASSUME NEW P, NEW P2, NEW C, NEW Rm, NEW Cl, NEW Cl2, NEW Re, NEW Re2,
           Fits(P, C, Rm, Cl, Re), P2 \subseteq P,
           InsOf(P2) \cap OutsOf(P \ P2) = {},
           \A t \in Cl : t \in Cl2 \/ InsOf(P2) \cap Ins[t] = {},
           \A t \in Re : t \in Re2 \/ InsOf(P2) \cap Outs(t) = {}
    PROVE  Fits(P2, C, Rm, Cl2, Re2)
<1>1. InsOf(P2) \subseteq InsOf(P)
  BY DEF InsOf
<1>2. ASSUME NEW op \in InsOf(P2) \cap InsOf(C) PROVE op \in InsOf(Cl2)
  <2>1. op \in InsOf(Cl)
    BY <1>1 DEF Fits
  <2>2. PICK t \in Cl : op \in Ins[t]
    BY <2>1 DEF InsOf
  <2> QED
    BY <2>2 DEF InsOf
<1>3. ASSUME NEW op \in InsOf(P2)
      PROVE  op \in Coins \cup OutsOf(C \cup P2 \cup Re2 \cup Chained)
  <2>1. op \in Coins \/ op \in OutsOf(C \cup P \cup Re \cup Chained)
    BY <1>1 DEF Fits
  <2>2. ASSUME NEW t \in C \cup P \cup Re \cup Chained, op \in Outs(t)
        PROVE  t \in C \cup P2 \cup Re2 \cup Chained
    <3>1. t \notin P \ P2
      BY <2>2 DEF OutsOf
    <3>2. t \in Re => t \in Re2
      BY <2>2
    <3> QED
      BY <3>1, <3>2
  <2> QED
    BY <2>1, <2>2 DEF OutsOf
<1>4. P2 \cap C \subseteq Rm
  BY DEF Fits
<1> QED
  BY <1>2, <1>3, <1>4 DEF Fits

-----------------------------------------------------------------------------
(***************************************************************************)
(* The chain: its transactions, and the order in which it has confirmed    *)
(* them.                                                                   *)
(***************************************************************************)
LEMMA ConfirmedAt ==
    ASSUME TypeOK, NEW t \in Confirmed
    PROVE  \E j \in 1..Len(chain) : \E i \in 1..Len(chain[j]) : t = chain[j][i]
<1>1. chain \in Seq(Blocks) /\ DOMAIN chain = 1..Len(chain)
  BY DEF TypeOK
<1>2. PICK j \in 1..Len(chain) : t \in ElementsOf(chain[j])
  BY <1>1 DEF Confirmed
<1>3. chain[j] \in Seq(Txs)
  BY <1>1, MempoolAssumption
<1>4. PICK i \in DOMAIN chain[j] : t = chain[j][i]
  BY <1>2 DEF ElementsOf
<1> QED
  BY <1>3, <1>4

LEMMA ChainTypes ==
    ASSUME TypeOK
    PROVE  /\ chain \in Seq(Blocks) /\ Len(chain) \in Nat /\ DOMAIN chain = 1..Len(chain)
           /\ \A j \in 1..Len(chain) : /\ chain[j] \in Seq(Txs) /\ chain[j] \in Blocks
                                       /\ DOMAIN chain[j] = 1..Len(chain[j])
                                       /\ Len(chain[j]) \in Nat
           /\ Confirmed \subseteq Txs
<1>1. chain \in Seq(Blocks) /\ Len(chain) \in Nat /\ DOMAIN chain = 1..Len(chain)
  BY DEF TypeOK
<1>2. ASSUME NEW j \in 1..Len(chain)
      PROVE  /\ chain[j] \in Seq(Txs) /\ chain[j] \in Blocks
             /\ DOMAIN chain[j] = 1..Len(chain[j]) /\ Len(chain[j]) \in Nat
  <2>1. chain[j] \in Blocks
    BY <1>1
  <2>2. chain[j] \in Seq(Txs)
    BY <2>1, MempoolAssumption
  <2> QED
    BY <2>1, <2>2
<1>3. Confirmed \subseteq Txs
  BY <1>2, ConfirmedAt
<1> QED
  BY <1>1, <1>2, <1>3

LEMMA BeforeIsConfirmed ==
    ASSUME TypeOK, NEW j \in 1..Len(chain), NEW i \in 1..Len(chain[j])
    PROVE  BeforeTx(j, i) \subseteq Confirmed
<1>1. /\ Len(chain) \in Nat /\ DOMAIN chain = 1..Len(chain)
      /\ DOMAIN chain[j] = 1..Len(chain[j]) /\ Len(chain[j]) \in Nat
  BY ChainTypes
<1>2. 1..(j - 1) \subseteq 1..Len(chain) /\ 1..(i - 1) \subseteq 1..Len(chain[j])
  BY <1>1
<1>3. ConfirmedUpTo(j - 1) \subseteq Confirmed
  BY <1>1, <1>2 DEF ConfirmedUpTo, Confirmed
<1>4. {chain[j][k] : k \in 1..(i - 1)} \subseteq ElementsOf(chain[j])
  BY <1>1, <1>2 DEF ElementsOf
<1> QED
  BY <1>1, <1>3, <1>4 DEF BeforeTx, Confirmed

(***************************************************************************)
(* What a confirmed transaction spends was there from the start or created *)
(* by a confirmed transaction.                                             *)
(***************************************************************************)
LEMMA ParentsConfirmed ==
    ASSUME TypeOK, ChainValid PROVE InsOf(Confirmed) \subseteq Coins \cup OutsOf(Confirmed)
<1> SUFFICES ASSUME NEW t \in Confirmed, NEW op \in Ins[t] PROVE op \in Coins \cup OutsOf(Confirmed)
  BY DEF InsOf
<1>1. PICK j \in 1..Len(chain) : \E i \in 1..Len(chain[j]) : t = chain[j][i]
  BY ConfirmedAt
<1>2. PICK i \in 1..Len(chain[j]) : t = chain[j][i]
  BY <1>1
<1>3. j \in DOMAIN chain /\ i \in DOMAIN chain[j]
  BY ChainTypes
<1>4. op \in Coins \cup OutsOf(BeforeTx(j, i))
  BY <1>2, <1>3 DEF ChainValid
<1> QED
  BY <1>4, BeforeIsConfirmed DEF OutsOf

(***************************************************************************)
(* A confirmed transaction that spends an output of the block at the tip   *)
(* is in that block, behind the one that creates it.                       *)
(***************************************************************************)
LEMMA SpenderIsLater ==
    ASSUME TypeOK, ChainValid, chain # <<>>, NEW k \in 1..Len(chain[Len(chain)]),
           NEW y \in Confirmed, NEW op \in Ins[y], op \in Outs(chain[Len(chain)][k])
    PROVE  \E i \in 1..Len(chain[Len(chain)]) : i > k /\ y = chain[Len(chain)][i]
<1> DEFINE n == Len(chain)
           b == chain[n]
<1>1. n \in 1..Len(chain) /\ n \in Nat
  BY DEF TypeOK
<1>2. b[k] \in Txs /\ n \in DOMAIN chain /\ k \in DOMAIN b /\ Len(b) \in Nat
  BY <1>1, ChainTypes
<1>3. PICK j \in 1..n : \E i \in 1..Len(chain[j]) : y = chain[j][i]
  BY ConfirmedAt
<1>4. PICK i \in 1..Len(chain[j]) : y = chain[j][i]
  BY <1>3
<1>5. j \in DOMAIN chain /\ i \in DOMAIN chain[j] /\ Len(chain[j]) \in Nat
  BY ChainTypes
<1>6. op \in Coins \cup OutsOf(BeforeTx(j, i))
  BY <1>4, <1>5 DEF ChainValid
<1>7. op \notin Coins
  BY <1>2, OutputsAssumption DEF OutsOf
<1>8. PICK r \in BeforeTx(j, i) : op \in Outs(r)
  BY <1>6, <1>7 DEF OutsOf
<1>9. r \in Txs
  BY <1>8, BeforeIsConfirmed, ChainTypes
<1>10. r = b[k]
  BY <1>2, <1>8, <1>9, OutputsAssumption
<1>11. b[k] \notin BeforeTx(n, k)
  BY <1>2 DEF ChainValid
<1>12. CASE j < n
  <2>1. 1..(j - 1) \subseteq 1..(n - 1) /\ j \in 1..(n - 1)
    BY <1>1, <1>12
  <2>2. {chain[j][l] : l \in 1..(i - 1)} \subseteq ElementsOf(chain[j])
    <3>1. 1..(i - 1) \subseteq DOMAIN chain[j]
      BY <1>5, ChainTypes
    <3> QED
      BY <3>1 DEF ElementsOf
  <2>3. BeforeTx(j, i) \subseteq ConfirmedUpTo(n - 1)
    BY <2>1, <2>2 DEF BeforeTx, ConfirmedUpTo
  <2> QED
    BY <2>3, <1>8, <1>10, <1>11 DEF BeforeTx
<1>13. CASE j = n
  <2>1. i > k
    <3> SUFFICES ASSUME ~(i > k) PROVE FALSE
      OBVIOUS
    <3>1. 1..(i - 1) \subseteq 1..(k - 1)
      BY <1>2
    <3> QED
      BY <3>1, <1>13, <1>8, <1>10, <1>11 DEF BeforeTx
  <2> QED
    BY <1>4, <1>13, <2>1
<1> QED
  BY <1>1, <1>12, <1>13

(***************************************************************************)
(* The rest of a block.                                                    *)
(***************************************************************************)
LEMMA HeadTailElements ==
    ASSUME NEW s \in Seq(Txs), s # <<>>
    PROVE  /\ Tail(s) \in Seq(Txs) /\ Len(Tail(s)) = Len(s) - 1
           /\ \A i \in 1..Len(Tail(s)) : Tail(s)[i] = s[i + 1]
           /\ ElementsOf(s) = {Head(s)} \cup ElementsOf(Tail(s))
           /\ Head(s) \in Txs /\ ElementsOf(s) \subseteq Txs
<1>1. /\ Tail(s) \in Seq(Txs) /\ Len(Tail(s)) = Len(s) - 1 /\ Len(s) \in Nat /\ Len(s) > 0
      /\ \A i \in 1..Len(Tail(s)) : Tail(s)[i] = s[i + 1]
  OBVIOUS
<1>2. DOMAIN s = 1..Len(s) /\ DOMAIN Tail(s) = 1..Len(Tail(s)) /\ Head(s) = s[1]
  BY <1>1
<1>3. ASSUME NEW i \in 1..Len(s) PROVE s[i] \in {Head(s)} \cup ElementsOf(Tail(s))
  <2>1. CASE i = 1
    BY <1>2, <2>1
  <2>2. CASE i # 1
    <3>1. i - 1 \in 1..Len(Tail(s)) /\ (i - 1) + 1 = i
      BY <1>1, <2>2
    <3> QED
      BY <1>1, <1>2, <3>1 DEF ElementsOf
  <2> QED
    BY <2>1, <2>2
<1>4. ASSUME NEW i \in 1..Len(Tail(s)) PROVE Tail(s)[i] \in ElementsOf(s)
  <2>1. i + 1 \in 1..Len(s)
    BY <1>1
  <2> QED
    BY <1>1, <1>2, <2>1 DEF ElementsOf
<1>5. Head(s) \in ElementsOf(s)
  BY <1>1, <1>2 DEF ElementsOf
<1>6. ElementsOf(s) = {Head(s)} \cup ElementsOf(Tail(s))
  BY <1>2, <1>3, <1>4, <1>5 DEF ElementsOf
<1>7. \A i \in 1..Len(s) : s[i] \in Txs
  OBVIOUS
<1>8. ElementsOf(s) \subseteq Txs
  BY <1>2, <1>7 DEF ElementsOf
<1> QED
  BY <1>1, <1>5, <1>6, <1>8

LEMMA SuffixTail ==
    ASSUME NEW s \in Seq(Txs), NEW b \in Seq(Txs), s # <<>>, IsSuffixOf(s, b)
    PROVE  IsSuffixOf(Tail(s), b)
<1>1. PICK k \in 0..Len(b) : Len(s) = Len(b) - k /\ \A i \in 1..Len(s) : s[i] = b[k + i]
  BY DEF IsSuffixOf
<1>2. /\ Len(Tail(s)) = Len(s) - 1 /\ Len(s) \in Nat /\ Len(s) > 0 /\ Len(b) \in Nat
      /\ \A i \in 1..Len(Tail(s)) : Tail(s)[i] = s[i + 1]
  OBVIOUS
<1>3. k + 1 \in 0..Len(b) /\ Len(Tail(s)) = Len(b) - (k + 1)
  BY <1>1, <1>2
<1>4. ASSUME NEW i \in 1..Len(Tail(s)) PROVE Tail(s)[i] = b[(k + 1) + i]
  <2>1. i + 1 \in 1..Len(s) /\ k + (i + 1) = (k + 1) + i
    BY <1>2
  <2> QED
    BY <1>1, <1>2, <2>1
<1> QED
  BY <1>3, <1>4 DEF IsSuffixOf

LEMMA SuffixOfItself == ASSUME NEW b \in Seq(Txs) PROVE IsSuffixOf(b, b)
<1>1. Len(b) \in Nat /\ 0 \in 0..Len(b) /\ Len(b) = Len(b) - 0
  OBVIOUS
<1>2. \A i \in 1..Len(b) : b[i] = b[0 + i]
  BY <1>1
<1> QED
  BY <1>1, <1>2 DEF IsSuffixOf

(***************************************************************************)
(* An element of the rest of a block, with all that is behind it.          *)
(***************************************************************************)
LEMMA SuffixElement ==
    ASSUME NEW s \in Seq(Txs), NEW b \in Seq(Txs), IsSuffixOf(s, b), NEW x \in ElementsOf(s)
    PROVE  \E l \in 1..Len(b) : /\ x = b[l]
                                /\ \A i \in 1..Len(b) : i > l => b[i] \in ElementsOf(s)
<1>1. PICK k \in 0..Len(b) : Len(s) = Len(b) - k /\ \A i \in 1..Len(s) : s[i] = b[k + i]
  BY DEF IsSuffixOf
<1>2. Len(s) \in Nat /\ Len(b) \in Nat /\ DOMAIN s = 1..Len(s)
  OBVIOUS
<1>3. PICK m \in 1..Len(s) : x = s[m]
  BY <1>2 DEF ElementsOf
<1>4. k + m \in 1..Len(b) /\ x = b[k + m]
  BY <1>1, <1>2, <1>3
<1>5. ASSUME NEW i \in 1..Len(b), i > k + m PROVE b[i] \in ElementsOf(s)
  <2>1. i - k \in 1..Len(s) /\ k + (i - k) = i
    BY <1>1, <1>2, <1>5
  <2>2. b[i] = s[i - k]
    BY <1>1, <2>1
  <2> QED
    BY <1>2, <2>1, <2>2 DEF ElementsOf
<1> QED
  BY <1>4, <1>5

(***************************************************************************)
(* What has to be removed is confirmed, and so is what spends it, later in *)
(* the same block.                                                         *)
(***************************************************************************)
LEMMA SuffixClosed ==
    ASSUME TypeOK, ChainValid, chain # <<>>, NEW s \in Seq(Txs),
           IsSuffixOf(s, chain[Len(chain)])
    PROVE  /\ ElementsOf(s) \subseteq Confirmed
           /\ \A x \in ElementsOf(s), y \in Confirmed :
                 Outs(x) \cap Ins[y] # {} => y \in ElementsOf(s)
<1> DEFINE b == chain[Len(chain)]
<1>1. Len(chain) \in 1..Len(chain) /\ Len(chain) \in DOMAIN chain
  BY DEF TypeOK
<1>2. b \in Seq(Txs) /\ DOMAIN b = 1..Len(b)
  BY <1>1, ChainTypes
<1>3. ElementsOf(s) \subseteq ElementsOf(b)
  BY <1>2, SuffixElement DEF ElementsOf
<1>4. ElementsOf(s) \subseteq Confirmed
  BY <1>1, <1>3 DEF Confirmed
<1>5. ASSUME NEW x \in ElementsOf(s), NEW y \in Confirmed, NEW op \in Outs(x) \cap Ins[y]
      PROVE  y \in ElementsOf(s)
  <2>1. PICK l \in 1..Len(b) : x = b[l] /\ \A i \in 1..Len(b) : i > l => b[i] \in ElementsOf(s)
    BY <1>2, SuffixElement
  <2>2. \E i \in 1..Len(b) : i > l /\ y = b[i]
    BY <2>1, SpenderIsLater
  <2> QED
    BY <2>1, <2>2
<1> QED
  BY <1>4, <1>5

LEMMA ToRemoveFacts ==
    ASSUME Inv, ChainValid, NoteBlock
    PROVE  /\ ToRemove \subseteq ToClear /\ ToClear \subseteq Confirmed
           /\ \A x \in ToRemove, y \in Confirmed : Outs(x) \cap Ins[y] # {} => y \in ToRemove
           /\ Connecting => ToRemove \subseteq ElementsOf(note.txs)
<1>1. CASE ~Connecting
  BY <1>1 DEF ToRemove, ToClear, Connecting
<1>2. CASE Connecting
  <2>1. note.txs \in Seq(Txs) /\ note.txs # <<>> /\ TypeOK
    BY <1>2 DEF Inv, TypeOK, NoteInv, Connecting
  <2>2. Tail(note.txs) \in Seq(Txs) /\ ElementsOf(Tail(note.txs)) \subseteq ElementsOf(note.txs)
    BY <2>1, HeadTailElements
  <2>3. chain # <<>> /\ IsSuffixOf(note.txs, chain[Len(chain)])
    BY <1>2 DEF NoteBlock
  <2>4. chain[Len(chain)] \in Seq(Txs)
    <3>1. Len(chain) \in 1..Len(chain)
      BY <2>1, <2>3 DEF TypeOK
    <3> QED
      BY <2>1, <3>1, ChainTypes
  <2>5. IsSuffixOf(Tail(note.txs), chain[Len(chain)])
    BY <2>1, <2>3, <2>4, SuffixTail
  <2>6. /\ ElementsOf(note.txs) \subseteq Confirmed
        /\ \A x \in ElementsOf(note.txs), y \in Confirmed :
              Outs(x) \cap Ins[y] # {} => y \in ElementsOf(note.txs)
    BY <2>1, <2>3, SuffixClosed
  <2>7. \A x \in ElementsOf(Tail(note.txs)), y \in Confirmed :
              Outs(x) \cap Ins[y] # {} => y \in ElementsOf(Tail(note.txs))
    BY <2>1, <2>2, <2>3, <2>5, SuffixClosed
  <2>8. ToRemove \in {ElementsOf(note.txs), ElementsOf(Tail(note.txs))}
    BY <1>2 DEF ToRemove
  <2>9. ToClear \in {ElementsOf(note.txs), ElementsOf(Tail(note.txs))}
    BY <1>2 DEF ToClear
  <2>10. ToRemove \subseteq ToClear
    BY <1>2, <2>2 DEF ToRemove, ToClear
  <2> QED
    BY <2>2, <2>6, <2>7, <2>8, <2>9, <2>10
<1> QED
  BY <1>1, <1>2

(***************************************************************************)
(* A transaction that is accepted keeps the pool fit: its inputs are       *)
(* there, and if it is confirmed, or an input of it is spent by the chain, *)
(* then only because a confirmed transaction has not been removed yet.     *)
(***************************************************************************)
LEMMA AcceptedFits ==
    ASSUME Inv, ChainValid, NoteBlock, PoolInv, NEW t \in Txs, NEW dup,
           "accepted" \in maybeAcceptTransaction(t, dup), NEW Re2,
           ToReinsert \subseteq Re2 \cup {t}
    PROVE  Fits(pool \cup {t}, Confirmed, ToRemove, ToClear, Re2)
<1>1. t \notin NonStd /\ Ins[t] \subseteq Unspent \cup OutsOf(pool)
  <2>1. "error" # "accepted" /\ "orphan" # "accepted"
    OBVIOUS
  <2> QED
    BY <2>1 DEF maybeAcceptTransaction, Refused, HaveInputs
<1>2. TypeOK /\ pool \subseteq Txs
  BY DEF Inv, TypeOK
<1>3. Confirmed \subseteq Txs /\ InsOf(Confirmed) \subseteq Coins \cup OutsOf(Confirmed)
  BY <1>2, ChainTypes, ParentsConfirmed
<1>4. pool \cap Confirmed \subseteq ToRemove
  BY DEF PoolInv, Fits
<1>5. ASSUME NEW op \in Ins[t], NEW y \in Confirmed, op \in Ins[y] PROVE y \in ToRemove
  <2>1. op \notin Unspent
    BY <1>5 DEF Unspent, InsOf
  <2>2. PICK s \in pool : op \in Outs(s)
    BY <1>1, <2>1 DEF OutsOf
  <2>3. op \notin Coins
    BY <1>2, <2>2, OutputsAssumption DEF OutsOf
  <2>4. PICK r \in Confirmed : op \in Outs(r)
    BY <1>3, <1>5, <2>3 DEF InsOf, OutsOf
  <2>5. r = s
    BY <1>2, <1>3, <2>2, <2>4, OutputsAssumption
  <2>6. s \in ToRemove
    BY <1>4, <2>4, <2>5
  <2> QED
    BY <1>5, <2>2, <2>6, ToRemoveFacts
<1>6. t \in Confirmed => t \in ToRemove
  <2>1. PICK op : op \in Ins[t]
    BY <1>1, OutputsAssumption
  <2> QED
    BY <1>5, <2>1
<1>7. Ins[t] \cap InsOf(Confirmed) \subseteq InsOf(ToClear)
  BY <1>5, ToRemoveFacts DEF InsOf
<1>8. Ins[t] \subseteq Coins \cup OutsOf(Confirmed \cup pool)
  BY <1>1 DEF Unspent, OutsOf
<1> QED
  BY <1>6, <1>7, <1>8, FitsAdd DEF PoolInv

-----------------------------------------------------------------------------
(***************************************************************************)
(* The parts of the second invariant in a step.                            *)
(***************************************************************************)
LEMMA ChainSame ==
    ASSUME chain' = chain
    PROVE  /\ ChainValid' = ChainValid /\ Confirmed' = Confirmed /\ Unspent' = Unspent
           /\ \A b : IsValidBlock(b)' = IsValidBlock(b)
<1>1. Confirmed' = Confirmed
  BY DEF Confirmed
<1>2. Unspent' = Unspent
  BY <1>1 DEF Unspent
<1>3. ASSUME NEW b PROVE IsValidBlock(b)' = IsValidBlock(b)
  BY <1>1, <1>2 DEF IsValidBlock
<1>4. ChainValid' = ChainValid
  BY DEF ChainValid, BeforeTx, ConfirmedUpTo
<1> QED
  BY <1>1, <1>2, <1>3, <1>4

LEMMA NoteSame ==
    ASSUME chain' = chain, note' = note, NoteBlock
    PROVE  /\ NoteBlock' /\ ToRemove' = ToRemove /\ ToClear' = ToClear
           /\ ToReinsert' = ToReinsert
<1>1. Connecting' = Connecting /\ Disconnecting' = Disconnecting
  BY DEF Connecting, Disconnecting
<1>2. NoteBlock'
  BY <1>1, ChainSame DEF NoteBlock
<1> QED
  BY <1>1, <1>2 DEF ToRemove, ToClear, ToReinsert

LEMMA ConflictKept ==
    ASSUME Inv, ConflictInv, orphans' \subseteq orphans, ~work'.busy => work' = NoWork,
           work.accepted \subseteq work'.accepted,
           \A op \in OutPoints :
              outpoints'[op] \in {None, outpoints[op]} \cup Carried \cup work'.accepted
    PROVE  ConflictInv'
<1>1. ASSUME NEW o \in orphans', NEW op \in Ins[o]
      PROVE  outpoints'[op] \in {None} \cup Carried \cup work'.accepted
  <2>1. o \in orphans /\ o \in Txs
    BY DEF Inv, TypeOK
  <2>2. op \in OutPoints
    BY <2>1, OutsType
  <2>3. outpoints[op] \in {None} \cup Carried \cup work.accepted
    BY <2>1 DEF ConflictInv
  <2> QED
    BY <2>2, <2>3
<1>2. Carried' = Carried
  BY DEF Carried
<1> QED
  BY <1>1, <1>2 DEF ConflictInv

LEMMA AddedOutpoints ==
    ASSUME Inv, NEW t \in Txs, addTransaction(t)
    PROVE  /\ pool' = pool \cup {t}
           /\ \A op \in OutPoints : outpoints'[op] \in {outpoints[op], t}
BY DEF addTransaction

LEMMA RemovedOutpoints ==
    ASSUME Inv, NEW R, removeTransactions(R)
    PROVE  \A op \in OutPoints : outpoints'[op] \in {None, outpoints[op]}
BY DEF removeTransactions, OutpointsWithout

(***************************************************************************)
(* Orphans that double-spend an accepted transaction leave.                *)
(***************************************************************************)
LEMMA DoubleSpendersLeave ==
    ASSUME Inv, removeOrphans(OrphansWithRedeemers(DoubleSpendingOrphans(work.accepted))),
           NEW o \in orphans', NEW op \in Ins[o]
    PROVE  o \in orphans /\ outpoints[op] \notin work.accepted
<1> DEFINE S == DoubleSpendingOrphans(work.accepted)
           R == OrphansWithRedeemers(S)
<1>1. orphans' = orphans \ R
  BY DEF removeOrphans
<1>2. TypeOK /\ o \in orphans /\ o \in Txs /\ orphans \subseteq Txs
  BY <1>1 DEF Inv, TypeOK
<1>3. op \in OutPoints
  BY <1>2, OutsType
<1>4. S \cap orphans \subseteq R
  BY <1>2, RedeemersType, ClosureFacts DEF OrphansWithRedeemers
<1>5. ASSUME outpoints[op] \in work.accepted PROVE FALSE
  <2>1. outpoints[op] \in Txs
    BY <1>2, <1>5 DEF TypeOK
  <2>2. op \in Ins[outpoints[op]]
    BY <1>3, <2>1 DEF Inv, SpendsIndexed
  <2>3. o \in orphansByPrev[op]
    BY <1>2, <1>3 DEF Inv, OrphansIndexed
  <2>4. o \in S
    BY <1>5, <2>2, <2>3 DEF DoubleSpendingOrphans, InsOf
  <2> QED
    BY <1>1, <1>2, <1>4, <2>4
<1> QED
  BY <1>2, <1>5

LEMMA ChainInvsFromParts ==
    ASSUME Inv, ChainInvs, chain' = chain, note' = note, ConflictInv',
           Fits(pool', Confirmed, ToRemove, ToClear, ToReinsert)
    PROVE  ChainInvs'
<1>1. ChainValid'
  BY ChainSame DEF ChainInvs
<1>2. NoteBlock' /\ ToRemove' = ToRemove /\ ToClear' = ToClear /\ ToReinsert' = ToReinsert
  BY NoteSame DEF ChainInvs
<1>3. Confirmed' = Confirmed
  BY ChainSame
<1>4. PoolInv'
  BY <1>2, <1>3 DEF PoolInv, Fits, Chained
<1> QED
  BY <1>1, <1>2, <1>4 DEF ChainInvs

-----------------------------------------------------------------------------
LEMMA ProcessOutputChain == ASSUME Inv, ChainInvs, ProcessOutput PROVE ChainInvs'
<1> USE DEF ChainInvs
<1> DEFINE op == Head(work.queue)
<1>1. chain' = chain /\ note' = note /\ work.busy
  BY DEF ProcessOutput, chainVars
<1>2. work.queue \in Seq(OutPoints) /\ work.queue # <<>> /\ work \in WorkType
  BY DEF Inv, TypeOK, WorkType, ProcessOutput
<1>3. op \in OutPoints
  BY <1>2
<1>4. NextOutput => work'.busy /\ work'.accepted = work.accepted
  BY <1>1, <1>2 DEF NextOutput, WorkType
<1>5. CASE NextOutput /\ UNCHANGED poolVars /\ orphans' \subseteq orphans
  <2>1. pool' = pool /\ outpoints' = outpoints
    BY <1>5 DEF poolVars
  <2>2. ConflictInv'
    BY <1>4, <1>5, <2>1, ConflictKept
  <2> QED
    BY <1>1, <2>1, <2>2, ChainInvsFromParts DEF PoolInv
<1>6. ASSUME NEW o \in Resolvable(op),
             "accepted" \in maybeAcceptTransaction(o, FALSE),
             addTransaction(o), removeOrphans(OnlyOrphans({o})),
             work' = [busy |-> TRUE, queue |-> Tail(work.queue) \o OutputsOf(o),
                      accepted |-> work.accepted \cup {o}]
      PROVE  ChainInvs'
  <2>1. o \in Txs
    BY <1>3, <1>6 DEF Resolvable, Inv, TypeOK
  <2>2. pool' = pool \cup {o} /\ \A q \in OutPoints : outpoints'[q] \in {outpoints[q], o}
    BY <1>6, <2>1, AddedOutpoints
  <2>3. orphans' \subseteq orphans
    BY <1>6 DEF removeOrphans
  <2>4. work'.busy /\ work'.accepted = work.accepted \cup {o}
    BY <1>6
  <2>5. ConflictInv'
    BY <2>2, <2>3, <2>4, ConflictKept
  <2>6. Fits(pool', Confirmed, ToRemove, ToClear, ToReinsert)
    BY <1>6, <2>1, <2>2, AcceptedFits
  <2> QED
    BY <1>1, <2>5, <2>6, ChainInvsFromParts
<1>7. \/ NextOutput /\ UNCHANGED <<poolVars, orphanVars>>
      \/ \E o \in Resolvable(op) :
           \/ removeOrphans(OrphansWithRedeemers({o})) /\ NextOutput /\ UNCHANGED poolVars
           \/ /\ "accepted" \in maybeAcceptTransaction(o, FALSE)
              /\ addTransaction(o) /\ removeOrphans(OnlyOrphans({o}))
              /\ work' = [busy |-> TRUE, queue |-> Tail(work.queue) \o OutputsOf(o),
                          accepted |-> work.accepted \cup {o}]
  BY DEF ProcessOutput
<1>8. (UNCHANGED orphanVars \/ \E R : removeOrphans(R)) => orphans' \subseteq orphans
  BY DEF orphanVars, removeOrphans
<1> QED
  BY <1>5, <1>6, <1>7, <1>8

LEMMA ProcessedOrphansChain == ASSUME Inv, ChainInvs, ProcessedOrphans PROVE ChainInvs'
<1> USE DEF ChainInvs
<1>1. chain' = chain /\ pool' = pool /\ outpoints' = outpoints /\ work' = NoWork /\ note' = AfterProcess
  BY DEF ProcessedOrphans, chainVars, poolVars
<1>2. ConflictInv'
  <2>1. work'.accepted = {} /\ Carried' = Carried
    BY <1>1 DEF NoWork, Carried
  <2>2. ASSUME NEW o \in orphans', NEW op \in Ins[o]
        PROVE  outpoints'[op] \in {None} \cup Carried
    <3>1. o \in orphans /\ outpoints[op] \notin work.accepted
      BY <2>2, DoubleSpendersLeave DEF ProcessedOrphans
    <3> QED
      BY <1>1, <3>1 DEF ConflictInv
  <2> QED
    BY <1>1, <2>1, <2>2 DEF ConflictInv
<1>3. CASE note.step # "processing"
  BY <1>1, <1>2, <1>3, ChainInvsFromParts DEF AfterProcess, PoolInv
<1>4. CASE note.step = "processing"
  <2>1. note.txs \in Seq(Txs) /\ note.txs # <<>> /\ TypeOK /\ Connecting
    BY <1>4 DEF Inv, TypeOK, NoteInv, Connecting
  <2>2. /\ Tail(note.txs) \in Seq(Txs) /\ Len(Tail(note.txs)) = Len(note.txs) - 1
        /\ Len(note.txs) = 1 => ElementsOf(Tail(note.txs)) = {}
    <3>1. Tail(note.txs) \in Seq(Txs) /\ Len(Tail(note.txs)) = Len(note.txs) - 1
      BY <2>1, HeadTailElements
    <3>2. DOMAIN Tail(note.txs) = 1..Len(Tail(note.txs))
      BY <3>1
    <3> QED
      BY <3>1, <3>2 DEF ElementsOf
  <2>3. /\ note'.txs = Tail(note.txs)
        /\ note'.step = IF Len(note.txs) = 1 THEN "none" ELSE "remove"
    BY <1>1, <1>4 DEF AfterProcess
  <2>4. chain # <<>> /\ IsSuffixOf(note.txs, chain[Len(chain)])
    BY <2>1 DEF NoteBlock
  <2>5. chain[Len(chain)] \in Seq(Txs)
    <3>1. Len(chain) \in 1..Len(chain)
      BY <2>1, <2>4 DEF TypeOK
    <3> QED
      BY <2>1, <3>1, ChainTypes
  <2>6. NoteBlock'
    BY <1>1, <2>1, <2>3, <2>4, <2>5, SuffixTail DEF NoteBlock, Connecting, Disconnecting
  <2>7. ToRemove' = ToRemove /\ ToClear' = ToClear /\ ToReinsert' = ToReinsert
    <3>1. ToRemove = ElementsOf(Tail(note.txs)) /\ ToClear = ElementsOf(Tail(note.txs)) /\ ToReinsert = {}
      BY <1>4, <2>1 DEF ToRemove, ToClear, ToReinsert, Disconnecting
    <3>2. CASE Len(note.txs) = 1
      BY <2>2, <2>3, <3>1, <3>2 DEF ToRemove, ToClear, ToReinsert, Connecting, Disconnecting
    <3>3. CASE Len(note.txs) # 1
      BY <2>2, <2>3, <3>1, <3>3 DEF ToRemove, ToClear, ToReinsert, Connecting, Disconnecting
    <3> QED
      BY <3>2, <3>3
  <2>8. ChainValid' /\ Confirmed' = Confirmed
    BY <1>1, ChainSame
  <2>9. PoolInv'
    BY <1>1, <2>7, <2>8 DEF PoolInv, Fits, Chained
  <2> QED
    BY <1>2, <2>6, <2>8, <2>9
<1> QED
  BY <1>3, <1>4

LEMMA ArrivesChain ==
    ASSUME Inv, ChainInvs, NEW t \in Txs, SendRawTransaction(t) \/ \E p \in Peers : PeerTx(p, t)
    PROVE  ChainInvs'
<1> USE DEF ChainInvs
<1>1. chain' = chain /\ note' = note /\ work = NoWork
  BY DEF SendRawTransaction, PeerTx, chainVars, ConflictInv
<1>2. CASE Accept(t) /\ StartOrphans(t)
  <2>1. pool' = pool \cup {t} /\ \A op \in OutPoints : outpoints'[op] \in {outpoints[op], t}
    BY <1>2, AddedOutpoints DEF Accept
  <2>2. work'.busy /\ work'.accepted = {t} /\ work.accepted = {} /\ orphans' = orphans
    BY <1>1, <1>2 DEF StartOrphans, NoWork, Accept, orphanVars
  <2>3. ConflictInv'
    BY <2>1, <2>2, ConflictKept
  <2>4. Fits(pool', Confirmed, ToRemove, ToClear, ToReinsert)
    BY <1>2, <2>1, AcceptedFits DEF Accept
  <2> QED
    BY <1>1, <2>3, <2>4, ChainInvsFromParts
<1>3. ASSUME NEW p \in Peers, "orphan" \in maybeAcceptTransaction(t, TRUE),
             addOrphan(t, p), UNCHANGED poolVars, UNCHANGED work
      PROVE  ChainInvs'
  <2>1. pool' = pool /\ outpoints' = outpoints /\ work' = work
    BY <1>3 DEF poolVars
  <2>2. orphans' \subseteq orphans \cup {t}
    BY <1>3, AddOrphanInv
  <2>3. \A op \in Ins[t] : outpoints[op] = None
    <3>1. "error" # "orphan" /\ "accepted" # "orphan"
      OBVIOUS
    <3> QED
      BY <1>3, <3>1 DEF maybeAcceptTransaction, Refused, checkPoolDoubleSpend
  <2>4. Carried' = Carried
    BY DEF Carried
  <2>5. ConflictInv'
    BY <2>1, <2>2, <2>3, <2>4 DEF ConflictInv
  <2> QED
    BY <1>1, <2>1, <2>5, ChainInvsFromParts DEF PoolInv
<1> QED
  BY <1>2, <1>3 DEF SendRawTransaction, PeerTx

LEMMA PeerLeavesChain ==
    ASSUME Inv, ChainInvs, NEW p \in Peers, PeerLeaves(p) \/ HandleDonePeer(p) PROVE ChainInvs'
<1> USE DEF ChainInvs
<1>1. /\ chain' = chain /\ note' = note /\ work' = work /\ pool' = pool /\ outpoints' = outpoints
      /\ orphans' \subseteq orphans
  BY DEF PeerLeaves, HandleDonePeer, chainVars, poolVars, orphanVars, removeOrphans
<1>2. ConflictInv'
  BY <1>1, ConflictKept DEF ConflictInv
<1> QED
  BY <1>1, <1>2, ChainInvsFromParts DEF PoolInv

(***************************************************************************)
(* The chain grows.                                                        *)
(***************************************************************************)
LEMMA ConnectBlockChain ==
    ASSUME Inv, ChainInvs, NEW b \in Blocks, ConnectBlock(b) PROVE ChainInvs'
<1> USE DEF ChainInvs
<1>0. PICK n : n = Len(chain)
  OBVIOUS
<1>1. /\ note = NoNote /\ IsValidBlock(b) /\ chain' = Append(chain, b) /\ Notify("remove", b)
      /\ pool' = pool /\ outpoints' = outpoints /\ orphans' = orphans /\ work' = work
  BY DEF ConnectBlock, poolVars, orphanVars
<1>2. b \in Seq(Txs) /\ DOMAIN b = 1..Len(b) /\ Len(b) \in Nat
  BY MempoolAssumption
<1>3. TypeOK /\ chain \in Seq(Blocks) /\ n \in Nat /\ DOMAIN chain = 1..n /\ Confirmed \subseteq Txs
  BY <1>0, ChainTypes DEF Inv
<1>4. /\ DOMAIN chain' = 1..(n + 1) /\ Len(chain') = n + 1 /\ chain'[n + 1] = b
      /\ \A j \in 1..n : chain'[j] = chain[j]
  BY <1>0, <1>1, <1>3
<1>5. Confirmed' = Confirmed \cup ElementsOf(b)
  <2>1. ASSUME NEW t \in Confirmed' PROVE t \in Confirmed \cup ElementsOf(b)
    <3>1. PICK j \in 1..(n + 1) : t \in ElementsOf(chain'[j])
      BY <1>4 DEF Confirmed
    <3>2. CASE j = n + 1
      BY <1>4, <3>1, <3>2
    <3>3. CASE j # n + 1
      <4>1. j \in 1..n
        BY <1>3, <3>3
      <4> QED
        BY <1>3, <1>4, <3>1, <4>1 DEF Confirmed
    <3> QED
      BY <3>2, <3>3
  <2>2. ASSUME NEW t \in Confirmed PROVE t \in Confirmed'
    <3>1. PICK j \in 1..n : t \in ElementsOf(chain[j])
      BY <1>3 DEF Confirmed
    <3>2. j \in 1..(n + 1)
      BY <1>3
    <3> QED
      BY <1>4, <3>1, <3>2 DEF Confirmed
  <2>3. ASSUME NEW t \in ElementsOf(b) PROVE t \in Confirmed'
    <3>1. n + 1 \in 1..(n + 1)
      BY <1>3
    <3> QED
      BY <1>4, <3>1 DEF Confirmed
  <2> QED
    BY <2>1, <2>2, <2>3
<1>6. ChainValid'
  <2>1. ASSUME NEW j \in 1..n, NEW i \in DOMAIN chain[j] PROVE BeforeTx(j, i)' = BeforeTx(j, i)
    <3>1. \A l \in 1..(j - 1) : chain'[l] = chain[l]
      BY <1>3, <1>4
    <3>2. ConfirmedUpTo(j - 1)' = ConfirmedUpTo(j - 1)
      BY <3>1 DEF ConfirmedUpTo
    <3>3. chain'[j] = chain[j]
      BY <1>4
    <3> QED
      BY <3>2, <3>3 DEF BeforeTx
  <2>2. ASSUME NEW i \in DOMAIN b PROVE BeforeTx(n + 1, i)' = Confirmed \cup {b[k] : k \in 1..(i-1)}
    <3>1. (n + 1) - 1 = n
      BY <1>3
    <3>2. ConfirmedUpTo(n)' = Confirmed
      BY <1>3, <1>4 DEF ConfirmedUpTo, Confirmed
    <3> QED
      BY <1>4, <3>1, <3>2 DEF BeforeTx
  <2>3. ASSUME NEW i \in DOMAIN b
        PROVE  LET before == Confirmed \cup {b[k] : k \in 1..(i-1)}
               IN  b[i] \notin before /\ Ins[b[i]] \subseteq (Coins \cup OutsOf(before)) \ InsOf(before)
    <3> DEFINE B == {b[k] : k \in 1..(i-1)}
    <3>1. b[i] \notin Confirmed \cup B /\ Ins[b[i]] \subseteq (Unspent \cup OutsOf(B)) \ InsOf(B)
      BY <1>1 DEF IsValidBlock
    <3>2. B \subseteq Txs /\ B \cap Confirmed = {}
      <4>1. ASSUME NEW k \in 1..(i-1) PROVE b[k] \in Txs /\ b[k] \notin Confirmed
        <5>1. k \in DOMAIN b
          BY <1>2
        <5> QED
          BY <5>1, <1>1, <1>2 DEF IsValidBlock
      <4> QED
        BY <4>1
    <3>3. ASSUME NEW op \in OutsOf(B) PROVE op \notin InsOf(Confirmed)
      <4>1. PICK s \in B : op \in Outs(s)
        BY DEF OutsOf
      <4>2. op \notin Coins /\ op \notin OutsOf(Confirmed)
        BY <1>3, <3>2, <4>1, OutputsAssumption DEF OutsOf
      <4> QED
        BY <1>3, <4>2, ParentsConfirmed
    <3>4. OutsOf(Confirmed \cup B) = OutsOf(Confirmed) \cup OutsOf(B)
      BY DEF OutsOf
    <3>5. InsOf(Confirmed \cup B) = InsOf(Confirmed) \cup InsOf(B)
      BY DEF InsOf
    <3>6. Ins[b[i]] \subseteq (Coins \cup OutsOf(Confirmed \cup B)) \ InsOf(Confirmed \cup B)
      <4> HIDE DEF B
      <4> QED
        BY <3>1, <3>3, <3>4, <3>5 DEF Unspent
    <3> QED
      BY <3>1, <3>6
  <2>4. ASSUME NEW j \in 1..(n + 1), NEW i \in DOMAIN chain'[j]
        PROVE  /\ chain'[j][i] \notin BeforeTx(j, i)'
               /\ Ins[chain'[j][i]] \subseteq (Coins \cup OutsOf(BeforeTx(j, i)')) \ InsOf(BeforeTx(j, i)')
    <3>1. CASE j = n + 1
      BY <1>4, <2>2, <2>3, <3>1
    <3>2. CASE j # n + 1
      <4>1. j \in 1..n
        BY <1>3, <3>2
      <4>2. chain'[j] = chain[j] /\ j \in DOMAIN chain /\ i \in DOMAIN chain[j]
        BY <1>3, <1>4, <4>1
      <4> QED
        BY <2>1, <4>1, <4>2 DEF ChainValid
    <3> QED
      BY <3>1, <3>2
  <2> QED
    BY <1>4, <2>4 DEF ChainValid, OutsOf, InsOf
<1>7. NoteBlock' /\ ToRemove' = ElementsOf(b) /\ ToClear' = ElementsOf(b) /\ ToReinsert' = {}
  <2>1. CASE b = <<>>
    <3>1. note' = NoNote /\ ElementsOf(b) = {}
      BY <1>1, <2>1 DEF Notify, ElementsOf
    <3> QED
      BY <3>1 DEF NoNote, NoteBlock, Connecting, Disconnecting, ToRemove, ToClear, ToReinsert
  <2>2. CASE b # <<>>
    <3>1. note'.step = "remove" /\ note'.txs = b
      BY <1>1, <2>2 DEF Notify
    <3>2. chain' # <<>> /\ chain'[Len(chain')] = b
      BY <1>1, <1>3, <1>4
    <3> QED
      BY <1>2, <3>1, <3>2, SuffixOfItself DEF NoteBlock, Connecting, Disconnecting, ToRemove, ToClear, ToReinsert
  <2> QED
    BY <2>1, <2>2
<1>8. PoolInv'
  <2>1. Fits(pool, Confirmed, {}, {}, {})
    BY <1>1 DEF PoolInv, NoNote, ToRemove, ToClear, ToReinsert, Connecting, Disconnecting
  <2>2. /\ InsOf({}) = {} /\ InsOf(Confirmed \cup ElementsOf(b)) = InsOf(Confirmed) \cup InsOf(ElementsOf(b))
        /\ OutsOf(Confirmed \cup pool \cup {} \cup Chained)
             \subseteq OutsOf((Confirmed \cup ElementsOf(b)) \cup pool \cup {} \cup Chained)
    BY DEF InsOf, OutsOf
  <2>3. Fits(pool, Confirmed \cup ElementsOf(b), ElementsOf(b), ElementsOf(b), {})
    BY <2>1, <2>2 DEF Fits
  <2> QED
    BY <1>1, <1>5, <1>7, <2>3 DEF PoolInv, Fits, Chained
<1>9. ConflictInv'
  BY <1>1, ConflictKept DEF ConflictInv
<1> QED
  BY <1>6, <1>7, <1>8, <1>9

(***************************************************************************)
(* The chain gets shorter.  The block could be connected again.            *)
(***************************************************************************)
LEMMA DisconnectBlockChain == ASSUME Inv, ChainInvs, DisconnectBlock PROVE ChainInvs'
<1> USE DEF ChainInvs
<1>0. PICK n, b : n = Len(chain) /\ b = chain[n]
  OBVIOUS
<1>1. /\ note = NoNote /\ chain # <<>> /\ chain' = SubSeq(chain, 1, n - 1) /\ Notify("reinsert", b)
      /\ pool' = pool /\ outpoints' = outpoints /\ orphans' = orphans /\ work' = work
  BY <1>0 DEF DisconnectBlock, poolVars, orphanVars
<1>2. TypeOK /\ chain \in Seq(Blocks) /\ n \in Nat /\ n > 0 /\ DOMAIN chain = 1..n
  BY <1>0, <1>1, ChainTypes DEF Inv
<1>3. n \in 1..n
  BY <1>2
<1>4. b \in Blocks /\ b \in Seq(Txs) /\ DOMAIN b = 1..Len(b) /\ Len(b) \in Nat
  BY <1>0, <1>2, <1>3, ChainTypes
<1>5. DOMAIN chain' = 1..(n - 1) /\ \A j \in 1..(n - 1) : chain'[j] = chain[j] /\ j \in 1..n
  BY <1>0, <1>1, <1>2
<1>6. Confirmed' = ConfirmedUpTo(n - 1)
  BY <1>5 DEF Confirmed, ConfirmedUpTo
<1>7. Confirmed = Confirmed' \cup ElementsOf(b)
  <2>1. ASSUME NEW t \in Confirmed PROVE t \in ConfirmedUpTo(n - 1) \cup ElementsOf(b)
    <3>1. PICK j \in 1..n : t \in ElementsOf(chain[j])
      BY <1>2 DEF Confirmed
    <3>2. j = n \/ j \in 1..(n - 1)
      BY <1>2
    <3> QED
      BY <1>0, <3>1, <3>2 DEF ConfirmedUpTo
  <2>2. ConfirmedUpTo(n - 1) \cup ElementsOf(b) \subseteq Confirmed
    <3>1. 1..(n - 1) \subseteq 1..n
      BY <1>2
    <3> QED
      BY <1>0, <1>2, <1>3, <3>1 DEF ConfirmedUpTo, Confirmed
  <2> QED
    BY <1>6, <2>1, <2>2
<1>8. ChainValid'
  <2>1. ASSUME NEW j \in 1..(n - 1), NEW i \in DOMAIN chain[j] PROVE BeforeTx(j, i)' = BeforeTx(j, i)
    <3>1. \A l \in 1..(j - 1) : chain'[l] = chain[l]
      BY <1>2, <1>5
    <3>2. ConfirmedUpTo(j - 1)' = ConfirmedUpTo(j - 1)
      BY <3>1 DEF ConfirmedUpTo
    <3>3. chain'[j] = chain[j]
      BY <1>5
    <3> QED
      BY <3>2, <3>3 DEF BeforeTx
  <2>2. ASSUME NEW j \in 1..(n - 1), NEW i \in DOMAIN chain'[j]
        PROVE  /\ chain'[j][i] \notin BeforeTx(j, i)'
               /\ Ins[chain'[j][i]] \subseteq (Coins \cup OutsOf(BeforeTx(j, i)')) \ InsOf(BeforeTx(j, i)')
    <3>1. chain'[j] = chain[j] /\ j \in DOMAIN chain /\ i \in DOMAIN chain[j]
      BY <1>2, <1>5
    <3> QED
      BY <2>1, <3>1 DEF ChainValid
  <2> QED
    BY <1>5, <2>2 DEF ChainValid, OutsOf, InsOf
<1>9. IsValidBlock(b)'
  <2>1. ASSUME NEW i \in DOMAIN b
        PROVE  LET before == {b[k] : k \in 1..(i-1)}
               IN  /\ b[i] \notin Confirmed' \cup before
                   /\ Ins[b[i]] \subseteq (Unspent' \cup OutsOf(before)) \ InsOf(before)
    <3> DEFINE B == {b[k] : k \in 1..(i-1)}
    <3>1. BeforeTx(n, i) = Confirmed' \cup B
      BY <1>0, <1>6 DEF BeforeTx
    <3>2. b[i] \notin BeforeTx(n, i) /\ Ins[b[i]] \subseteq (Coins \cup OutsOf(BeforeTx(n, i))) \ InsOf(BeforeTx(n, i))
      BY <1>0, <1>2, <1>3 DEF ChainValid
    <3>3. OutsOf(BeforeTx(n, i)) = OutsOf(Confirmed') \cup OutsOf(B)
      BY <3>1 DEF OutsOf
    <3>4. InsOf(BeforeTx(n, i)) = InsOf(Confirmed') \cup InsOf(B)
      BY <3>1 DEF InsOf
    <3>5. Unspent' = (Coins \cup OutsOf(Confirmed')) \ InsOf(Confirmed')
      BY DEF Unspent, OutsOf, InsOf
    <3>6. Ins[b[i]] \subseteq (Unspent' \cup OutsOf(B)) \ InsOf(B)
      <4> HIDE DEF B
      <4> QED
        BY <3>2, <3>3, <3>4, <3>5
    <3> QED
      BY <3>1, <3>2, <3>6
  <2> QED
    BY <2>1 DEF IsValidBlock, OutsOf, InsOf
<1>10. NoteBlock' /\ ToRemove' = {} /\ ToClear' = {} /\ ToReinsert' = ElementsOf(b)
  <2>1. CASE b = <<>>
    <3>1. note' = NoNote /\ ElementsOf(b) = {}
      BY <1>1, <2>1 DEF Notify, ElementsOf
    <3> QED
      BY <3>1 DEF NoNote, NoteBlock, Connecting, Disconnecting, ToRemove, ToClear, ToReinsert
  <2>2. CASE b # <<>>
    <3>1. note'.step = "reinsert" /\ note'.txs = b
      BY <1>1, <2>2 DEF Notify
    <3> QED
      BY <1>4, <1>9, <3>1, SuffixOfItself DEF NoteBlock, Connecting, Disconnecting, ToRemove, ToClear, ToReinsert
  <2> QED
    BY <2>1, <2>2
<1>11. PoolInv'
  <2>1. Fits(pool, Confirmed, {}, {}, {})
    BY <1>1 DEF PoolInv, NoNote, ToRemove, ToClear, ToReinsert, Connecting, Disconnecting
  <2>2. /\ InsOf(Confirmed') \subseteq InsOf(Confirmed)
        /\ OutsOf(Confirmed \cup pool \cup {} \cup Chained)
             \subseteq OutsOf(Confirmed' \cup pool \cup ElementsOf(b) \cup Chained)
    BY <1>7 DEF InsOf, OutsOf
  <2>3. Fits(pool, Confirmed', {}, {}, ElementsOf(b))
    BY <1>7, <2>1, <2>2 DEF Fits
  <2> QED
    BY <1>1, <1>10, <2>3 DEF PoolInv, Fits, Chained
<1>12. ConflictInv'
  BY <1>1, ConflictKept DEF ConflictInv
<1> QED
  BY <1>8, <1>10, <1>11, <1>12

(***************************************************************************)
(* A notification goes on to another step of the same transaction, or to   *)
(* the next transaction of a disconnected block.                           *)
(***************************************************************************)
LEMMA GoToBlock ==
    ASSUME Inv, NoteBlock, chain' = chain, NEW s, GoTo(s),
           \/ Connecting /\ s \in {"doubles", "orphan", "process", "processing"}
           \/ Disconnecting /\ s = "drop"
    PROVE  NoteBlock' /\ note'.txs = note.txs /\ note'.step = s
<1>1. note'.txs = note.txs /\ note'.step = s
  BY DEF GoTo, Inv, TypeOK
<1>2. CASE Connecting /\ s \in {"doubles", "orphan", "process", "processing"}
  BY <1>1, <1>2 DEF NoteBlock, Connecting, Disconnecting
<1>3. CASE Disconnecting /\ s = "drop"
  <2>1. PICK b \in Blocks : IsValidBlock(b) /\ IsSuffixOf(note.txs, b)
    BY <1>3 DEF NoteBlock
  <2>2. IsValidBlock(b)'
    BY <2>1, ChainSame
  <2> QED
    BY <1>1, <1>3, <2>1, <2>2 DEF NoteBlock, Connecting, Disconnecting
<1> QED
  BY <1>1, <1>2, <1>3

LEMMA ReinsertNext ==
    ASSUME Inv, NoteBlock, Disconnecting, chain' = chain, Notify("reinsert", Tail(note.txs))
    PROVE  /\ NoteBlock' /\ ToRemove' = {} /\ ToClear' = {}
           /\ ToReinsert' = ElementsOf(Tail(note.txs))
           /\ ToRemove = {} /\ ToClear = {} /\ ToReinsert = {Head(note.txs)} \cup ToReinsert'
<1> DEFINE s == Tail(note.txs)
<1>1. note.txs \in Seq(Txs) /\ note.txs # <<>>
  BY DEF Inv, TypeOK, NoteInv, Disconnecting
<1>2. s \in Seq(Txs) /\ ElementsOf(note.txs) = {Head(note.txs)} \cup ElementsOf(s)
  BY <1>1, HeadTailElements
<1>3. PICK b \in Blocks : IsValidBlock(b) /\ IsSuffixOf(note.txs, b)
  BY DEF NoteBlock
<1>4. IsValidBlock(b)' /\ b \in Seq(Txs)
  BY <1>3, ChainSame, MempoolAssumption
<1>5. IsSuffixOf(s, b)
  BY <1>1, <1>3, <1>4, SuffixTail
<1>6. ToRemove = {} /\ ToClear = {} /\ ToReinsert = ElementsOf(note.txs)
  BY DEF ToRemove, ToClear, ToReinsert, Connecting, Disconnecting
<1>7. NoteBlock' /\ ToRemove' = {} /\ ToClear' = {} /\ ToReinsert' = ElementsOf(s)
  <2>1. CASE s = <<>>
    <3>1. note' = NoNote /\ ElementsOf(s) = {}
      BY <2>1 DEF Notify, ElementsOf
    <3> QED
      BY <3>1 DEF NoNote, NoteBlock, Connecting, Disconnecting, ToRemove, ToClear, ToReinsert
  <2>2. CASE s # <<>>
    <3>1. note'.step = "reinsert" /\ note'.txs = s
      BY <2>2 DEF Notify
    <3> QED
      BY <1>4, <1>5, <3>1 DEF NoteBlock, Connecting, Disconnecting, ToRemove, ToClear, ToReinsert
  <2> QED
    BY <2>1, <2>2
<1> QED
  BY <1>2, <1>6, <1>7

(***************************************************************************)
(* A transaction of a disconnected block whose inputs are missing comes    *)
(* after its parent in that block.                                         *)
(***************************************************************************)
LEMMA MissingIsChained ==
    ASSUME Inv, NoteBlock, Disconnecting,
           "orphan" \in maybeAcceptTransaction(Head(note.txs), TRUE)
    PROVE  Head(note.txs) \in Chained
<1> DEFINE t == Head(note.txs)
<1>1. note.txs \in Seq(Txs) /\ note.txs # <<>>
  BY DEF Inv, TypeOK, NoteInv, Disconnecting
<1>2. t \in Txs /\ t \in ElementsOf(note.txs)
  BY <1>1, HeadTailElements
<1>3. PICK b \in Blocks : IsValidBlock(b) /\ IsSuffixOf(note.txs, b)
  BY DEF NoteBlock
<1>4. b \in Seq(Txs) /\ DOMAIN b = 1..Len(b)
  BY MempoolAssumption
<1>5. PICK i \in DOMAIN b : t = b[i]
  BY <1>1, <1>2, <1>3, <1>4, SuffixElement
<1>6. PICK op \in Ins[t] : op \notin Unspent
  <2>1. "error" # "orphan" /\ "accepted" # "orphan"
    OBVIOUS
  <2>2. ~HaveInputs(t)
    BY <2>1 DEF maybeAcceptTransaction
  <2> QED
    BY <2>2 DEF HaveInputs
<1>7. op \in OutsOf({b[k] : k \in 1..(i-1)})
  BY <1>3, <1>5, <1>6 DEF IsValidBlock
<1> QED
  BY <1>2, <1>5, <1>6, <1>7 DEF Chained

LEMMA RemovalChain ==
    ASSUME Inv, ChainInvs, RemoveTransaction \/ RemoveDoubleSpends \/ RemoveOrphan \/ ProcessOrphans
    PROVE  ChainInvs'
<1> USE DEF ChainInvs
<1> DEFINE t == Head(note.txs)
<1>1. chain' = chain /\ work = NoWork /\ Connecting
  BY DEF RemoveTransaction, RemoveDoubleSpends, RemoveOrphan, ProcessOrphans, Current,
         chainVars, ConflictInv, Connecting
<1>2. note.txs \in Seq(Txs) /\ note.txs # <<>> /\ TypeOK
  BY <1>1 DEF Inv, TypeOK, NoteInv, Connecting
<1>3. t \in Txs /\ ElementsOf(note.txs) = {t} \cup ElementsOf(Tail(note.txs))
  BY <1>2, HeadTailElements
<1>4. ChainValid' /\ Confirmed' = Confirmed
  BY <1>1, ChainSame
<1>5. ToReinsert = {}
  BY <1>1 DEF ToReinsert, Connecting, Disconnecting
<1>6. CASE RemoveTransaction
  <2>1. /\ note.step = "remove" /\ removeTransactions({t}) /\ GoTo("doubles")
        /\ orphans' = orphans /\ work' = work
    BY <1>6 DEF RemoveTransaction, Current, orphanVars
  <2>2. NoteBlock' /\ note'.txs = note.txs /\ note'.step = "doubles"
    BY <1>1, <2>1, GoToBlock
  <2>3. /\ ToRemove = ElementsOf(note.txs) /\ ToRemove' = ElementsOf(Tail(note.txs))
        /\ ToClear' = ToClear /\ ToReinsert' = {}
    BY <2>1, <2>2 DEF ToRemove, ToClear, ToReinsert, Connecting, Disconnecting
  <2>4. pool' = pool \ {t} /\ t \in Confirmed
    BY <1>3, <2>1, <2>3, ToRemoveFacts DEF removeTransactions
  <2>5. Fits(pool', Confirmed, ToRemove', ToClear, {})
    BY <1>3, <1>5, <2>3, <2>4, FitsRemove DEF PoolInv
  <2>6. PoolInv'
    BY <1>4, <2>3, <2>5 DEF PoolInv, Fits, Chained
  <2>7. ConflictInv'
    BY <1>1, <2>1, RemovedOutpoints, ConflictKept DEF ConflictInv
  <2> QED
    BY <1>4, <2>2, <2>6, <2>7
<1>7. CASE RemoveDoubleSpends
  <2> DEFINE S == {outpoints[op] : op \in Ins[t]} \ {None, t}
  <2>1. /\ note.step = "doubles" /\ removeTransactions(WithRedeemers(S)) /\ GoTo("orphan")
        /\ orphans' = orphans /\ work' = work
    BY <1>7 DEF RemoveDoubleSpends, DoubleSpends, Current, orphanVars
  <2>2. NoteBlock' /\ note'.txs = note.txs /\ note'.step = "orphan"
    BY <1>1, <2>1, GoToBlock
  <2>3. /\ ToClear = ElementsOf(note.txs) /\ ToClear' = ElementsOf(Tail(note.txs))
        /\ ToRemove = ElementsOf(Tail(note.txs)) /\ ToRemove' = ToRemove /\ ToReinsert' = {}
    BY <1>1, <2>1, <2>2 DEF ToRemove, ToClear, ToReinsert, Connecting, Disconnecting
  <2>4. S \in SUBSET Txs
    BY <1>2, <1>3, OutsType DEF TypeOK
  <2>5. /\ pool' \subseteq pool /\ pool' \cap S = {}
        /\ InsOf(pool') \cap OutsOf(S \cup (pool \ pool')) = {}
    BY <2>1, <2>4, RedeemersLeave
  <2>6. ASSUME t \notin ToClear', NEW s \in pool', NEW op \in Ins[s], op \in Ins[t] PROVE FALSE
    <3>1. s \in pool /\ s \in Txs /\ op \in OutPoints /\ s # None
      BY <1>2, <2>5, <2>6, OutsType, MempoolAssumption DEF TypeOK
    <3>2. outpoints[op] = s
      BY <3>1, <2>6 DEF Inv, SpendsIndexed
    <3>3. s \in S \/ s = t
      BY <2>6, <3>1, <3>2
    <3>4. t \in Confirmed
      BY <1>3, <2>3, ToRemoveFacts
    <3>5. t \notin pool
      BY <2>3, <2>6, <3>4 DEF PoolInv, Fits
    <3> QED
      BY <2>5, <3>1, <3>3, <3>5
  <2>7. \A x \in ToClear : x \in ToClear' \/ InsOf(pool') \cap Ins[x] = {}
    BY <1>3, <2>3, <2>6 DEF InsOf
  <2>8. InsOf(pool') \cap OutsOf(pool \ pool') = {}
    BY <2>5 DEF OutsOf
  <2>9. Fits(pool', Confirmed, ToRemove, ToClear', {})
    BY <1>5, <2>5, <2>7, <2>8, FitsWithout DEF PoolInv
  <2>10. PoolInv'
    BY <1>4, <2>3, <2>9 DEF PoolInv, Fits, Chained
  <2>11. ConflictInv'
    BY <1>1, <2>1, RemovedOutpoints, ConflictKept DEF ConflictInv
  <2> QED
    BY <1>4, <2>2, <2>10, <2>11
<1>8. ASSUME RemoveOrphan \/ ProcessOrphans PROVE ChainInvs'
  <2>1. /\ pool' = pool /\ outpoints' = outpoints /\ orphans' \subseteq orphans
        /\ \/ note.step = "orphan" /\ GoTo("process") /\ work' = work
           \/ note.step = "process" /\ GoTo("processing") /\ StartOrphans(t)
    BY <1>8 DEF RemoveOrphan, ProcessOrphans, Current, poolVars, orphanVars, removeOrphans
  <2>2. NoteBlock' /\ note'.txs = note.txs /\ note'.step \in {"process", "processing"}
    BY <1>1, <2>1, GoToBlock
  <2>3. ToRemove' = ToRemove /\ ToClear' = ToClear /\ ToReinsert' = ToReinsert
    BY <1>1, <2>1, <2>2 DEF ToRemove, ToClear, ToReinsert, Connecting, Disconnecting
  <2>4. PoolInv'
    BY <1>4, <2>1, <2>3 DEF PoolInv, Fits, Chained
  <2>5. work.accepted \subseteq work'.accepted /\ (~work'.busy => work' = NoWork)
    BY <1>1, <2>1 DEF StartOrphans, NoWork
  <2>6. ConflictInv'
    BY <2>1, <2>5, ConflictKept
  <2> QED
    BY <1>4, <2>2, <2>4, <2>6
<1> QED
  BY <1>6, <1>7, <1>8

LEMMA ReinsertionChain ==
    ASSUME Inv, ChainInvs, MaybeAcceptTransaction \/ DropTransaction PROVE ChainInvs'
<1> USE DEF ChainInvs
<1> DEFINE t == Head(note.txs)
<1>1. chain' = chain /\ work = NoWork /\ work' = work /\ Disconnecting /\ orphans' = orphans
  BY DEF MaybeAcceptTransaction, DropTransaction, Accept, Current, chainVars, orphanVars,
         ConflictInv, Disconnecting
<1>2. note.txs \in Seq(Txs) /\ note.txs # <<>> /\ TypeOK
  BY <1>1 DEF Inv, TypeOK, NoteInv, Disconnecting
<1>3. t \in Txs /\ t \in ElementsOf(note.txs)
  BY <1>2, HeadTailElements
<1>4. ChainValid' /\ Confirmed' = Confirmed
  BY <1>1, ChainSame
<1>5. t \in Carried
  <2>1. PICK b \in Blocks : IsSuffixOf(note.txs, b)
    BY <1>1 DEF NoteBlock
  <2>2. b \in Seq(Txs) /\ DOMAIN b = 1..Len(b)
    BY MempoolAssumption
  <2>3. PICK l \in 1..Len(b) : t = b[l]
    BY <1>2, <1>3, <2>1, <2>2, SuffixElement
  <2>4. t \in ElementsOf(b)
    BY <2>2, <2>3 DEF ElementsOf
  <2> QED
    BY <2>4 DEF Carried
<1>6. CASE Accept(t) /\ Notify("reinsert", Tail(note.txs))
  <2>1. pool' = pool \cup {t} /\ \A op \in OutPoints : outpoints'[op] \in {outpoints[op], t}
    BY <1>3, <1>6, AddedOutpoints DEF Accept
  <2>2. /\ NoteBlock' /\ ToRemove' = ToRemove /\ ToClear' = ToClear
        /\ ToReinsert = {t} \cup ToReinsert'
    BY <1>1, <1>6, ReinsertNext
  <2>3. Fits(pool', Confirmed, ToRemove, ToClear, ToReinsert')
    BY <1>3, <1>6, <2>1, <2>2, AcceptedFits DEF Accept
  <2>4. PoolInv'
    BY <1>4, <2>2, <2>3 DEF PoolInv, Fits, Chained
  <2>5. ConflictInv'
    BY <1>1, <1>5, <2>1, ConflictKept DEF ConflictInv
  <2> QED
    BY <1>4, <2>2, <2>4, <2>5
<1>7. CASE /\ "orphan" \in maybeAcceptTransaction(t, TRUE)
           /\ Notify("reinsert", Tail(note.txs)) /\ UNCHANGED poolVars
  <2>1. pool' = pool /\ outpoints' = outpoints
    BY <1>7 DEF poolVars
  <2>2. /\ NoteBlock' /\ ToRemove' = ToRemove /\ ToClear' = ToClear
        /\ ToReinsert = {t} \cup ToReinsert'
    BY <1>1, <1>7, ReinsertNext
  <2>3. t \in Chained
    BY <1>1, <1>7, MissingIsChained
  <2>4. OutsOf(Confirmed \cup pool \cup ToReinsert \cup Chained)
          \subseteq OutsOf(Confirmed \cup pool \cup ToReinsert' \cup Chained)
    BY <2>2, <2>3 DEF OutsOf
  <2>5. Fits(pool', Confirmed, ToRemove, ToClear, ToReinsert')
    BY <2>1, <2>4 DEF PoolInv, Fits
  <2>6. PoolInv'
    BY <1>4, <2>2, <2>5 DEF PoolInv, Fits, Chained
  <2>7. ConflictInv'
    BY <1>1, <2>1, ConflictKept DEF ConflictInv
  <2> QED
    BY <1>4, <2>2, <2>6, <2>7
<1>8. CASE GoTo("drop") /\ UNCHANGED poolVars
  <2>1. pool' = pool /\ outpoints' = outpoints
    BY <1>8 DEF poolVars
  <2>2. NoteBlock' /\ note'.txs = note.txs /\ note'.step = "drop"
    BY <1>1, <1>8, GoToBlock
  <2>3. ToRemove' = ToRemove /\ ToClear' = ToClear /\ ToReinsert' = ToReinsert
    BY <1>1, <2>2 DEF ToRemove, ToClear, ToReinsert, Connecting, Disconnecting
  <2>4. PoolInv'
    BY <1>4, <2>1, <2>3 DEF PoolInv, Fits, Chained
  <2>5. ConflictInv'
    BY <1>1, <2>1, ConflictKept DEF ConflictInv
  <2> QED
    BY <1>4, <2>2, <2>4, <2>5
<1>9. CASE DropTransaction
  <2>1. removeTransactions(WithRedeemers({t})) /\ Notify("reinsert", Tail(note.txs))
    BY <1>9 DEF DropTransaction
  <2>2. /\ NoteBlock' /\ ToRemove' = ToRemove /\ ToClear' = ToClear
        /\ ToReinsert = {t} \cup ToReinsert'
    BY <1>1, <2>1, ReinsertNext
  <2>3. pool' \subseteq pool /\ InsOf(pool') \cap OutsOf({t} \cup (pool \ pool')) = {}
    BY <1>3, <2>1, RedeemersLeave
  <2>4. InsOf(pool') \cap OutsOf(pool \ pool') = {} /\ InsOf(pool') \cap Outs(t) = {}
    BY <2>3 DEF OutsOf
  <2>5. Fits(pool', Confirmed, ToRemove, ToClear, ToReinsert')
    BY <2>2, <2>3, <2>4, FitsWithout DEF PoolInv
  <2>6. PoolInv'
    BY <1>4, <2>2, <2>5 DEF PoolInv, Fits, Chained
  <2>7. ConflictInv'
    BY <1>1, <2>1, RemovedOutpoints, ConflictKept DEF ConflictInv
  <2> QED
    BY <1>4, <2>2, <2>6, <2>7
<1> QED
  BY <1>6, <1>7, <1>8, <1>9 DEF MaybeAcceptTransaction

LEMMA InitChain == Init => ChainInvs
<1> SUFFICES ASSUME Init PROVE ChainInvs
  OBVIOUS
<1>1. chain = <<>> /\ note = NoNote /\ pool = {} /\ orphans = {} /\ work = NoWork
  BY DEF Init
<1>2. ChainValid
  BY <1>1 DEF ChainValid
<1>3. NoteBlock
  BY <1>1 DEF NoteBlock, NoNote, Connecting, Disconnecting
<1>4. InsOf({}) = {}
  BY DEF InsOf
<1>5. PoolInv
  BY <1>1, <1>4 DEF PoolInv, Fits
<1>6. ConflictInv
  BY <1>1 DEF ConflictInv
<1> QED
  BY <1>2, <1>3, <1>5, <1>6 DEF ChainInvs

LEMMA NextChain == Inv /\ ChainInvs /\ [Next]_vars => ChainInvs'
<1> SUFFICES ASSUME Inv, ChainInvs, [Next]_vars PROVE ChainInvs'
  OBVIOUS
<1>1. CASE UNCHANGED vars
  <2>1. /\ chain' = chain /\ note' = note /\ pool' = pool /\ outpoints' = outpoints
        /\ orphans' = orphans /\ work' = work
    BY <1>1 DEF vars, chainVars, poolVars, orphanVars
  <2>2. ConflictInv'
    BY <2>1, ConflictKept DEF ChainInvs, ConflictInv
  <2> QED
    BY <2>1, <2>2, ChainInvsFromParts DEF ChainInvs, PoolInv
<1> QED
  BY <1>1, ProcessOutputChain, ProcessedOrphansChain, ArrivesChain, PeerLeavesChain,
     ConnectBlockChain, DisconnectBlockChain, RemovalChain, ReinsertionChain DEF Next

LEMMA ChainInvsHold == Spec => []ChainInvs
BY InvHolds, InitChain, NextChain, PTL DEF Spec

-----------------------------------------------------------------------------
(***************************************************************************)
(* Once the sync manager has handled what the chain told it, no            *)
(* transaction of the pool is confirmed or spends what a confirmed one     *)
(* spends, whatever blocks are connected and disconnected and whatever     *)
(* RPCs come between the calls.                                            *)
(***************************************************************************)
THEOREM MempoolNoConflict ==
    Spec => [](note = NoNote => /\ pool \cap Confirmed = {}
                                /\ InsOf(pool) \cap InsOf(Confirmed) = {})
<1>1. ChainInvs => (note = NoNote => /\ pool \cap Confirmed = {}
                                     /\ InsOf(pool) \cap InsOf(Confirmed) = {})
  BY DEF ChainInvs, PoolInv, Fits, NoNote, ToRemove, ToClear, Connecting, InsOf
<1> QED
  BY <1>1, ChainInvsHold, PTL

(***************************************************************************)
(* The pool can be mined once the sync manager has handled what the chain  *)
(* told it, through reorganizations and RPCs between any two calls, unless *)
(* a transaction spends an output of one that was mined together with its  *)
(* parent: only then MaybeAcceptTransaction may leave it behind.           *)
(***************************************************************************)
THEOREM MempoolPoolMinable == ChainedUnspent => (Spec => []PoolMinable)
<1> SUFFICES ASSUME ChainedUnspent PROVE Spec => []PoolMinable
  OBVIOUS
<1>1. Inv /\ ChainInvs => PoolMinable
  <2> SUFFICES ASSUME Inv, ChainInvs, note = NoNote
               PROVE  pool \cap Confirmed = {} /\ InsOf(pool) \subseteq Unspent \cup OutsOf(pool)
    BY DEF PoolMinable
  <2>1. ToRemove = {} /\ ToClear = {} /\ ToReinsert = {}
    BY DEF NoNote, ToRemove, ToClear, ToReinsert, Connecting, Disconnecting
  <2>2. /\ pool \cap Confirmed = {} /\ InsOf(pool) \cap InsOf(Confirmed) = {}
        /\ InsOf(pool) \subseteq Coins \cup OutsOf(Confirmed \cup pool \cup Chained)
    BY <2>1 DEF ChainInvs, PoolInv, Fits, InsOf
  <2>3. InsOf(pool) \subseteq InsOf(Txs)
    BY DEF Inv, TypeOK, InsOf
  <2>4. OutsOf(Confirmed \cup pool \cup Chained) = OutsOf(Confirmed) \cup OutsOf(pool) \cup OutsOf(Chained)
    BY DEF OutsOf
  <2>5. InsOf(pool) \subseteq Unspent \cup OutsOf(pool)
    BY <2>2, <2>3, <2>4 DEF ChainedUnspent, Unspent
  <2> QED
    BY <2>2, <2>5
<1> QED
  BY <1>1, InvHolds, ChainInvsHold, PTL

(***************************************************************************)
(* No orphan waits for an output that the pool spends, unless the spender  *)
(* came back with a disconnected block.                                    *)
(***************************************************************************)
THEOREM MempoolOrphansNoConflict == Spec => []OrphansNoConflict
<1>1. ChainInvs => OrphansNoConflict
  <2> SUFFICES ASSUME ChainInvs, ~work.busy, NEW o \in orphans, NEW op \in Ins[o]
               PROVE  outpoints[op] \in {None} \cup Carried
    BY DEF OrphansNoConflict
  <2>1. work.accepted = {}
    BY DEF ChainInvs, ConflictInv, NoWork
  <2> QED
    BY <2>1 DEF ChainInvs, ConflictInv
<1> QED
  BY <1>1, ChainInvsHold, PTL

-----------------------------------------------------------------------------
(***************************************************************************)
(* Orphans that are left.  Two things make ProcessOrphans leave one whose  *)
(* inputs are all there.  When the first orphan on an output is refused,   *)
(* the others on that output are not looked at; and nothing looks at the   *)
(* orphans when a disconnected block's transactions come back.             *)
(*                                                                         *)
(* OneRedeemer excludes the first: of the transactions, at most one spends *)
(* an output that another one creates.  Coins may be spent twice.          *)
(***************************************************************************)
OneRedeemer ==
    \A s, t \in Txs : Ins[s] \cap Ins[t] \cap OutsOf(Txs) # {} => s = t

(***************************************************************************)
(* The outputs that ProcessOrphans has still to look at, in the call that  *)
(* is running and in those that the notification of a block still makes,   *)
(* and the invariant: an orphan with all its inputs waits for one of them. *)
(***************************************************************************)
NoteOutputs == IF note.step = "processing" THEN OutsOf(ElementsOf(Tail(note.txs)))
               ELSE IF Connecting THEN OutsOf(ElementsOf(note.txs)) ELSE {}

ToLookAt == ElementsOf(work.queue) \cup NoteOutputs

Available == Unspent \cup OutsOf(pool)

LookedInv ==
    /\ ~Disconnecting /\ ElementsOf(work.queue) \subseteq OutsOf(Txs)
    /\ \A o \in orphans : Ins[o] \subseteq Available => Ins[o] \cap ToLookAt # {}

LEMMA LookedKept ==
    ASSUME LookedInv, ~Disconnecting', ElementsOf(work'.queue) \subseteq OutsOf(Txs),
           NEW New, New \subseteq ToLookAt', Available' \subseteq Available \cup New,
           \A o \in orphans' : \/ ~(Ins[o] \subseteq Available')
                               \/ /\ o \in orphans
                                  /\ Ins[o] \cap ToLookAt # {} => Ins[o] \cap ToLookAt' # {}
    PROVE  LookedInv'
<1>1. ASSUME NEW o \in orphans', Ins[o] \subseteq Available' PROVE Ins[o] \cap ToLookAt' # {}
  <2>1. /\ o \in orphans
        /\ Ins[o] \cap ToLookAt # {} => Ins[o] \cap ToLookAt' # {}
    BY <1>1
  <2>2. CASE Ins[o] \subseteq Available
    BY <2>1, <2>2 DEF LookedInv
  <2>3. CASE ~(Ins[o] \subseteq Available)
    BY <1>1, <2>3
  <2> QED
    BY <2>2, <2>3
<1> QED
  BY <1>1 DEF LookedInv

LEMMA SameNoteOutputs ==
    ASSUME note' = note
    PROVE  NoteOutputs' = NoteOutputs /\ Disconnecting' = Disconnecting
BY DEF NoteOutputs, Connecting, Disconnecting, OutsOf, Outs, ElementsOf

LEMMA OutputElements ==
    ASSUME NEW s \in Seq(OutPoints), NEW t \in Seq(OutPoints)
    PROVE  /\ ElementsOf(s \o t) = ElementsOf(s) \cup ElementsOf(t)
           /\ s # <<>> => /\ ElementsOf(s) = {Head(s)} \cup ElementsOf(Tail(s))
                          /\ Tail(s) \in Seq(OutPoints) /\ Head(s) \in OutPoints
<1>1. PICK u : u = s \o t
  OBVIOUS
<1>2. /\ DOMAIN u = 1..(Len(s) + Len(t)) /\ DOMAIN s = 1..Len(s) /\ DOMAIN t = 1..Len(t)
      /\ Len(s) \in Nat /\ Len(t) \in Nat
      /\ \A i \in 1..Len(s) : u[i] = s[i]
      /\ \A i \in 1..Len(t) : u[Len(s) + i] = t[i]
  BY <1>1
<1>3. ASSUME NEW i \in DOMAIN u PROVE u[i] \in ElementsOf(s) \cup ElementsOf(t)
  <2>1. CASE i <= Len(s)
    BY <1>2, <2>1 DEF ElementsOf
  <2>2. CASE ~(i <= Len(s))
    <3>1. i - Len(s) \in 1..Len(t) /\ Len(s) + (i - Len(s)) = i
      BY <1>2, <2>2
    <3>2. u[i] = t[i - Len(s)]
      BY <1>2, <3>1
    <3> QED
      BY <1>2, <3>1, <3>2 DEF ElementsOf
  <2> QED
    BY <2>1, <2>2
<1>4. ASSUME NEW i \in DOMAIN s PROVE s[i] \in ElementsOf(u)
  BY <1>2 DEF ElementsOf
<1>5. ASSUME NEW i \in DOMAIN t PROVE t[i] \in ElementsOf(u)
  <2>1. Len(s) + i \in DOMAIN u /\ u[Len(s) + i] = t[i]
    BY <1>2
  <2> QED
    BY <2>1 DEF ElementsOf
<1>6. ElementsOf(u) = ElementsOf(s) \cup ElementsOf(t)
  BY <1>3, <1>4, <1>5 DEF ElementsOf
<1>7. ASSUME s # <<>>
      PROVE  /\ ElementsOf(s) = {Head(s)} \cup ElementsOf(Tail(s))
             /\ Tail(s) \in Seq(OutPoints) /\ Head(s) \in OutPoints
  <2>1. /\ Tail(s) \in Seq(OutPoints) /\ Head(s) \in OutPoints /\ Head(s) = s[1]
        /\ DOMAIN Tail(s) = 1..(Len(s) - 1) /\ \A i \in 1..(Len(s) - 1) : Tail(s)[i] = s[i + 1]
    BY <1>7
  <2>2. ASSUME NEW i \in DOMAIN s PROVE s[i] \in {Head(s)} \cup ElementsOf(Tail(s))
    <3>1. CASE i = 1
      BY <2>1, <3>1
    <3>2. CASE i # 1
      <4>1. i - 1 \in 1..(Len(s) - 1) /\ (i - 1) + 1 = i
        BY <1>2, <3>2
      <4>2. s[i] = Tail(s)[i - 1]
        BY <2>1, <4>1
      <4> QED
        BY <2>1, <4>1, <4>2 DEF ElementsOf
    <3> QED
      BY <3>1, <3>2
  <2>3. ASSUME NEW i \in DOMAIN Tail(s) PROVE Tail(s)[i] \in ElementsOf(s)
    <3>1. i + 1 \in DOMAIN s /\ Tail(s)[i] = s[i + 1]
      BY <1>2, <2>1
    <3> QED
      BY <3>1 DEF ElementsOf
  <2>4. Head(s) \in ElementsOf(s)
    BY <1>2, <1>7, <2>1 DEF ElementsOf
  <2>5. ElementsOf(s) \subseteq {Head(s)} \cup ElementsOf(Tail(s))
    BY <2>2 DEF ElementsOf
  <2>6. ElementsOf(Tail(s)) \subseteq ElementsOf(s)
    BY <2>3 DEF ElementsOf
  <2> QED
    BY <2>1, <2>4, <2>5, <2>6
<1> QED
  BY <1>1, <1>6, <1>7

(***************************************************************************)
(* What changes the outputs that are there.                                *)
(***************************************************************************)
LEMMA AvailableShrinks ==
    ASSUME chain' = chain, pool' \subseteq pool
    PROVE  Available' \subseteq Available
<1>1. Unspent' = Unspent
  BY ChainSame
<1>2. OutsOf(pool') \subseteq OutsOf(pool)
  BY DEF OutsOf
<1> QED
  BY <1>1, <1>2 DEF Available, OutsOf, Outs, ElementsOf

LEMMA AvailableGrows ==
    ASSUME chain' = chain, NEW t, pool' = pool \cup {t}
    PROVE  Available' \subseteq Available \cup Outs(t)
<1>1. Unspent' = Unspent
  BY ChainSame
<1>2. OutsOf(pool') \subseteq OutsOf(pool) \cup Outs(t)
  BY DEF OutsOf
<1>3. Available' = Unspent' \cup OutsOf(pool')
  BY DEF Available, OutsOf, Outs, ElementsOf
<1> QED
  BY <1>1, <1>2, <1>3 DEF Available

LEMMA OutsKnown == ASSUME NEW t \in Txs PROVE Outs(t) \subseteq OutsOf(Txs)
BY DEF OutsOf

(***************************************************************************)
(* One iteration of processOrphans.  The orphan that waits for the output  *)
(* is the only one; if it has its inputs it is accepted or thrown away.    *)
(***************************************************************************)
LEMMA ResolvableFacts ==
    ASSUME OneRedeemer, Inv, NEW op \in OutPoints, op \in OutsOf(Txs)
    PROVE  /\ Resolvable(op) \subseteq orphans
           /\ \A o \in orphans : op \in Ins[o] /\ Ins[o] \subseteq Available => o \in Resolvable(op)
           /\ \A o \in orphans, r \in Resolvable(op) : op \in Ins[o] => o = r
<1>1. /\ orphansByPrev[op] = {o \in orphans : op \in Ins[o]} /\ orphans \subseteq Txs
  BY DEF Inv, OrphansIndexed, TypeOK
<1>2. Resolvable(op) \subseteq orphansByPrev[op]
  BY DEF Resolvable
<1>3. ASSUME NEW o \in orphans, op \in Ins[o], Ins[o] \subseteq Available
      PROVE  o \in Resolvable(op)
  <2>1. HaveInputs(o)
    BY <1>3 DEF HaveInputs, Available
  <2>2. maybeAcceptTransaction(o, FALSE) # {"orphan"}
    <3>1. "error" # "orphan" /\ "accepted" # "orphan"
      OBVIOUS
    <3> QED
      BY <2>1, <3>1 DEF maybeAcceptTransaction
  <2> QED
    BY <1>1, <1>3, <2>2 DEF Resolvable
<1>4. ASSUME NEW o \in orphans, NEW r \in Resolvable(op), op \in Ins[o] PROVE o = r
  <2>1. op \in Ins[r] /\ r \in Txs /\ o \in Txs
    BY <1>1, <1>2, <1>4
  <2>2. op \in Ins[o] \cap Ins[r] \cap OutsOf(Txs)
    BY <1>4, <2>1
  <2> QED
    BY <2>1, <2>2 DEF OneRedeemer
<1> QED
  BY <1>1, <1>2, <1>3, <1>4

LEMMA ProcessOutputLooked ==
    ASSUME OneRedeemer, Inv, LookedInv, ProcessOutput PROVE LookedInv'
<1>0. PICK op : op = Head(work.queue)
  OBVIOUS
<1>1. /\ work.queue \in Seq(OutPoints) /\ work.queue # <<>> /\ pool \subseteq Txs
      /\ chain' = chain /\ note' = note
      /\ work \in [busy : BOOLEAN, queue : Seq(OutPoints), accepted : SUBSET Txs]
  BY DEF Inv, TypeOK, ProcessOutput, chainVars
<1>2. /\ ElementsOf(work.queue) = {op} \cup ElementsOf(Tail(work.queue))
      /\ Tail(work.queue) \in Seq(OutPoints) /\ op \in OutPoints
  BY <1>0, <1>1, OutputElements
<1>3. op \in OutsOf(Txs) /\ ElementsOf(Tail(work.queue)) \subseteq OutsOf(Txs)
  BY <1>2 DEF LookedInv
<1>4. NoteOutputs' = NoteOutputs /\ ~Disconnecting'
  BY <1>1, SameNoteOutputs DEF LookedInv
<1>5. /\ Resolvable(op) \subseteq orphans /\ orphans \subseteq Txs
      /\ \A o \in orphans : op \in Ins[o] /\ Ins[o] \subseteq Available => o \in Resolvable(op)
      /\ \A o \in orphans, r \in Resolvable(op) : op \in Ins[o] => o = r
  BY <1>2, <1>3, ResolvableFacts DEF Inv, TypeOK
<1>6. ASSUME work'.queue = Tail(work.queue) PROVE ToLookAt' = ElementsOf(Tail(work.queue)) \cup NoteOutputs
  BY <1>4, <1>6 DEF ToLookAt, ElementsOf
<1>7. ToLookAt = {op} \cup ElementsOf(Tail(work.queue)) \cup NoteOutputs
  BY <1>2 DEF ToLookAt
<1>8. NextOutput => work'.queue = Tail(work.queue)
  BY <1>1 DEF NextOutput
<1>9. CASE Resolvable(op) = {} /\ NextOutput /\ UNCHANGED <<poolVars, orphanVars>>
  <2>1. pool' = pool /\ orphans' = orphans /\ work'.queue = Tail(work.queue)
    BY <1>8, <1>9 DEF poolVars, orphanVars
  <2>2. Available' \subseteq Available
    BY <1>1, <2>1, AvailableShrinks
  <2>3. ASSUME NEW o \in orphans', Ins[o] \subseteq Available', Ins[o] \cap ToLookAt # {}
        PROVE  Ins[o] \cap ToLookAt' # {}
    <3>1. op \notin Ins[o]
      BY <1>5, <1>9, <2>1, <2>2, <2>3
    <3> QED
      BY <1>6, <1>7, <2>1, <2>3, <3>1
  <2> QED
    BY <1>3, <1>4, <2>1, <2>2, <2>3, LookedKept
<1>10. ASSUME NEW r \in Resolvable(op), removeOrphans(OrphansWithRedeemers({r})), NextOutput,
              UNCHANGED poolVars
       PROVE  LookedInv'
  <2>1. pool' = pool /\ work'.queue = Tail(work.queue)
    BY <1>8, <1>10 DEF poolVars
  <2>2. orphans' \subseteq orphans \ {r}
    <3>1. {r} \cap orphans \subseteq OrphansWithRedeemers({r})
      BY <1>5, RedeemersType, ClosureFacts DEF OrphansWithRedeemers, Inv
    <3> QED
      BY <1>5, <1>10, <3>1 DEF removeOrphans
  <2>3. Available' \subseteq Available
    BY <1>1, <2>1, AvailableShrinks
  <2>4. ASSUME NEW o \in orphans', Ins[o] \cap ToLookAt # {} PROVE Ins[o] \cap ToLookAt' # {}
    <3>1. op \notin Ins[o]
      BY <1>5, <1>10, <2>2
    <3> QED
      BY <1>6, <1>7, <2>1, <2>4, <3>1
  <2> QED
    BY <1>3, <1>4, <2>1, <2>2, <2>3, <2>4, LookedKept
<1>11. ASSUME NEW r \in Resolvable(op), addTransaction(r), removeOrphans(OnlyOrphans({r})),
              work' = [busy |-> TRUE, queue |-> Tail(work.queue) \o OutputsOf(r),
                       accepted |-> work.accepted \cup {r}]
       PROVE  LookedInv'
  <2>1. pool' = pool \cup {r} /\ orphans' = orphans \ {r} /\ r \in Txs
    BY <1>5, <1>11 DEF addTransaction, removeOrphans, OnlyOrphans
  <2>2. TxOut[r] \in Seq(OutPoints)
    BY <2>1, MempoolAssumption
  <2>3. ElementsOf(work'.queue) = ElementsOf(Tail(work.queue)) \cup Outs(r)
    <3>1. work'.queue = Tail(work.queue) \o TxOut[r]
      BY <1>11 DEF OutputsOf
    <3>2. ElementsOf(Tail(work.queue) \o TxOut[r])
              = ElementsOf(Tail(work.queue)) \cup ElementsOf(TxOut[r])
      BY <1>2, <2>2, OutputElements
    <3> QED
      BY <3>1, <3>2 DEF Outs
  <2>4. ToLookAt' = ElementsOf(Tail(work.queue)) \cup Outs(r) \cup NoteOutputs
    BY <1>4, <2>3 DEF ToLookAt, ElementsOf
  <2>5. Available' \subseteq Available \cup Outs(r)
    BY <1>1, <2>1, AvailableGrows
  <2>6. ASSUME NEW o \in orphans', Ins[o] \cap ToLookAt # {} PROVE Ins[o] \cap ToLookAt' # {}
    <3>1. op \notin Ins[o]
      BY <1>5, <1>11, <2>1
    <3> QED
      BY <1>7, <2>4, <2>6, <3>1
  <2>7. ElementsOf(work'.queue) \subseteq OutsOf(Txs) /\ Outs(r) \subseteq ToLookAt'
    BY <1>3, <2>1, <2>3, <2>4, OutsKnown
  <2> QED
    BY <1>4, <2>1, <2>5, <2>6, <2>7, LookedKept
<1> QED
  BY <1>0, <1>9, <1>10, <1>11 DEF ProcessOutput

(***************************************************************************)
(* The other operations.                                                   *)
(***************************************************************************)
LEMMA ProcessedOrphansLooked ==
    ASSUME Inv, LookedInv, ProcessedOrphans PROVE LookedInv'
<1>1. /\ chain' = chain /\ pool' = pool /\ work.queue = <<>> /\ work' = NoWork
      /\ note' = AfterProcess /\ orphans' \subseteq orphans
  BY DEF ProcessedOrphans, chainVars, poolVars, removeOrphans
<1>2. ElementsOf(work.queue) = {} /\ ElementsOf(work'.queue) = {}
  BY <1>1 DEF NoWork, ElementsOf
<1>3. NoteOutputs \subseteq NoteOutputs' /\ ~Disconnecting'
  <2>1. CASE note.step # "processing"
    <3>1. note' = note
      BY <1>1, <2>1 DEF AfterProcess
    <3> QED
      BY <3>1, SameNoteOutputs DEF LookedInv
  <2>2. CASE note.step = "processing"
    <3>1. PICK rest : rest = Tail(note.txs)
      OBVIOUS
    <3>2. note' = [step |-> IF Len(note.txs) = 1 THEN "none" ELSE "remove", txs |-> rest]
      BY <1>1, <2>2, <3>1 DEF AfterProcess
    <3>3. NoteOutputs = OutsOf(ElementsOf(rest))
      BY <2>2, <3>1 DEF NoteOutputs
    <3>4. note.txs \in Seq(Txs) /\ note.txs # <<>>
      BY <2>2 DEF Inv, TypeOK, NoteInv
    <3>5. CASE Len(note.txs) = 1
      <4>1. Len(rest) = 0 /\ rest \in Seq(Txs)
        BY <3>1, <3>4, <3>5
      <4>2. ElementsOf(rest) = {}
        BY <4>1 DEF ElementsOf
      <4>3. NoteOutputs = {}
        BY <3>3, <4>2 DEF OutsOf
      <4>4. ~Disconnecting'
        BY <3>2, <3>5 DEF Disconnecting
      <4> QED
        BY <4>3, <4>4
    <3>6. CASE Len(note.txs) # 1
      <4>1. note'.step = "remove" /\ note'.txs = rest
        BY <3>2, <3>6
      <4>2. NoteOutputs' = OutsOf(ElementsOf(rest))
        BY <4>1 DEF NoteOutputs, Connecting, OutsOf, Outs, ElementsOf
      <4>3. ~Disconnecting'
        BY <4>1 DEF Disconnecting
      <4> QED
        BY <3>3, <4>2, <4>3
    <3> QED
      BY <3>5, <3>6
  <2> QED
    BY <2>1, <2>2
<1>4. Available' \subseteq Available
  BY <1>1, AvailableShrinks
<1>5. ToLookAt = NoteOutputs /\ NoteOutputs' \subseteq ToLookAt'
  BY <1>2 DEF ToLookAt
<1>6. ToLookAt \subseteq ToLookAt'
  BY <1>3, <1>5
<1>7. {} \subseteq ToLookAt' /\ Available' \subseteq Available \cup {}
  BY <1>4
<1> QED
  BY <1>1, <1>2, <1>3, <1>6, <1>7, LookedKept

LEMMA StartLooked ==
    ASSUME Inv, ConflictInv, LookedInv, ~work.busy, NEW t \in Txs, chain' = chain,
           pool' \subseteq pool \cup {t}, orphans' = orphans, StartOrphans(t), ~Disconnecting',
           NoteOutputs \subseteq Outs(t) \cup NoteOutputs'
    PROVE  LookedInv'
<1>1. ElementsOf(work.queue) = {}
  BY DEF ConflictInv, NoWork, ElementsOf
<1>2. ElementsOf(work'.queue) = Outs(t)
  BY DEF StartOrphans, Outs
<1>3. ToLookAt' = Outs(t) \cup NoteOutputs'
  BY <1>2 DEF ToLookAt, ElementsOf
<1>4. ToLookAt \subseteq ToLookAt' /\ Outs(t) \subseteq ToLookAt'
  BY <1>1, <1>3 DEF ToLookAt
<1>5. Available' \subseteq Available \cup Outs(t)
  <2>1. Unspent' = Unspent
    BY ChainSame
  <2>2. OutsOf(pool') \subseteq OutsOf(pool) \cup Outs(t)
    BY DEF OutsOf
  <2>3. Available' = Unspent' \cup OutsOf(pool')
    BY DEF Available, OutsOf, Outs, ElementsOf
  <2> QED
    BY <2>1, <2>2, <2>3 DEF Available
<1>6. ElementsOf(work'.queue) \subseteq OutsOf(Txs)
  BY <1>2, OutsKnown
<1> QED
  BY <1>4, <1>5, <1>6, LookedKept

(***************************************************************************)
(* Steps after which there are no more orphans and no more outputs.        *)
(***************************************************************************)
LEMMA LookedShrinks ==
    ASSUME LookedInv, chain' = chain, pool' \subseteq pool, orphans' \subseteq orphans,
           work' = work, ~Disconnecting', NoteOutputs' = NoteOutputs
    PROVE  LookedInv'
<1>1. ToLookAt' = ToLookAt /\ ElementsOf(work'.queue) \subseteq OutsOf(Txs)
  BY DEF ToLookAt, ElementsOf, LookedInv
<1>2. Available' \subseteq Available \cup {} /\ {} \subseteq ToLookAt'
  BY AvailableShrinks
<1> QED
  BY <1>1, <1>2, LookedKept

LEMMA ArrivesLooked ==
    ASSUME Inv, ConflictInv, LookedInv, NEW t \in Txs,
           SendRawTransaction(t) \/ \E p \in Peers : PeerTx(p, t)
    PROVE  LookedInv'
<1>1. chain' = chain /\ note' = note /\ ~work.busy
  BY DEF SendRawTransaction, PeerTx, chainVars
<1>2. NoteOutputs' = NoteOutputs /\ ~Disconnecting'
  BY <1>1, SameNoteOutputs DEF LookedInv
<1>3. CASE Accept(t) /\ StartOrphans(t)
  <2>1. pool' = pool \cup {t} /\ orphans' = orphans
    BY <1>3 DEF Accept, addTransaction, orphanVars
  <2> QED
    BY <1>1, <1>2, <1>3, <2>1, StartLooked
<1>4. ASSUME NEW p \in Peers, "orphan" \in maybeAcceptTransaction(t, TRUE),
             addOrphan(t, p), UNCHANGED <<poolVars, work>>
      PROVE  LookedInv'
  <2>1. pool' = pool /\ work' = work
    BY <1>4 DEF poolVars
  <2>2. orphans' \subseteq orphans \cup {t}
    BY <1>4, AddOrphanInv
  <2>3. ~(Ins[t] \subseteq Available)
    <3>1. "error" # "orphan" /\ "accepted" # "orphan"
      OBVIOUS
    <3>2. ~HaveInputs(t)
      BY <1>4, <3>1 DEF maybeAcceptTransaction
    <3> QED
      BY <3>2 DEF HaveInputs, Available
  <2>4. Available' = Available /\ ToLookAt' = ToLookAt
    <3>1. Unspent' = Unspent
      BY <1>1, ChainSame
    <3> QED
      BY <1>2, <2>1, <3>1 DEF Available, ToLookAt, ElementsOf, OutsOf, Outs
  <2>5. {} \subseteq ToLookAt' /\ Available' \subseteq Available \cup {}
        /\ ElementsOf(work'.queue) \subseteq OutsOf(Txs)
    BY <2>1, <2>4 DEF LookedInv
  <2> QED
    BY <1>2, <2>2, <2>3, <2>4, <2>5, LookedKept
<1> QED
  BY <1>3, <1>4 DEF SendRawTransaction, PeerTx

LEMMA PeerLeavesLooked ==
    ASSUME LookedInv, NEW p \in Peers, PeerLeaves(p) \/ HandleDonePeer(p)
    PROVE  LookedInv'
<1>1. /\ chain' = chain /\ note' = note /\ pool' = pool /\ work' = work
      /\ orphans' \subseteq orphans
  BY DEF PeerLeaves, HandleDonePeer, chainVars, poolVars, orphanVars, removeOrphans
<1>2. NoteOutputs' = NoteOutputs /\ ~Disconnecting'
  BY <1>1, SameNoteOutputs DEF LookedInv
<1> QED
  BY <1>1, <1>2, LookedShrinks

LEMMA ConnectBlockLooked ==
    ASSUME Inv, ConflictInv, LookedInv, NEW b \in Blocks, ConnectBlock(b)
    PROVE  LookedInv'
<1>1. /\ note = NoNote /\ pool' = pool /\ orphans' = orphans /\ work' = work
      /\ chain' = Append(chain, b) /\ Notify("remove", b)
  BY DEF ConnectBlock, poolVars, orphanVars
<1>2. b \in Seq(Txs) /\ chain \in Seq(Blocks)
  BY MempoolAssumption DEF Inv, TypeOK
<1>3. Confirmed' = Confirmed \cup ElementsOf(b)
  <2>1. /\ DOMAIN chain' = 1..(Len(chain) + 1) /\ DOMAIN chain = 1..Len(chain)
        /\ Len(chain) \in Nat /\ chain'[Len(chain) + 1] = b
        /\ \A i \in 1..Len(chain) : chain'[i] = chain[i]
    BY <1>1, <1>2
  <2>2. 1..(Len(chain) + 1) = 1..Len(chain) \cup {Len(chain) + 1}
    BY <2>1
  <2> QED
    BY <2>1, <2>2 DEF Confirmed, ElementsOf
<1>4. Unspent' \subseteq Unspent \cup OutsOf(ElementsOf(b))
  <2>1. Unspent' = (Coins \cup OutsOf(Confirmed')) \ InsOf(Confirmed')
    BY DEF Unspent, OutsOf, InsOf, Outs, ElementsOf
  <2>2. OutsOf(Confirmed') = OutsOf(Confirmed) \cup OutsOf(ElementsOf(b))
    BY <1>3 DEF OutsOf
  <2>3. InsOf(Confirmed) \subseteq InsOf(Confirmed')
    BY <1>3 DEF InsOf
  <2> QED
    BY <2>1, <2>2, <2>3 DEF Unspent
<1>5. Available' \subseteq Available \cup OutsOf(ElementsOf(b))
  <2>1. Available' = Unspent' \cup OutsOf(pool')
    BY DEF Available, OutsOf, Outs, ElementsOf
  <2> QED
    BY <1>1, <1>4, <2>1 DEF Available
<1>6. OutsOf(ElementsOf(b)) \subseteq NoteOutputs' /\ ~Disconnecting'
  <2>1. CASE b = <<>>
    <3>1. ElementsOf(b) = {}
      BY <2>1 DEF ElementsOf
    <3>2. OutsOf(ElementsOf(b)) = {}
      BY <3>1 DEF OutsOf
    <3>3. note'.step = "none"
      BY <1>1, <2>1 DEF Notify, NoNote
    <3> QED
      BY <3>2, <3>3 DEF Disconnecting
  <2>2. CASE b # <<>>
    <3>1. note'.step = "remove" /\ note'.txs = b
      BY <1>1, <2>2 DEF Notify
    <3> QED
      BY <3>1 DEF Disconnecting, NoteOutputs, Connecting, OutsOf, Outs, ElementsOf
  <2> QED
    BY <2>1, <2>2
<1>7. NoteOutputs = {}
  BY <1>1 DEF NoteOutputs, NoNote, Connecting
<1>8. ToLookAt \subseteq ToLookAt' /\ OutsOf(ElementsOf(b)) \subseteq ToLookAt'
      /\ ElementsOf(work'.queue) \subseteq OutsOf(Txs)
  BY <1>1, <1>6, <1>7 DEF ToLookAt, ElementsOf, LookedInv
<1> QED
  BY <1>1, <1>5, <1>6, <1>8, LookedKept

LEMMA RemovalLooked ==
    ASSUME Inv, ConflictInv, LookedInv,
           RemoveTransaction \/ RemoveDoubleSpends \/ RemoveOrphan \/ ProcessOrphans
    PROVE  LookedInv'
<1>1. /\ note.step \in {"remove", "doubles", "orphan", "process"} /\ chain' = chain
      /\ ~work.busy
  BY DEF RemoveTransaction, RemoveDoubleSpends, RemoveOrphan, ProcessOrphans, Current, chainVars
<1>2. note.txs \in Seq(Txs) /\ note.txs # <<>> /\ note \in NoteType
  BY <1>1 DEF Inv, TypeOK, NoteInv, NoteType
<1>3. NoteOutputs = OutsOf(ElementsOf(note.txs))
  BY <1>1 DEF NoteOutputs, Connecting
<1>4. CASE RemoveTransaction \/ RemoveDoubleSpends \/ RemoveOrphan
  <2>1. /\ pool' \subseteq pool /\ orphans' \subseteq orphans /\ work' = work
        /\ note'.step \in {"doubles", "orphan", "process"} /\ note'.txs = note.txs
    BY <1>2, <1>4 DEF RemoveTransaction, RemoveDoubleSpends, RemoveOrphan, removeTransactions,
       removeOrphans, GoTo, NoteType, poolVars, orphanVars
  <2>2. NoteOutputs' = NoteOutputs /\ ~Disconnecting'
    <3>1. note'.step # "processing" /\ Connecting' /\ ~Disconnecting'
      BY <2>1 DEF Connecting, Disconnecting
    <3>2. NoteOutputs' = OutsOf(ElementsOf(note'.txs))
      BY <3>1 DEF NoteOutputs, OutsOf, Outs, ElementsOf
    <3> QED
      BY <1>3, <2>1, <3>1, <3>2
  <2> QED
    BY <1>1, <2>1, <2>2, LookedShrinks
<1>5. CASE ProcessOrphans
  <2>1. PICK t, rest : t = Head(note.txs) /\ rest = Tail(note.txs)
    OBVIOUS
  <2>2. /\ pool' = pool /\ orphans' = orphans /\ StartOrphans(t)
        /\ note'.step = "processing" /\ note'.txs = note.txs
    BY <1>2, <1>5, <2>1 DEF ProcessOrphans, GoTo, NoteType, poolVars, orphanVars
  <2>3. ElementsOf(note.txs) = {t} \cup ElementsOf(rest) /\ t \in Txs
    BY <1>2, <2>1, HeadTailElements
  <2>4. NoteOutputs' = OutsOf(ElementsOf(rest)) /\ ~Disconnecting'
    <3>1. Tail(note'.txs) = rest
      BY <2>1, <2>2
    <3> QED
      BY <2>2, <3>1 DEF NoteOutputs, Disconnecting, OutsOf, Outs, ElementsOf
  <2>5. NoteOutputs \subseteq Outs(t) \cup NoteOutputs'
    BY <1>3, <2>3, <2>4 DEF OutsOf
  <2>6. pool' \subseteq pool \cup {t}
    BY <2>2
  <2> QED
    BY <1>1, <2>2, <2>3, <2>4, <2>5, <2>6, StartLooked
<1> QED
  BY <1>4, <1>5

LEMMA InitLooked == Init => LookedInv
BY DEF Init, LookedInv, NoNote, NoWork, Disconnecting, ElementsOf

LEMMA NextLooked ==
    ASSUME OneRedeemer, Inv, ConflictInv, LookedInv, [Next]_vars, [~DisconnectBlock]_vars
    PROVE  LookedInv'
<1>1. CASE UNCHANGED vars
  <2>1. /\ chain' = chain /\ note' = note /\ pool' = pool /\ work' = work
        /\ orphans' = orphans
    BY <1>1 DEF vars, chainVars, poolVars, orphanVars
  <2>2. NoteOutputs' = NoteOutputs /\ ~Disconnecting'
    BY <2>1, SameNoteOutputs DEF LookedInv
  <2> QED
    BY <2>1, <2>2, LookedShrinks
<1>2. CASE ~UNCHANGED vars
  <2>1. ~DisconnectBlock /\ Next
    BY <1>2
  <2>2. ~MaybeAcceptTransaction /\ ~DropTransaction
    BY DEF LookedInv, Disconnecting, MaybeAcceptTransaction, DropTransaction, Current
  <2> QED
    BY <2>1, <2>2, ProcessOutputLooked, ProcessedOrphansLooked, ArrivesLooked,
       PeerLeavesLooked, ConnectBlockLooked, RemovalLooked DEF Next
<1> QED
  BY <1>1, <1>2

(***************************************************************************)
(* As long as no block is disconnected, and if at most one transaction     *)
(* spends each output that another one creates, no orphan is ever left     *)
(* whose inputs are all there: in whatever order parents and children      *)
(* arrive, by peers, RPCs and blocks, also when coins are spent twice, and *)
(* whichever orphans are refused, expire or are evicted.                   *)
(***************************************************************************)
THEOREM MempoolNoOrphanLeft ==
    OneRedeemer => (Spec /\ [][~DisconnectBlock]_vars => []NoOrphanLeft)
<1> SUFFICES ASSUME OneRedeemer PROVE Spec /\ [][~DisconnectBlock]_vars => []NoOrphanLeft
  OBVIOUS
<1>1. ChainInvs => ConflictInv
  BY DEF ChainInvs
<1>2. Inv /\ ConflictInv /\ LookedInv /\ [Next]_vars /\ [~DisconnectBlock]_vars => LookedInv'
  BY NextLooked
<1>3. ConflictInv /\ LookedInv => NoOrphanLeft
  <2> SUFFICES ASSUME ConflictInv, LookedInv, note = NoNote, ~work.busy, NEW o \in orphans
               PROVE  ~HaveInputs(o)
    BY DEF NoOrphanLeft
  <2>1. ToLookAt = {}
    BY DEF ToLookAt, ConflictInv, NoWork, NoNote, NoteOutputs, Connecting, ElementsOf
  <2> QED
    BY <2>1 DEF LookedInv, HaveInputs, Available
<1> QED
  BY <1>1, <1>2, <1>3, InitLooked, InvHolds, ChainInvsHold, PTL DEF Spec
=============================================================================
