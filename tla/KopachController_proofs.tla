----------------------- MODULE KopachController_proofs -----------------------
(***************************************************************************)
(* Proofs about KopachController: the type invariant, and that the         *)
(* coinbases are complete between updates, for any addresses, versions and *)
(* number of blocks.                                                       *)
(***************************************************************************)
EXTENDS KopachController, TLAPS

Templates == [prev : known, addr : Addrs]
UpdateSteps == {"none", "current", "notified", "cleared", "template", "job", "stored", "sent"}

(***************************************************************************)
(* The inductive invariant.  Every job was made of a template of a known   *)
(* block, and a coinbase is missing only if an updater that is running     *)
(* will still fill it in, or an update has failed: whoever throws the map  *)
(* away has not filled in anything yet.                                    *)
(***************************************************************************)
LocalTypes ==
    /\ updating \in [Updaters -> [step : UpdateSteps, template : Templates \cup {None},
                                  height : Nat, filled : SUBSET Algos]]
    /\ solving \in [step : {"none", "checked", "block", "accepted"}, job : JobType \cup {None}]
    /\ solving.step # "none" => solving.job \in JobType
    /\ mining => work \in JobType

Closed == \A b \in known \ {Genesis} : Parent(b) \in known

UpdateInv(u) ==
    /\ u.step \in {"template", "job", "stored", "sent"} => u.template \in Templates
    /\ u.step \in {"none", "current", "notified", "cleared", "template"} => u.filled = {}
    /\ u.step \in {"stored", "sent"} => oldBlocks \in JobType

WillFill(g, i) == Running(g) /\ i \notin updating[g].filled

FillInv ==
    failed \/ \A i \in Algos : coinbases[i] # None \/ \E g \in Updaters : WillFill(g, i)

LastInv == \A g \in Updaters : updating[g].step \in {"stored", "sent"} => updating[g].filled = Algos

Inv ==
    /\ TypeOK /\ LocalTypes /\ Closed /\ FillInv /\ LastInv
    /\ \A g \in Updaters : UpdateInv(updating[g])

-----------------------------------------------------------------------------
(***************************************************************************)
(* Facts on blocks: the parent of a new block, and that a block which is   *)
(* not on a branch is not the genesis block.                               *)
(***************************************************************************)
LEMMA NewParent ==
    ASSUME NEW p \in Seq(Nat), NEW i \in Nat
    PROVE  Append(p, i) \in Seq(Nat) /\ Parent(Append(p, i)) = p
<1>1. Append(p, i) \in Seq(Nat) /\ Len(Append(p, i)) = Len(p) + 1
  OBVIOUS
<1>2. SubSeq(Append(p, i), 1, Len(p)) = p
  OBVIOUS
<1> QED BY <1>1, <1>2 DEF Parent

LEMMA GenesisOnBranch ==
    ASSUME NEW c \in Seq(Nat)
    PROVE  OnBranch(Genesis, c)
<1>1. Len(Genesis) = 0 /\ Len(c) \in Nat
  BY DEF Genesis
<1>2. SubSeq(c, 1, 0) = << >>
  OBVIOUS
<1> QED BY <1>1, <1>2 DEF OnBranch, Genesis

(***************************************************************************)
(* The job made of a template is a job.                                    *)
(***************************************************************************)
LEMMA JobIsJob ==
    ASSUME TypeOK, NEW u, u.template \in Templates, u.height \in Nat
    PROVE  Job(u) \in JobType /\ Merkle(u) \in Merkles /\ Merkle(u) # None
<1>1. u.template.prev \in known /\ u.template.addr \in Addrs /\ Len(u.template.prev) \in Nat
  BY DEF Templates, TypeOK
<1>2. Merkle(u) \in Merkles
  BY <1>1 DEF Merkle, Merkles
<1>3. Merkle(u) # None
  BY <1>2, ControllerAssumption DEF ControllerAssumption, Merkles
<1> QED BY <1>1, <1>2, <1>3 DEF Job, JobType

(***************************************************************************)
(* What is left after a crash.                                             *)
(***************************************************************************)
LEMMA CrashInv == Inv /\ Crash => Inv'
<1> SUFFICES ASSUME Inv, Crash PROVE Inv'
  OBVIOUS
<1> USE DEF Inv
<1>1. UNCHANGED <<known, tip, work, mining>>
  BY DEF Crash, minerVars
<1>2. JobType' = JobType /\ Templates' = Templates
  BY <1>1 DEF JobType, Templates
<1>3. /\ crashed' = TRUE /\ ready' = FALSE /\ failed' = TRUE /\ target' = None
      /\ prevHash' = None /\ oldBlocks' = None /\ coinbases' = [i \in Algos |-> None]
      /\ updating' = [g \in Updaters |-> NoUpdate] /\ solving' = Listening
  BY DEF Crash, NoCoinbases
<1>4. {ready, mining, crashed, failed}' \subseteq BOOLEAN
  BY <1>1, <1>3 DEF TypeOK
<1>5. TypeOK'
  BY <1>1, <1>2, <1>3, <1>4 DEF TypeOK
<1>6. LocalTypes'
  BY <1>1, <1>2, <1>3 DEF LocalTypes, NoUpdate, Listening, UpdateSteps
<1>7. \A g \in Updaters : UpdateInv(updating[g])'
  BY <1>3 DEF UpdateInv, NoUpdate
<1>8. LastInv'
  BY <1>3 DEF LastInv, NoUpdate
<1> QED BY <1>1, <1>3, <1>5, <1>6, <1>7, <1>8 DEF Closed, FillInv

(***************************************************************************)
(* The first template satisfies the invariant.                             *)
(***************************************************************************)
LEMMA InitInv == Init => Inv
<1> SUFFICES ASSUME Init PROVE Inv
  OBVIOUS
<1>1. known = {Genesis} /\ tip = Genesis /\ Genesis \in Seq(Nat) /\ target = None
  BY DEF Init, Genesis
<1>2. updating = [g \in Updaters |-> NoUpdate] /\ solving = Listening
  BY DEF Init
<1> DEFINE Fields ==
      /\ coinbases \in [Algos -> Merkles \cup {None}] /\ prevHash \in known \cup {None}
      /\ oldBlocks \in JobType \cup (IF prevHash = None THEN {None} ELSE {})
      /\ failed \/ \A i \in Algos : coinbases[i] # None
      /\ failed \in BOOLEAN
<1>3. Fields
  <2>1. CASE NoFirstTemplate
    BY <2>1 DEF NoFirstTemplate, NoCoinbases
  <2>2. ASSUME NEW a \in Addrs, FirstTemplate(a) PROVE Fields
    <3>1. <<0, a, 0>> \in Merkles /\ <<0, a, 0>> # None
      BY ControllerAssumption DEF Merkles, ControllerAssumption
    <3>2. oldBlocks = [prev |-> Genesis, merkle |-> <<0, a, 0>>] /\ oldBlocks.merkle = <<0, a, 0>>
      BY <2>2 DEF FirstTemplate
    <3>3. oldBlocks \in JobType
      BY <1>1, <3>1, <3>2 DEF JobType
    <3> QED BY <1>1, <2>2, <3>1, <3>2, <3>3 DEF FirstTemplate
  <2> QED BY <2>1, <2>2 DEF Init
<1>4. work \in {None, oldBlocks} /\ (mining <=> work # None) /\ mining \in BOOLEAN
  BY DEF Init
<1>5. work \in JobType \cup {None} /\ (mining => work \in JobType)
  BY <1>3, <1>4
<1>6. {ready, mining, crashed, failed} \subseteq BOOLEAN
  BY <1>3, <1>4 DEF Init
<1>7. TypeOK
  BY <1>1, <1>3, <1>5, <1>6 DEF TypeOK
<1>8. LocalTypes
  BY <1>2, <1>5 DEF LocalTypes, NoUpdate, Listening, UpdateSteps
<1>9. \A g \in Updaters : UpdateInv(updating[g])
  BY <1>2 DEF UpdateInv, NoUpdate
<1>10. LastInv
  BY <1>2 DEF LastInv, NoUpdate
<1> QED BY <1>1, <1>3, <1>7, <1>8, <1>9, <1>10 DEF Inv, Closed, FillInv

(***************************************************************************)
(* What the miner holds, and the type invariant of the rest around it.     *)
(***************************************************************************)
MinerOK == work \in JobType \cup {None} /\ mining \in BOOLEAN /\ (mining => work \in JobType)

LEMMA TakeKeepsMiner ==
    ASSUME Inv, NEW j \in JobType, TakeJob(j) \/ UNCHANGED minerVars, known' = known
    PROVE  MinerOK'
<1>1. MinerOK /\ JobType' = JobType
  BY DEF Inv, TypeOK, LocalTypes, MinerOK, JobType
<1>2. CASE UNCHANGED minerVars
  BY <1>1, <1>2 DEF MinerOK, minerVars
<1>3. CASE work' = j /\ mining' = TRUE
  BY <1>1, <1>3 DEF MinerOK
<1> QED BY <1>2, <1>3 DEF TakeJob

LEMMA TypeWithMiner ==
    ASSUME TypeOK, MinerOK', UNCHANGED <<shared, ready, failed, crashed, known>>,
           tip' \in known, target' \in known \cup {None}
    PROVE  TypeOK'
<1>1. {ready, mining, crashed, failed}' \subseteq BOOLEAN
  BY DEF TypeOK, MinerOK
<1>2. JobType' = JobType
  BY DEF JobType
<1> QED BY <1>1, <1>2 DEF TypeOK, MinerOK, shared

-----------------------------------------------------------------------------
(***************************************************************************)
(* UpdateAndSendTemplate, for either goroutine.                            *)
(***************************************************************************)
LEMMA UpdateKeepsInv ==
    ASSUME Inv, NEW g \in Updaters, UpdateAndSendTemplate(g)
    PROVE  Inv'
<1> USE DEF Inv
<1>1. CASE GetTemplate(g)
  <2>1. PICK a \in Addrs :
           updating' = [updating EXCEPT ![g] = [@ EXCEPT !.step = "template",
                                                         !.template = Template(a)]]
    BY <1>1 DEF GetTemplate
  <2>2. UNCHANGED <<chainVars, shared, ready, minerVars, solving, failed, crashed>>
    BY <1>1 DEF GetTemplate
  <2>3. Template(a) \in Templates
    BY DEF Template, Templates, TypeOK
  <2>4. /\ updating'[g].step = "template" /\ updating'[g].template = Template(a)
        /\ updating'[g].filled = updating[g].filled /\ updating[g].step = "cleared"
        /\ \A h \in Updaters \ {g} : updating'[h] = updating[h]
    <3>1. updating[g].step = "cleared"
      BY <1>1 DEF GetTemplate, At
    <3> QED BY <2>1, <3>1 DEF LocalTypes
  <2>5. LocalTypes'
    <3>1. JobType' = JobType /\ Templates' = Templates
      BY <2>2 DEF JobType, Templates, chainVars
    <3>2. updating' \in [Updaters -> [step : UpdateSteps, template : Templates \cup {None},
                                      height : Nat, filled : SUBSET Algos]]
      BY <2>1, <2>3 DEF LocalTypes, UpdateSteps
    <3> QED BY <2>2, <3>1, <3>2 DEF LocalTypes, minerVars
  <2>6. \A h \in Updaters : UpdateInv(updating[h])'
    BY <2>2, <2>3, <2>4 DEF UpdateInv, Templates, JobType, chainVars, shared
  <2>7. FillInv' /\ LastInv'
    BY <2>2, <2>4 DEF FillInv, LastInv, WillFill, Running, shared
  <2>8. TypeOK' /\ Closed'
    BY <2>2 DEF TypeOK, Closed, JobType, chainVars, shared, minerVars
  <2> QED BY <2>5, <2>6, <2>7, <2>8
<1>2. CASE NoTemplate(g)
  <2>1. /\ updating' = [updating EXCEPT ![g] = NoUpdate] /\ failed' = TRUE
        /\ UNCHANGED <<chainVars, shared, ready, minerVars, solving, crashed>>
    BY <1>2 DEF NoTemplate
  <2>2. updating'[g] = NoUpdate /\ \A h \in Updaters \ {g} : updating'[h] = updating[h]
    BY <2>1 DEF LocalTypes
  <2>3. LocalTypes'
    <3>1. JobType' = JobType /\ Templates' = Templates
      BY <2>1 DEF JobType, Templates, chainVars
    <3>2. updating' \in [Updaters -> [step : UpdateSteps, template : Templates \cup {None},
                                      height : Nat, filled : SUBSET Algos]]
      BY <2>1 DEF LocalTypes, NoUpdate, UpdateSteps
    <3> QED BY <2>1, <3>1, <3>2 DEF LocalTypes, minerVars
  <2>4. \A h \in Updaters : UpdateInv(updating[h])'
    BY <2>1, <2>2 DEF UpdateInv, NoUpdate, Templates, JobType, chainVars, shared
  <2>5. FillInv' /\ LastInv'
    BY <2>1, <2>2 DEF FillInv, LastInv, NoUpdate
  <2>6. {ready, mining, crashed, failed}' \subseteq BOOLEAN
    BY <2>1 DEF TypeOK, minerVars
  <2>7. TypeOK' /\ Closed'
    BY <2>1, <2>6 DEF TypeOK, Closed, JobType, chainVars, shared, minerVars
  <2> QED BY <2>3, <2>4, <2>5, <2>7
<1>3. CASE GetHeight(g)
  <2>1. /\ updating' = [updating EXCEPT ![g] = [@ EXCEPT !.step = "job", !.height = Len(tip)]]
        /\ UNCHANGED <<chainVars, shared, ready, minerVars, solving, failed, crashed>>
    BY <1>3 DEF GetHeight
  <2>2. Len(tip) \in Nat
    BY DEF TypeOK
  <2>3. /\ updating'[g].step = "job" /\ updating'[g].template = updating[g].template
        /\ updating'[g].filled = updating[g].filled /\ updating[g].step = "template"
        /\ \A h \in Updaters \ {g} : updating'[h] = updating[h]
    BY <1>3, <2>1 DEF LocalTypes, GetHeight, At
  <2>4. LocalTypes'
    <3>1. JobType' = JobType /\ Templates' = Templates
      BY <2>1 DEF JobType, Templates, chainVars
    <3>2. updating' \in [Updaters -> [step : UpdateSteps, template : Templates \cup {None},
                                      height : Nat, filled : SUBSET Algos]]
      BY <2>1, <2>2 DEF LocalTypes, UpdateSteps
    <3> QED BY <2>1, <3>1, <3>2 DEF LocalTypes, minerVars
  <2>5. \A h \in Updaters : UpdateInv(updating[h])'
    BY <2>1, <2>3 DEF UpdateInv, Templates, JobType, chainVars, shared
  <2>6. FillInv' /\ LastInv'
    BY <2>1, <2>3 DEF FillInv, LastInv, WillFill, Running, shared
  <2>7. TypeOK' /\ Closed'
    BY <2>1 DEF TypeOK, Closed, JobType, chainVars, shared, minerVars
  <2> QED BY <2>4, <2>5, <2>6, <2>7
<1>4. CASE HasTransactions(g)
  BY <1>4, CrashInv DEF HasTransactions
<1>5. ASSUME NEW i \in Algos, FillCoinbase(g, i) PROVE Inv'
  <2>1. /\ updating' = [updating EXCEPT ![g].filled = @ \cup {i}]
        /\ coinbases' = [coinbases EXCEPT ![i] = Merkle(updating[g])]
        /\ UNCHANGED <<chainVars, oldBlocks, prevHash, ready, minerVars, solving, failed, crashed>>
    BY <1>5 DEF FillCoinbase
  <2>2. Merkle(updating[g]) \in Merkles /\ Merkle(updating[g]) # None
    BY <1>5, JobIsJob DEF FillCoinbase, At, UpdateInv, LocalTypes
  <2>3. /\ updating'[g].step = "job" /\ updating'[g].template = updating[g].template
        /\ updating'[g].filled = updating[g].filled \cup {i} /\ updating[g].step = "job"
        /\ \A h \in Updaters \ {g} : updating'[h] = updating[h]
    BY <1>5, <2>1 DEF LocalTypes, FillCoinbase, At
  <2>4. LocalTypes'
    <3>1. JobType' = JobType /\ Templates' = Templates
      BY <2>1 DEF JobType, Templates, chainVars
    <3>2. updating' \in [Updaters -> [step : UpdateSteps, template : Templates \cup {None},
                                      height : Nat, filled : SUBSET Algos]]
      BY <2>1 DEF LocalTypes
    <3> QED BY <2>1, <3>1, <3>2 DEF LocalTypes, minerVars
  <2>5. \A h \in Updaters : UpdateInv(updating[h])'
    BY <2>1, <2>3 DEF UpdateInv, Templates, JobType, chainVars
  <2>6. coinbases' \in [Algos -> Merkles \cup {None}] /\ coinbases'[i] # None
        /\ \A k \in Algos \ {i} : coinbases'[k] = coinbases[k]
    BY <2>1, <2>2 DEF TypeOK
  <2>7. \A h \in Updaters, k \in Algos \ {i} : WillFill(h, k) => WillFill(h, k)'
    BY <2>3 DEF WillFill, Running
  <2>8. FillInv'
    BY <2>1, <2>6, <2>7 DEF FillInv
  <2>9. LastInv'
    BY <2>3 DEF LastInv
  <2>10. TypeOK' /\ Closed'
    BY <2>1, <2>6 DEF TypeOK, Closed, JobType, chainVars, minerVars
  <2> QED BY <2>4, <2>5, <2>8, <2>9, <2>10
<1>6. CASE StoreJob(g)
  <2>1. /\ oldBlocks' = Job(updating[g]) /\ updating' = [updating EXCEPT ![g].step = "stored"]
        /\ UNCHANGED <<chainVars, coinbases, prevHash, ready, minerVars, solving, failed, crashed>>
    BY <1>6 DEF StoreJob, Go
  <2>2. Job(updating[g]) \in JobType
    BY <1>6, JobIsJob DEF StoreJob, JobIsDone, At, UpdateInv, LocalTypes
  <2>3. /\ updating'[g].step = "stored" /\ updating'[g].template = updating[g].template
        /\ updating'[g].filled = updating[g].filled /\ updating[g].step = "job"
        /\ updating[g].filled = Algos
        /\ \A h \in Updaters \ {g} : updating'[h] = updating[h]
    BY <1>6, <2>1 DEF LocalTypes, StoreJob, JobIsDone, Filling, At
  <2>4. oldBlocks' \in JobType'
    BY <2>1, <2>2 DEF JobType, chainVars
  <2>5. LocalTypes'
    <3>1. JobType' = JobType /\ Templates' = Templates
      BY <2>1 DEF JobType, Templates, chainVars
    <3>2. updating' \in [Updaters -> [step : UpdateSteps, template : Templates \cup {None},
                                      height : Nat, filled : SUBSET Algos]]
      BY <2>1 DEF LocalTypes, UpdateSteps
    <3> QED BY <2>1, <3>1, <3>2 DEF LocalTypes, minerVars
  <2>6. \A h \in Updaters : UpdateInv(updating[h])'
    BY <2>1, <2>3, <2>4 DEF UpdateInv, Templates, JobType, chainVars
  <2>7. FillInv' /\ LastInv'
    BY <2>1, <2>3 DEF FillInv, LastInv, WillFill, Running
  <2>8. TypeOK' /\ Closed'
    BY <2>1, <2>2 DEF TypeOK, Closed, JobType, chainVars, minerVars
  <2> QED BY <2>5, <2>6, <2>7, <2>8
<1>7. CASE SendJob(g)
  <2>1. /\ updating' = [updating EXCEPT ![g].step = "sent"]
        /\ UNCHANGED <<chainVars, shared, ready, solving, failed, crashed>>
        /\ TakeJob(Job(updating[g])) \/ UNCHANGED minerVars
    BY <1>7 DEF SendJob, Go
  <2>2. /\ updating'[g].step = "sent" /\ updating'[g].template = updating[g].template
        /\ updating'[g].filled = updating[g].filled /\ updating[g].step = "stored"
        /\ \A h \in Updaters \ {g} : updating'[h] = updating[h]
    BY <1>7, <2>1 DEF LocalTypes, SendJob, At
  <2>3. Job(updating[g]) \in JobType
    BY <2>2, JobIsJob DEF UpdateInv, LocalTypes
  <2>4. MinerOK'
    BY <2>1, <2>3, TakeKeepsMiner DEF chainVars
  <2>5. LocalTypes'
    <3>1. JobType' = JobType /\ Templates' = Templates
      BY <2>1 DEF JobType, Templates, chainVars
    <3>2. updating' \in [Updaters -> [step : UpdateSteps, template : Templates \cup {None},
                                      height : Nat, filled : SUBSET Algos]]
      BY <2>1 DEF LocalTypes, UpdateSteps
    <3> QED BY <2>1, <2>4, <3>1, <3>2 DEF LocalTypes, MinerOK
  <2>6. \A h \in Updaters : UpdateInv(updating[h])'
    BY <2>1, <2>2 DEF UpdateInv, Templates, JobType, chainVars, shared
  <2>7. FillInv' /\ LastInv'
    BY <2>1, <2>2 DEF FillInv, LastInv, WillFill, Running, shared
  <2>8. TypeOK' /\ Closed'
    <3>1. UNCHANGED <<shared, ready, failed, crashed, known, tip, target>>
      BY <2>1 DEF chainVars
    <3>2. tip' \in known /\ target' \in known \cup {None}
      BY <3>1 DEF TypeOK
    <3> QED BY <2>4, <3>1, <3>2, TypeWithMiner DEF Closed
  <2> QED BY <2>5, <2>6, <2>7, <2>8
<1>8. CASE Updated(g)
  <2>1. /\ updating' = [updating EXCEPT ![g] = NoUpdate] /\ prevHash' = updating[g].template.prev
        /\ UNCHANGED <<chainVars, coinbases, oldBlocks, ready, minerVars, solving, failed, crashed>>
    BY <1>8 DEF Updated
  <2>2. /\ updating'[g] = NoUpdate /\ updating[g].step = "sent" /\ updating[g].filled = Algos
        /\ \A h \in Updaters \ {g} : updating'[h] = updating[h]
    BY <1>8, <2>1 DEF LocalTypes, LastInv, Updated, At
  <2>3. updating[g].template.prev \in known /\ oldBlocks \in JobType
    BY <2>2 DEF UpdateInv, Templates
  <2>4. LocalTypes'
    <3>1. JobType' = JobType /\ Templates' = Templates
      BY <2>1 DEF JobType, Templates, chainVars
    <3>2. updating' \in [Updaters -> [step : UpdateSteps, template : Templates \cup {None},
                                      height : Nat, filled : SUBSET Algos]]
      BY <2>1 DEF LocalTypes, NoUpdate, UpdateSteps
    <3> QED BY <2>1, <3>1, <3>2 DEF LocalTypes, minerVars
  <2>5. \A h \in Updaters : UpdateInv(updating[h])'
    BY <2>1, <2>2 DEF UpdateInv, NoUpdate, Templates, JobType, chainVars
  <2>6. \A h \in Updaters, k \in Algos : WillFill(h, k) => WillFill(h, k)'
    BY <2>2 DEF WillFill, Running
  <2>7. FillInv' /\ LastInv'
    BY <2>1, <2>2, <2>6 DEF FillInv, LastInv, NoUpdate
  <2>8. TypeOK' /\ Closed'
    BY <2>1, <2>3 DEF TypeOK, Closed, JobType, chainVars, minerVars
  <2> QED BY <2>4, <2>5, <2>7, <2>8
<1> QED BY <1>1, <1>2, <1>3, <1>4, <1>5, <1>6, <1>7, <1>8 DEF UpdateAndSendTemplate

(***************************************************************************)
(* An updater that begins throws the coinbases away: it will fill in every *)
(* one of them.                                                            *)
(***************************************************************************)
LEMMA ClearKeepsInv ==
    ASSUME Inv, NEW g \in Updaters, updating[g].step \in {"current", "notified"}, Clear(g),
           UNCHANGED <<chainVars, oldBlocks, prevHash, ready, minerVars, solving, crashed>>
    PROVE  Inv'
<1> USE DEF Inv
<1>1. /\ coinbases' = [i \in Algos |-> None]
      /\ updating' = [updating EXCEPT ![g].step = "cleared"]
      /\ failed' = (failed /\ \E h \in Updaters \ {g} : Running(h))
  BY DEF Clear, Go, NoCoinbases
<1>2. /\ updating'[g].step = "cleared" /\ updating'[g].filled = {}
      /\ \A h \in Updaters \ {g} : updating'[h] = updating[h]
  BY <1>1 DEF LocalTypes, UpdateInv
<1>3. LocalTypes'
  <2>1. JobType' = JobType /\ Templates' = Templates
    BY <1>1 DEF JobType, Templates, chainVars
  <2>2. updating' \in [Updaters -> [step : UpdateSteps, template : Templates \cup {None},
                                    height : Nat, filled : SUBSET Algos]]
    BY <1>1 DEF LocalTypes, UpdateSteps
  <2> QED BY <1>1, <2>1, <2>2 DEF LocalTypes, minerVars
<1>4. \A h \in Updaters : UpdateInv(updating[h])'
  BY <1>2 DEF UpdateInv, Templates, JobType, chainVars
<1>5. \A i \in Algos : WillFill(g, i)'
  BY <1>2 DEF WillFill, Running
<1>6. FillInv' /\ LastInv'
  BY <1>2, <1>5 DEF FillInv, LastInv
<1>7. failed' \in BOOLEAN
  BY <1>1
<1>8. {ready, mining, crashed, failed}' \subseteq BOOLEAN
  BY <1>7 DEF TypeOK, minerVars
<1>9. TypeOK' /\ Closed'
  BY <1>1, <1>8 DEF TypeOK, Closed, JobType, chainVars, minerVars
<1> QED BY <1>3, <1>4, <1>6, <1>9

(***************************************************************************)
(* An updater that moves between its resting places.                       *)
(***************************************************************************)
LEMMA RestKeepsInv ==
    ASSUME Inv, NEW g \in Updaters, NEW s \in {"none", "current", "notified"},
           updating[g].step \in {"none", "current", "notified"}, Go(g, s),
           UNCHANGED <<shared, ready, solving, failed, crashed, known>>,
           tip' \in known, target' \in known \cup {None}, MinerOK'
    PROVE  Inv'
<1> USE DEF Inv
<1>1. updating' = [updating EXCEPT ![g].step = s]
  BY DEF Go
<1>2. /\ updating'[g].step = s /\ updating'[g].filled = {}
      /\ \A h \in Updaters \ {g} : updating'[h] = updating[h]
  BY <1>1 DEF LocalTypes, UpdateInv
<1>3. LocalTypes'
  <2>1. JobType' = JobType /\ Templates' = Templates
    BY <1>1 DEF JobType, Templates
  <2>2. updating' \in [Updaters -> [step : UpdateSteps, template : Templates \cup {None},
                                    height : Nat, filled : SUBSET Algos]]
    BY <1>1 DEF LocalTypes, UpdateSteps
  <2> QED BY <1>1, <2>1, <2>2 DEF LocalTypes, MinerOK
<1>4. \A h \in Updaters : UpdateInv(updating[h])'
  BY <1>2 DEF UpdateInv, Templates, JobType, shared
<1>5. \A h \in Updaters, k \in Algos : WillFill(h, k) => WillFill(h, k)'
  BY <1>2 DEF WillFill, Running
<1>6. FillInv' /\ LastInv'
  BY <1>2, <1>5 DEF FillInv, LastInv, shared
<1>7. TypeOK' /\ Closed'
  BY TypeWithMiner DEF Closed, shared
<1> QED BY <1>3, <1>4, <1>6, <1>7

-----------------------------------------------------------------------------
(***************************************************************************)
(* The chain accepts a block: the jobs are for known blocks as before.     *)
(***************************************************************************)
LEMMA AcceptKeepsInv ==
    ASSUME Inv, NEW p \in known, AcceptBlock(p),
           solving' \in [step : {"none", "checked", "block", "accepted"},
                         job : JobType \cup {None}],
           solving'.step # "none" => solving'.job \in JobType,
           UNCHANGED <<tip, shared, ready, minerVars, updating, failed, crashed>>
    PROVE  Inv'
<1> USE DEF Inv
<1>1. PICK i \in 1..MaxBlocks : /\ known' = known \cup {Append(p, i)}
                                /\ target' \in {Append(p, i), None}
  BY DEF AcceptBlock
<1>2. Append(p, i) \in Seq(Nat) /\ Parent(Append(p, i)) = p
  <2>1. p \in Seq(Nat) /\ i \in Nat
    BY ControllerAssumption DEF TypeOK, ControllerAssumption
  <2> QED BY <2>1, NewParent
<1>3. JobType \subseteq JobType' /\ Templates \subseteq Templates'
  BY <1>1 DEF JobType, Templates
<1>4. Closed'
  BY <1>1, <1>2 DEF Closed
<1>5. {ready, mining, crashed, failed}' \subseteq BOOLEAN
  BY DEF TypeOK, minerVars
<1>6. TypeOK'
  BY <1>1, <1>2, <1>3, <1>5 DEF TypeOK, shared, minerVars
<1>7. updating' \in [Updaters -> [step : UpdateSteps, template : Templates' \cup {None},
                                  height : Nat, filled : SUBSET Algos]]
  BY <1>3 DEF LocalTypes
<1>8. LocalTypes'
  BY <1>3, <1>7 DEF LocalTypes, minerVars
<1>9. \A g \in Updaters : UpdateInv(updating[g])'
  BY <1>3 DEF UpdateInv, shared
<1>10. FillInv' /\ LastInv'
  BY DEF FillInv, LastInv, WillFill, Running, shared
<1> QED BY <1>4, <1>6, <1>8, <1>9, <1>10

(***************************************************************************)
(* Steps that change only the tip, the target, the miner and the handler.  *)
(***************************************************************************)
LEMMA OthersKeepInv ==
    ASSUME Inv, UNCHANGED <<shared, updating, failed, crashed, known>>, ready' \in BOOLEAN,
           tip' \in known, target' \in known \cup {None}, MinerOK',
           solving' \in [step : {"none", "checked", "block", "accepted"},
                         job : JobType \cup {None}],
           solving'.step # "none" => solving'.job \in JobType
    PROVE  Inv'
<1> USE DEF Inv
<1>1. JobType' = JobType /\ Templates' = Templates
  BY DEF JobType, Templates
<1>2. {ready, mining, crashed, failed}' \subseteq BOOLEAN
  BY DEF TypeOK, MinerOK
<1>3. TypeOK'
  BY <1>1, <1>2 DEF TypeOK, MinerOK, shared
<1>4. LocalTypes' /\ Closed'
  BY <1>1 DEF LocalTypes, MinerOK, Closed
<1>5. \A g \in Updaters : UpdateInv(updating[g])'
  BY <1>1 DEF UpdateInv, shared
<1>6. FillInv' /\ LastInv'
  BY DEF FillInv, LastInv, WillFill, Running, shared
<1> QED BY <1>3, <1>4, <1>5, <1>6

(***************************************************************************)
(* The sync manager's goroutine.                                           *)
(***************************************************************************)
LEMMA ChainKeepsInv ==
    ASSUME Inv, (\E p \in known : ForeignBlock(p)) \/ DisconnectBlock \/ ConnectBlock \/ GiveUp
                  \/ Notified
    PROVE  Inv'
<1> USE DEF Inv
<1>1. MinerOK /\ ready \in BOOLEAN /\ tip \in known /\ target \in known \cup {None}
  BY DEF TypeOK, LocalTypes, MinerOK
<1>2. ASSUME UNCHANGED <<known, minerVars>> PROVE MinerOK'
  BY <1>1, <1>2 DEF MinerOK, JobType, minerVars
<1>3. ASSUME NEW p \in known, ForeignBlock(p) PROVE Inv'
  BY <1>3, AcceptKeepsInv DEF ForeignBlock, LocalTypes
<1>4. CASE DisconnectBlock
  <2>1. target \in Seq(Nat)
    BY <1>1, <1>4 DEF DisconnectBlock, TypeOK
  <2>2. tip # Genesis
    BY <1>4, <2>1, GenesisOnBranch DEF DisconnectBlock
  <2>3. tip' \in known
    BY <1>1, <1>4, <2>2 DEF DisconnectBlock, Closed
  <2>4. MinerOK'
    BY <1>2, <1>4 DEF DisconnectBlock
  <2> QED BY <1>1, <1>4, <2>3, <2>4, OthersKeepInv DEF DisconnectBlock, LocalTypes
<1>5. CASE ConnectBlock
  <2>1. tip' \in known /\ target' \in known \cup {None}
    BY <1>1, <1>5 DEF ConnectBlock
  <2>2. MinerOK'
    BY <1>2, <1>5 DEF ConnectBlock
  <2>3. updating["notifier"].step = "none" /\ Go("notifier", "notified") /\ "notifier" \in Updaters
    BY <1>5 DEF ConnectBlock, At, Updaters
  <2>4. UNCHANGED <<shared, ready, solving, failed, crashed, known>>
    BY <1>5 DEF ConnectBlock
  <2> QED BY <2>1, <2>2, <2>3, <2>4, RestKeepsInv
<1>6. CASE GiveUp
  <2>1. MinerOK'
    BY <1>2, <1>6 DEF GiveUp
  <2> QED BY <1>1, <1>6, <2>1, OthersKeepInv DEF GiveUp, LocalTypes
<1>7. CASE Notified
  <2>1. updating["notifier"].step = "notified" /\ "notifier" \in Updaters
    BY <1>7 DEF Notified, At, Updaters
  <2>2. UNCHANGED <<chainVars, oldBlocks, prevHash, ready, minerVars, solving, crashed>>
    BY <1>7 DEF Notified
  <2>3. CASE Clear("notifier")
    BY <2>1, <2>2, <2>3, ClearKeepsInv
  <2>4. CASE Go("notifier", "none") /\ UNCHANGED <<coinbases, failed>>
    <3>1. MinerOK' /\ tip' \in known /\ target' \in known \cup {None}
      BY <1>1, <1>2, <2>2 DEF chainVars
    <3>2. UNCHANGED <<shared, ready, solving, failed, crashed, known>>
      BY <2>2, <2>4 DEF shared, chainVars
    <3> QED BY <2>1, <2>4, <3>1, <3>2, RestKeepsInv
  <2> QED BY <1>7, <2>3, <2>4 DEF Notified
<1> QED BY <1>3, <1>4, <1>5, <1>6, <1>7

(***************************************************************************)
(* The rebroadcaster between two updates.                                  *)
(***************************************************************************)
LEMMA RebroadcasterKeepsInv ==
    ASSUME Inv,
           \/ Tick \/ NewTemplate(prevHash # tip) \/ NewTemplate(TemplateIsOld)
           \/ \E arrives \in BOOLEAN : Rebroadcast(arrives)
    PROVE  Inv'
<1> USE DEF Inv
<1>1. "rebroadcaster" \in Updaters
  BY DEF Updaters
<1>2. tip \in known /\ target \in known \cup {None} /\ MinerOK
  BY DEF TypeOK, LocalTypes, MinerOK
<1>3. CASE Tick
  <2>1. /\ updating["rebroadcaster"].step = "none" /\ Go("rebroadcaster", "current")
        /\ UNCHANGED <<chainVars, shared, ready, minerVars, solving, failed, crashed>>
    BY <1>3 DEF Tick, At
  <2>2. UNCHANGED <<shared, ready, solving, failed, crashed, known, tip, target, work, mining>>
    BY <2>1 DEF chainVars, minerVars
  <2>3. MinerOK'
    BY <1>2, <2>2 DEF MinerOK, JobType
  <2> QED BY <1>1, <1>2, <2>1, <2>2, <2>3, RestKeepsInv
<1>4. ASSUME NEW stale, NewTemplate(stale) PROVE Inv'
  BY <1>1, <1>4, ClearKeepsInv DEF NewTemplate, At
<1>5. ASSUME NEW arrives \in BOOLEAN, Rebroadcast(arrives) PROVE Inv'
  <2>1. /\ updating["rebroadcaster"].step = "current" /\ Go("rebroadcaster", "none")
        /\ TakeJob(oldBlocks) \/ UNCHANGED minerVars
        /\ UNCHANGED <<chainVars, shared, ready, solving, failed, crashed>>
        /\ prevHash # None
    BY <1>5 DEF Rebroadcast, At
  <2>2. UNCHANGED <<shared, ready, solving, failed, crashed, known, tip, target>>
    BY <2>1 DEF chainVars
  <2>3. oldBlocks \in JobType
    BY <2>1 DEF TypeOK
  <2>4. MinerOK'
    BY <2>1, <2>2, <2>3, TakeKeepsMiner
  <2> QED BY <1>1, <1>2, <2>1, <2>2, <2>4, RestKeepsInv
<1> QED BY <1>3, <1>4, <1>5

(***************************************************************************)
(* The solution handler, and the steps of the environment.                 *)
(***************************************************************************)
LEMMA HandlerKeepsInv ==
    ASSUME Inv, Handler \/ LoseSolution \/ BecomeReady
    PROVE  Inv'
<1> USE DEF Inv
<1>1. /\ tip \in known /\ target \in known \cup {None} /\ MinerOK /\ ready \in BOOLEAN
      /\ solving \in [step : {"none", "checked", "block", "accepted"}, job : JobType \cup {None}]
      /\ solving.step # "none" => solving.job \in JobType
  BY DEF TypeOK, LocalTypes, MinerOK
<1>2. ASSUME UNCHANGED <<known, minerVars>> PROVE MinerOK'
  BY <1>1, <1>2 DEF MinerOK, JobType, minerVars
<1>3. ASSUME UNCHANGED <<known, work>>, mining' = FALSE PROVE MinerOK'
  BY <1>1, <1>3 DEF MinerOK, JobType
<1>4. CASE HandleSolution
  <2>1. /\ solving' = Listening \/ solving' = [Listening EXCEPT !.step = "checked", !.job = work]
        /\ mining /\ mining' = FALSE
        /\ UNCHANGED <<chainVars, shared, ready, work, updating, failed, crashed>>
    BY <1>4 DEF HandleSolution
  <2>2. work \in JobType
    BY <1>1, <2>1 DEF MinerOK
  <2> PICK j : j = work
    OBVIOUS
  <2>3. /\ solving' \in [step : {"none", "checked", "block", "accepted"}, job : JobType \cup {None}]
        /\ solving'.step # "none" => solving'.job \in JobType
    <3>1. \/ solving' = [step |-> "none", job |-> None]
          \/ solving' = [step |-> "checked", job |-> j]
      BY <2>1 DEF Listening
    <3> HIDE DEF Inv
    <3> QED BY <2>2, <3>1
  <2>4. UNCHANGED <<known, tip, target>>
    BY <2>1 DEF chainVars
  <2>5. MinerOK'
    BY <1>3, <2>1, <2>4
  <2> QED BY <1>1, <2>1, <2>3, <2>4, <2>5, OthersKeepInv
<1>5. CASE FindCoinbase
  <2>1. /\ solving' = Listening \/ solving' = [solving EXCEPT !.step = "block"]
        /\ solving.step = "checked"
        /\ UNCHANGED <<chainVars, shared, ready, minerVars, updating, failed, crashed>>
    BY <1>5 DEF FindCoinbase
  <2>2. /\ solving' \in [step : {"none", "checked", "block", "accepted"}, job : JobType \cup {None}]
        /\ solving'.step # "none" => solving'.job \in JobType
    BY <1>1, <2>1 DEF Listening
  <2>3. UNCHANGED <<known, tip, target>>
    BY <2>1 DEF chainVars
  <2>4. MinerOK'
    BY <1>2, <2>1, <2>3
  <2> QED BY <1>1, <2>1, <2>2, <2>3, <2>4, OthersKeepInv
<1>6. CASE ReadDuringWrite
  BY <1>6, CrashInv DEF ReadDuringWrite
<1>7. CASE ProcessBlock
  <2>1. /\ solving.step = "block" /\ solving.job \in JobType
        /\ UNCHANGED <<tip, shared, ready, minerVars, updating, failed, crashed>>
    BY <1>1, <1>7 DEF ProcessBlock
  <2>2. CASE AcceptBlock(solving.job.prev) /\ solving' = [solving EXCEPT !.step = "accepted"]
    <3>1. solving.job.prev \in known
      BY <2>1 DEF JobType
    <3>2. /\ solving' \in [step : {"none", "checked", "block", "accepted"},
                           job : JobType \cup {None}]
          /\ solving'.step # "none" => solving'.job \in JobType
      BY <1>1, <2>1, <2>2
    <3> QED BY <2>1, <2>2, <3>1, <3>2, AcceptKeepsInv
  <2>3. CASE solving' = Listening /\ UNCHANGED <<known, target>>
    <3>1. /\ solving' \in [step : {"none", "checked", "block", "accepted"},
                           job : JobType \cup {None}]
          /\ solving'.step # "none" => solving'.job \in JobType
      BY <2>3 DEF Listening
    <3>2. MinerOK'
      BY <1>2, <2>1, <2>3
    <3> QED BY <1>1, <2>1, <2>3, <3>1, <3>2, OthersKeepInv
  <2> QED BY <1>7, <2>2, <2>3 DEF ProcessBlock
<1>8. CASE Accepted
  <2>1. solving' = Listening
        /\ UNCHANGED <<chainVars, shared, ready, minerVars, updating, failed, crashed>>
    BY <1>8 DEF Accepted
  <2>2. /\ solving' \in [step : {"none", "checked", "block", "accepted"}, job : JobType \cup {None}]
        /\ solving'.step # "none" => solving'.job \in JobType
    BY <2>1 DEF Listening
  <2>3. UNCHANGED <<known, tip, target>>
    BY <2>1 DEF chainVars
  <2>4. MinerOK'
    BY <1>2, <2>1, <2>3
  <2> QED BY <1>1, <2>1, <2>2, <2>3, <2>4, OthersKeepInv
<1>9. CASE LoseSolution
  <2>1. /\ mining' = FALSE
        /\ UNCHANGED <<chainVars, shared, ready, work, updating, solving, failed, crashed>>
    BY <1>9 DEF LoseSolution
  <2>2. UNCHANGED <<known, tip, target>>
    BY <2>1 DEF chainVars
  <2>3. MinerOK'
    BY <1>3, <2>1, <2>2
  <2> QED BY <1>1, <2>1, <2>2, <2>3, OthersKeepInv
<1>10. CASE BecomeReady
  <2>1. ready' = TRUE /\ UNCHANGED <<chainVars, shared, minerVars, updating, solving, failed, crashed>>
    BY <1>10 DEF BecomeReady
  <2>2. UNCHANGED <<known, tip, target>>
    BY <2>1 DEF chainVars
  <2>3. MinerOK'
    BY <1>2, <2>1, <2>2
  <2> QED BY <1>1, <2>1, <2>2, <2>3, OthersKeepInv
<1> QED BY <1>4, <1>5, <1>6, <1>7, <1>8, <1>9, <1>10 DEF Handler

(***************************************************************************)
(* Every step preserves the invariant.                                     *)
(***************************************************************************)
LEMMA NextInv == Inv /\ [Next]_vars => Inv'
<1> SUFFICES ASSUME Inv, [Next]_vars PROVE Inv'
  OBVIOUS
<1>1. ASSUME NEW g \in Updaters, UpdateAndSendTemplate(g) PROVE Inv'
  BY <1>1, UpdateKeepsInv
<1>2. CASE ConcurrentWrites \/ NoPrevHash
  BY <1>2, CrashInv DEF ConcurrentWrites, NoPrevHash
<1>3. CASE UNCHANGED vars
  <2>1. UNCHANGED <<known, tip, target, coinbases, oldBlocks, prevHash, ready, work, mining,
                    updating, solving, failed, crashed>>
    BY <1>3 DEF vars, chainVars, shared, minerVars
  <2>2. JobType' = JobType /\ Templates' = Templates
    BY <2>1 DEF JobType, Templates
  <2>3. TypeOK' /\ LocalTypes' /\ Closed'
    BY <2>1, <2>2 DEF Inv, TypeOK, LocalTypes, Closed
  <2>4. (\A g \in Updaters : UpdateInv(updating[g])') /\ FillInv' /\ LastInv'
    BY <2>1, <2>2 DEF Inv, UpdateInv, FillInv, LastInv, WillFill, Running
  <2> QED BY <2>3, <2>4 DEF Inv
<1> QED BY <1>1, <1>2, <1>3, ChainKeepsInv, RebroadcasterKeepsInv, HandlerKeepsInv DEF Next

LEMMA AlwaysInv == Spec => []Inv
<1>1. Spec => Init /\ [][Next]_vars
  BY DEF Spec
<1> QED BY <1>1, InitInv, NextInv, PTL

-----------------------------------------------------------------------------
(***************************************************************************)
(* The type invariant of KopachController: however the chain is            *)
(* reorganized, every job and every solution the handler submits is for a  *)
(* block the node knows.                                                   *)
(***************************************************************************)
THEOREM ControllerTypeCorrect == Spec => []TypeOK
<1>1. Inv => TypeOK
  BY DEF Inv
<1> QED BY <1>1, AlwaysInv, PTL

(***************************************************************************)
(* However the rebroadcaster and the notifier replace and fill the map of  *)
(* coinbases under each other's hands, between updates none is missing     *)
(* unless a template failed.                                               *)
(***************************************************************************)
THEOREM CoinbasesAreComplete == Spec => []CoinbasesComplete
<1>1. Inv => CoinbasesComplete
  BY DEF Inv, FillInv, WillFill, CoinbasesComplete
<1> QED BY <1>1, AlwaysInv, PTL
=============================================================================
