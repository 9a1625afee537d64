--------------------------- MODULE KopachController ---------------------------
(***************************************************************************)
(* The controller of the kopach miners inside a node                       *)
(* (cmd/kopach/control/controller.go): it multicasts jobs for blocks on    *)
(* the tip of the node's chain, and turns the solutions of the miners into *)
(* blocks.                                                                 *)
(*                                                                         *)
(* Three goroutines share its fields without a lock: the rebroadcaster,    *)
(* once a second; the notifier, which the chain calls from the sync        *)
(* manager's goroutine when a block has been connected; and the listener   *)
(* with the solution handler.  The first two both run                      *)
(* UpdateAndSendTemplate.  A miner at the other end of the network is      *)
(* reduced to what KopachMiner shows of it: it takes a job whose merkle    *)
(* root is new, and stops when it has solved it.  Jobs and solutions       *)
(* arrive or are lost; one that is late is one that is sent late.          *)
(*                                                                         *)
(* A block is the path from the genesis block to it: the sequence of the   *)
(* numbers that tell the children of one parent apart.  The tip moves in   *)
(* reorganizations too, to a branch that need not be longer (BlockChain    *)
(* says when), and is below both branches in between.                      *)
(***************************************************************************)
EXTENDS Naturals, Sequences, FiniteSets

CONSTANTS
    Addrs,             \* the configured mining addresses
    Algos,             \* the versions of the proof of work
    None,              \* nil: no template, no job, no coinbase
    MaxBlocks,         \* bound: blocks on top of the genesis block
    PoolTxs            \* the memory pool may hold transactions

ASSUME ControllerAssumption ==
    /\ Addrs # {} /\ Algos # {}
    /\ MaxBlocks \in Nat
    /\ PoolTxs \in BOOLEAN
    /\ None \notin Nat \X Addrs \X Nat

VARIABLES
    known, tip,        \* the block index, and BestSnapshot
    target,            \* the block the chain is being reorganized to
    ready,             \* Ready: cx.IsCurrent() has been true
    updating,          \* updating[g]: where g is in UpdateAndSendTemplate
    coinbases,         \* by version, those of the last job
    oldBlocks,         \* the job that is rebroadcast
    prevHash,
    solving,           \* the solution handler: where it is, and with what
    work, mining,      \* the miner: its last job, and whether it is mining it
    failed,            \* an update came to nothing since the updaters last were at rest
    crashed

chainVars == <<known, tip, target>>
shared == <<coinbases, oldBlocks, prevHash>>
minerVars == <<work, mining>>
vars == <<chainVars, shared, ready, minerVars, updating, solving, failed, crashed>>

-----------------------------------------------------------------------------
Genesis == << >>

Parent(b) == SubSeq(b, 1, Len(b) - 1)

OnBranch(b, c) == Len(b) <= Len(c) /\ SubSeq(c, 1, Len(b)) = b

(***************************************************************************)
(* NewBlockTemplate for the tip, which it still is when the template has   *)
(* been checked, and the job job.Get makes of it: its coinbase holds the   *)
(* height of the template, the address, and the value for the height of    *)
(* the tip at the time of job.Get, and nothing of the parent.  The extra   *)
(* nonce is always 0, so equal inputs give equal merkle roots; those of    *)
(* different versions are told apart by the version.  The targets, one for *)
(* each version, are left to ProcessBlock, which may refuse any block.     *)
(***************************************************************************)
Template(a) == [prev |-> tip, addr |-> a]

Merkle(u) == <<Len(u.template.prev), u.template.addr, u.height>>

Job(u) == [prev |-> u.template.prev, merkle |-> Merkle(u)]

NoCoinbases == [i \in Algos |-> None]

Listening == [step |-> "none", job |-> None]

NoUpdate == [step |-> "none", template |-> None, height |-> 0, filled |-> {}]

Updaters == {"rebroadcaster", "notifier"}

(***************************************************************************)
(* Run: the first template is sent before the goroutines start, and the    *)
(* job may arrive.  If there is none, prevHash and oldBlocks are not set.  *)
(***************************************************************************)
FirstTemplate(a) ==
    /\ prevHash = Genesis
    /\ oldBlocks = [prev |-> Genesis, merkle |-> <<0, a, 0>>]
    /\ coinbases = [i \in Algos |-> oldBlocks.merkle]
    /\ failed = FALSE

NoFirstTemplate ==
    /\ prevHash = None /\ oldBlocks = None /\ coinbases = NoCoinbases
    /\ failed = TRUE

Init ==
    /\ known = {Genesis} /\ tip = Genesis /\ target = None /\ ready = FALSE
    /\ NoFirstTemplate \/ \E a \in Addrs : FirstTemplate(a)
    /\ updating = [g \in Updaters |-> NoUpdate] /\ solving = Listening
    /\ work \in {None, oldBlocks} /\ mining = (work # None) /\ crashed = FALSE

-----------------------------------------------------------------------------
(***************************************************************************)
(* UpdateAndSendTemplate, run by g: the coinbases are thrown away, a       *)
(* template is generated, job.Get fills in the new coinbases one by one,   *)
(* the job is stored and sent, and the block it is for is noted.  The      *)
(* coinbases go into the map that is the controller's at that moment, also *)
(* if the other updater has replaced it; two goroutines that write it at   *)
(* the same time are a fatal error of the runtime, if it notices.  Without *)
(* a template there are no coinbases.  job.Get copies the transactions of  *)
(* the template into an empty slice, and panics if there are any.          *)
(*                                                                         *)
(* After a crash nothing is left of the controller.  The faults store the  *)
(* template for the job, and throw the coinbases away again.               *)
(***************************************************************************)
At(g, s) == updating[g].step = s /\ ~crashed

Go(g, s) == updating' = [updating EXCEPT ![g].step = s]

Running(g) == updating[g].step \notin {"none", "current", "notified"}

Crash ==
    /\ crashed' = TRUE /\ ready' = FALSE /\ failed' = TRUE /\ target' = None
    /\ prevHash' = None /\ oldBlocks' = None /\ coinbases' = NoCoinbases
    /\ updating' = [g \in Updaters |-> NoUpdate] /\ solving' = Listening
    /\ UNCHANGED <<known, tip, minerVars>>

Clear(g) ==
    /\ coinbases' = NoCoinbases
    /\ failed' = (failed /\ \E h \in Updaters \ {g} : Running(h))
    /\ Go(g, "cleared")

GetTemplate(g) ==
    /\ At(g, "cleared")
    /\ \E a \in Addrs :
          updating' = [updating EXCEPT ![g] = [@ EXCEPT !.step = "template",
                                                        !.template = Template(a)]]
    /\ UNCHANGED <<chainVars, shared, ready, minerVars, solving, failed, crashed>>

NoTemplate(g) ==
    /\ At(g, "cleared")
    /\ updating' = [updating EXCEPT ![g] = NoUpdate]
    /\ failed' = TRUE
    /\ UNCHANGED <<chainVars, shared, ready, minerVars, solving, crashed>>

GetHeight(g) ==
    /\ At(g, "template")
    /\ updating' = [updating EXCEPT ![g] = [@ EXCEPT !.step = "job", !.height = Len(tip)]]
    /\ UNCHANGED <<chainVars, shared, ready, minerVars, solving, failed, crashed>>

HasTransactions(g) == At(g, "cleared") /\ PoolTxs /\ Crash

Filling(g) == updating[g].step = "job" /\ updating[g].filled # Algos

FillCoinbase(g, i) ==
    /\ At(g, "job") /\ i \in Algos \ updating[g].filled
    /\ coinbases' = [coinbases EXCEPT ![i] = Merkle(updating[g])]
    /\ updating' = [updating EXCEPT ![g].filled = @ \cup {i}]
    /\ UNCHANGED <<chainVars, oldBlocks, prevHash, ready, minerVars, solving, failed, crashed>>

ConcurrentWrites == ~crashed /\ (\A g \in Updaters : Filling(g)) /\ Crash

JobIsDone(g) == At(g, "job") /\ ~Filling(g)

StoreTemplate(g) ==
    /\ JobIsDone(g)
    /\ oldBlocks' = updating[g].template
    /\ Go(g, "stored")
    /\ UNCHANGED <<chainVars, coinbases, prevHash, ready, minerVars, solving, failed, crashed>>

StoreAndClear(g) ==
    /\ JobIsDone(g)
    /\ oldBlocks' = Job(updating[g]) /\ coinbases' = NoCoinbases
    /\ Go(g, "stored")
    /\ UNCHANGED <<chainVars, prevHash, ready, minerVars, solving, failed, crashed>>

StoreJob(g) ==
    /\ JobIsDone(g)
    /\ oldBlocks' = Job(updating[g])
    /\ Go(g, "stored")
    /\ UNCHANGED <<chainVars, coinbases, prevHash, ready, minerVars, solving, failed, crashed>>

TakeJob(j) ==
    IF work # None /\ work.merkle = j.merkle
    THEN UNCHANGED minerVars
    ELSE work' = j /\ mining' = TRUE

SendJob(g) ==
    /\ At(g, "stored")
    /\ TakeJob(Job(updating[g])) \/ UNCHANGED minerVars
    /\ Go(g, "sent")
    /\ UNCHANGED <<chainVars, shared, ready, solving, failed, crashed>>

Updated(g) ==
    /\ At(g, "sent")
    /\ prevHash' = updating[g].template.prev
    /\ updating' = [updating EXCEPT ![g] = NoUpdate]
    /\ UNCHANGED <<chainVars, coinbases, oldBlocks, ready, minerVars, solving, failed, crashed>>

UpdateAndSendTemplate(g) ==
    \/ GetTemplate(g) \/ NoTemplate(g) \/ GetHeight(g) \/ HasTransactions(g)
    \/ \E i \in Algos : FillCoinbase(g, i)
    \/ StoreJob(g) \/ SendJob(g) \/ Updated(g)

-----------------------------------------------------------------------------
(***************************************************************************)
(* The sync manager's goroutine: a chain call accepts a block, and         *)
(* disconnects and connects blocks until it is the tip, or leaves it on    *)
(* the side.  The goroutine takes nothing else before it is done.          *)
(***************************************************************************)
Idle == target = None /\ At("notifier", "none")

AcceptBlock(p) ==
    /\ Idle /\ Cardinality(known) <= MaxBlocks
    /\ \E i \in 1..MaxBlocks :
          LET b == Append(p, i)
          IN  /\ b \notin known /\ \A k \in 1 .. i - 1 : Append(p, k) \in known
              /\ known' = known \cup {b}
              /\ target' \in (IF p = tip THEN {b} ELSE {b, None})

ForeignBlock(p) ==
    /\ AcceptBlock(p)
    /\ UNCHANGED <<tip, shared, ready, minerVars, updating, solving, failed, crashed>>

DisconnectBlock ==
    /\ target # None /\ At("notifier", "none") /\ ~OnBranch(tip, target)
    /\ tip' = Parent(tip)
    /\ UNCHANGED <<known, target, shared, ready, minerVars, updating, solving, failed, crashed>>

ConnectBlock ==
    /\ target # None /\ At("notifier", "none") /\ OnBranch(tip, target)
    /\ tip' \in {b \in known : b # Genesis /\ Parent(b) = tip /\ OnBranch(b, target)}
    /\ target' = IF tip' = target THEN None ELSE target
    /\ Go("notifier", "notified")
    /\ UNCHANGED <<known, shared, ready, minerVars, solving, failed, crashed>>

GiveUp ==
    /\ target # None /\ At("notifier", "none")
    /\ target' = None
    /\ UNCHANGED <<known, tip, shared, ready, minerVars, updating, solving, failed, crashed>>

Notified ==
    /\ At("notifier", "notified")
    /\ \/ ready /\ Clear("notifier")
       \/ ~ready /\ Go("notifier", "none") /\ UNCHANGED <<coinbases, failed>>
    /\ UNCHANGED <<chainVars, oldBlocks, prevHash, ready, minerVars, solving, crashed>>

(***************************************************************************)
(* The rebroadcaster's tick.  IsCurrent asks the sync manager's goroutine, *)
(* which answers when it is idle.  Then there is a new template if the tip *)
(* has changed or the template is older than a minute, else the old job    *)
(* again.  Time is not modelled: a minute may have passed at any tick.     *)
(* (The test whether the memory pool has changed since compares an int64   *)
(* with a time.Time and is always true.)  A prevHash that was never set    *)
(* fails the type assertion and panics.  The fault is a time of the last   *)
(* template that each tick renews.                                         *)
(***************************************************************************)
NeverOld == FALSE

TemplateIsOld == prevHash = tip

Tick ==
    /\ At("rebroadcaster", "none") /\ Idle
    /\ Go("rebroadcaster", "current")
    /\ UNCHANGED <<chainVars, shared, ready, minerVars, solving, failed, crashed>>

NoPrevHash == At("rebroadcaster", "current") /\ prevHash = None /\ Crash

NewTemplate(stale) ==
    /\ At("rebroadcaster", "current") /\ prevHash # None /\ stale
    /\ Clear("rebroadcaster")
    /\ UNCHANGED <<chainVars, oldBlocks, prevHash, ready, minerVars, solving, crashed>>

Rebroadcast(arrives) ==
    /\ At("rebroadcaster", "current") /\ prevHash # None /\ prevHash = tip
    /\ IF arrives THEN TakeJob(oldBlocks) ELSE UNCHANGED minerVars
    /\ Go("rebroadcaster", "none")
    /\ UNCHANGED <<chainVars, shared, ready, solving, failed, crashed>>

-----------------------------------------------------------------------------
(***************************************************************************)
(* The solution handler: a solution that is not for the tip, or for which  *)
(* there is no coinbase, is dropped; else it makes a block of it and calls *)
(* ProcessBlock.  (The pause it sends first has no shards, as              *)
(* c.pauseShards is never set, so nothing goes out.)  Reading the map of   *)
(* coinbases while it is written is a fatal error too.  The version is any *)
(* one.  A block whose coinbase does not give the merkle root of its       *)
(* header is refused by ProcessBlock (IsValid), and is dropped here.       *)
(***************************************************************************)
HandleSolution ==
    /\ mining /\ solving = Listening /\ ~crashed
    /\ mining' = FALSE
    /\ solving' = IF work.prev = tip THEN [Listening EXCEPT !.step = "checked", !.job = work]
                  ELSE Listening
    /\ UNCHANGED <<chainVars, shared, ready, work, updating, failed, crashed>>

IsValid(j, coinbase) == coinbase # None /\ j.merkle = coinbase

FindCoinbase ==
    /\ solving.step = "checked" /\ ~crashed
    /\ \E i \in Algos :
          solving' = IF IsValid(solving.job, coinbases[i])
                     THEN [solving EXCEPT !.step = "block"] ELSE Listening
    /\ UNCHANGED <<chainVars, shared, ready, minerVars, updating, failed, crashed>>

ReadDuringWrite ==
    /\ solving.step = "checked" /\ ~crashed /\ \E g \in Updaters : Filling(g)
    /\ Crash

(***************************************************************************)
(* ProcessBlock: the block is accepted, which need not make it the tip if  *)
(* the tip has changed since it was checked, or refused.  The call returns *)
(* when the chain is done with it.                                         *)
(***************************************************************************)
ProcessBlock ==
    /\ solving.step = "block" /\ Idle
    /\ \/ /\ AcceptBlock(solving.job.prev)
          /\ solving' = [solving EXCEPT !.step = "accepted"]
       \/ solving' = Listening /\ UNCHANGED <<known, target>>
    /\ UNCHANGED <<tip, shared, ready, minerVars, updating, failed, crashed>>

Accepted ==
    /\ solving.step = "accepted" /\ Idle
    /\ solving' = Listening
    /\ UNCHANGED <<chainVars, shared, ready, minerVars, updating, failed, crashed>>

Handler ==
    HandleSolution \/ FindCoinbase \/ ReadDuringWrite \/ ProcessBlock \/ Accepted

(***************************************************************************)
(* A solution gets lost, and every ten seconds Run looks whether the node  *)
(* is current.                                                             *)
(***************************************************************************)
LoseSolution ==
    /\ mining /\ ~crashed
    /\ mining' = FALSE
    /\ UNCHANGED <<chainVars, shared, ready, work, updating, solving, failed, crashed>>

BecomeReady ==
    /\ ~ready /\ Idle
    /\ ready' = TRUE
    /\ UNCHANGED <<chainVars, shared, minerVars, updating, solving, failed, crashed>>

Next ==
    \/ \E g \in Updaters : UpdateAndSendTemplate(g)
    \/ ConcurrentWrites \/ NoPrevHash
    \/ Tick \/ NewTemplate(prevHash # tip) \/ NewTemplate(TemplateIsOld) \/ Notified
    \/ \E arrives \in BOOLEAN : Rebroadcast(arrives)
    \/ \E p \in known : ForeignBlock(p)
    \/ DisconnectBlock \/ ConnectBlock \/ GiveUp
    \/ Handler \/ LoseSolution \/ BecomeReady

(***************************************************************************)
(* The goroutines run, a miner that mines finds a solution, and the node   *)
(* is current again and again.  If the rebroadcaster ticks for ever, a     *)
(* minute passes, a job that is sent again and again arrives, and a        *)
(* template that is asked for again and again is made.                     *)
(***************************************************************************)
Fairness ==
    /\ WF_vars(\/ UpdateAndSendTemplate("rebroadcaster") \/ NoPrevHash \/ Tick
               \/ NewTemplate(prevHash # tip) \/ \E arrives \in BOOLEAN : Rebroadcast(arrives))
    /\ SF_vars(NewTemplate(TemplateIsOld)) /\ SF_vars(Rebroadcast(TRUE))
    /\ SF_vars(GetTemplate("rebroadcaster"))
    /\ WF_vars(UpdateAndSendTemplate("notifier") \/ Notified \/ DisconnectBlock \/ ConnectBlock)
    /\ WF_vars(Handler) /\ WF_vars(BecomeReady)

Spec == Init /\ [][Next]_vars /\ Fairness

-----------------------------------------------------------------------------
(***************************************************************************)
(* Type correctness.  Every job and every solution is for a block the node *)
(* knows, though not always on its chain, so that ProcessBlock never gets  *)
(* an orphan, whose height the handler could not look up; and once there   *)
(* is a prevHash there is a job to rebroadcast.                            *)
(***************************************************************************)
Merkles == Nat \X Addrs \X Nat

JobType == [prev : known, merkle : Merkles]

TypeOK ==
    /\ known \subseteq Seq(Nat) /\ tip \in known
    /\ target \in known \cup {None} /\ prevHash \in known \cup {None}
    /\ {ready, mining, crashed, failed} \subseteq BOOLEAN
    /\ coinbases \in [Algos -> Merkles \cup {None}]
    /\ oldBlocks \in JobType \cup (IF prevHash = None THEN {None} ELSE {})
    /\ work \in JobType \cup {None}

(***************************************************************************)
(* When no update is in progress there is a coinbase for every version, so *)
(* no solution is dropped for want of one, however the two updaters have   *)
(* replaced the map under each other's hands: what one has thrown away     *)
(* after the other had filled it in, it fills in itself.  Excepted is the  *)
(* time after an update without a template, until the next one.            *)
(***************************************************************************)
CoinbasesComplete ==
    (\A g \in Updaters : ~Running(g)) /\ ~failed => \A i \in Algos : coinbases[i] # None

(***************************************************************************)
(* When the chain stops changing, as it does at the bound, the miner ends  *)
(* up with a job for the height of the tip, and the controller again and   *)
(* again with the coinbases of that job: no interleaving of the            *)
(* rebroadcaster and the notifier, no reorganization, failed template or   *)
(* lost message leaves it with a job of another height for good.  The      *)
(* height is all that can be said: the job after a reorganization to a     *)
(* block of the same height has the merkle root of the job before it, and  *)
(* the worker takes it for the same (implementation.go 283).  A node that  *)
(* has crashed is excepted.                                                *)
(***************************************************************************)
JobsConverge ==
    []~crashed =>
        /\ <>[](work # None /\ Len(work.prev) = Len(tip))
        /\ []<>(work # None /\ \A i \in Algos : coinbases[i] = work.merkle)
=============================================================================
