----------------------------- MODULE KopachMiner -----------------------------
(***************************************************************************)
(* The kopach miner (cmd/kopach/main.go) and its workers                   *)
(* (cmd/kopach/worker/implementation.go).                                  *)
(*                                                                         *)
(* The miner listens to the jobs and pauses that controllers multicast,    *)
(* and passes them on to its worker processes, one after the other, with   *)
(* blocking calls.  Two of its goroutines make such calls: the listener,   *)
(* which runs the message handlers, and the watcher, which pauses the      *)
(* workers when no job has come for three seconds.  In a worker every call *)
(* runs in a goroutine of its own, beside the mining loop, and tells it    *)
(* what to do over two unbuffered channels, stopChan and startChan.        *)
(***************************************************************************)
EXTENDS Naturals, FiniteSets

CONSTANTS
    Threads,           \* number of workers
    Controllers,       \* nodes that may send jobs
    Jobs,              \* records with the fields sender, prev and merkle
    Incomplete,        \* jobs without a difficulty or a merkle root for some algorithm
    None,              \* nil: no job, no merkle root, no controller
    MaxSolutions,      \* bound: solutions the workers find
    MaxSilences,       \* bound: times that all jobs are lost for three seconds
    MaxCrashes         \* bound: controllers that stop

ASSUME MinerAssumption ==
    /\ Threads \in Nat \ {0}
    /\ None \notin Jobs /\ None \notin Controllers /\ Incomplete \subseteq Jobs
    /\ \A j \in Jobs : j.sender \in Controllers /\ j.merkle # None
    /\ {MaxSolutions, MaxSilences, MaxCrashes} \subseteq Nat

Workers == 1..Threads

VARIABLES
    up,                \* controllers that are running
    firstSender,       \* FirstSender
    silent,            \* no job for more than three seconds: lastSent is old
    listener,          \* the handler the listener is in
    watcher,           \* what the watcher is doing
    solutions,         \* senders of the solved jobs, on their way over the network
    found, silences,   \* solutions found and silences so far
    dropped,           \* history: FirstSender was emptied while workers may be mining
    loop,              \* loop[w]: where the mining loop of w is
    bitses, hashes,    \* the job whose targets and merkle roots w has
    lastMerkle,
    block,             \* the job of w's block and senderPort
    msgBlock,          \* the job of the header that w's hashes start from
    header             \* the jobs that the header being hashed was made of

minerVars == <<firstSender, silent, solutions, found, silences, dropped, up>>
workVars == <<bitses, hashes, lastMerkle, block, msgBlock, header>>
vars == <<minerVars, workVars, listener, watcher, loop>>

-----------------------------------------------------------------------------
(***************************************************************************)
(* A caller is idle, or inside the call op to worker `at', at a step of    *)
(* it.  After the last worker it is idle again; the fault calls one more. *)
(***************************************************************************)
Idle == [op |-> "none", job |-> None, at |-> 0, step |-> "none"]

Call(op, j, w, s) == [op |-> op, job |-> j, at |-> w, step |-> s]

FirstStep(op) == IF op = "NewJob" THEN "bitses" ELSE "stop"

Calling(op, j) == Call(op, j, 1, FirstStep(op))

ReturnedPastEnd(c) ==
    IF c.at > Threads THEN Idle ELSE Call(c.op, c.job, c.at + 1, FirstStep(c.op))
Returned(c) ==
    IF c.at = Threads THEN Idle ELSE Call(c.op, c.job, c.at + 1, FirstStep(c.op))

InNewJob(w) == listener.op = "NewJob" /\ listener.at = w

(***************************************************************************)
(* New: a worker is paused, has no work and has not seen a job.            *)
(***************************************************************************)
Init ==
    /\ up = Controllers /\ firstSender = None /\ silent = FALSE
    /\ listener = Idle /\ watcher = Idle
    /\ solutions = {} /\ found = 0 /\ silences = 0 /\ dropped = FALSE
    /\ loop = [w \in Workers |-> "paused"]
    /\ bitses = [w \in Workers |-> None] /\ hashes = [w \in Workers |-> None]
    /\ lastMerkle = [w \in Workers |-> None] /\ block = [w \in Workers |-> None]
    /\ msgBlock = [w \in Workers |-> None] /\ header = [w \in Workers |-> None]

-----------------------------------------------------------------------------
(***************************************************************************)
(* Worker.NewJob.  The new targets and merkle roots are stored while the   *)
(* loop is still mining; a job whose merkle root is the last one goes no   *)
(* further.                                                                *)
(***************************************************************************)
NewJobBitses ==
    LET w == listener.at IN
    /\ listener.step = "bitses"
    /\ bitses' = [bitses EXCEPT ![w] = listener.job]
    /\ listener' = [listener EXCEPT !.step = "hashes"]
    /\ UNCHANGED <<minerVars, watcher, loop, hashes, lastMerkle, block, msgBlock, header>>

NewJobHashes ==
    LET w == listener.at
        j == listener.job
    IN  /\ listener.step = "hashes"
        /\ hashes' = [hashes EXCEPT ![w] = j]
        /\ \/ /\ j.merkle = lastMerkle[w]
              /\ listener' = Returned(listener)
              /\ UNCHANGED lastMerkle
           \/ /\ j.merkle # lastMerkle[w]
              /\ lastMerkle' = [lastMerkle EXCEPT ![w] = j.merkle]
              /\ listener' = [listener EXCEPT !.step = "stop"]
        /\ UNCHANGED <<minerVars, watcher, loop, bitses, block, msgBlock, header>>

(***************************************************************************)
(* stopChan <-: the loop takes the signal between two hashes or in its     *)
(* pause.  NewJob goes on, Pause returns.  The faults: the signal is taken *)
(* and ignored, or it is not drained in the pause.                         *)
(***************************************************************************)
LoopGoesOn(w) == loop
LoopStops(w) == [loop EXCEPT ![w] = "paused"]

SignalWhenRunning(w) == loop[w] = "running"
TakesSignal(w) == loop[w] \in {"paused", "running"}

StopSignal(c) ==
    /\ c.step = "stop" /\ TakesSignal(c.at)
    /\ loop' = LoopStops(c.at)

ListenerStops ==
    /\ StopSignal(listener)
    /\ listener' = IF listener.op = "NewJob" THEN [listener EXCEPT !.step = "prepare"]
                                             ELSE Returned(listener)
    /\ UNCHANGED <<minerVars, workVars, watcher>>

WatcherPauses ==
    /\ StopSignal(watcher)
    /\ watcher' = Returned(watcher)
    /\ UNCHANGED <<minerVars, workVars, listener>>

(***************************************************************************)
(* The rest of NewJob: the block is prepared, unless the job has no        *)
(* target or merkle root for the algorithm that is next, and mining        *)
(* starts.                                                                 *)
(***************************************************************************)
NewJobPrepares ==
    LET w == listener.at
        j == listener.job
    IN  /\ listener.step = "prepare"
        /\ \/ /\ j \in Incomplete
              /\ listener' = Returned(listener)
              /\ UNCHANGED <<block, msgBlock>>
           \/ /\ block' = [block EXCEPT ![w] = j]
              /\ msgBlock' = [msgBlock EXCEPT ![w] = j]
              /\ listener' = [listener EXCEPT !.step = "start"]
        /\ UNCHANGED <<minerVars, watcher, loop, bitses, hashes, lastMerkle, header>>

NewJobStarts ==
    LET w == listener.at IN
    /\ listener.step = "start" /\ TakesSignal(w)
    /\ loop' = [loop EXCEPT ![w] = "running"]
    /\ listener' = Returned(listener)
    /\ UNCHANGED <<minerVars, workVars, watcher>>

(***************************************************************************)
(* The mining loop: a header is made of the merkle roots, the block and    *)
(* the targets there are, one after the other, and hashed.  A solution     *)
(* goes to the sender of the job and the loop pauses; else the header, its *)
(* nonce advanced, is stored for the next hash.                            *)
(***************************************************************************)
Hash(w) ==
    /\ loop[w] = "running" /\ msgBlock[w] # None
    /\ loop' = [loop EXCEPT ![w] = "hashing"]
    /\ header' = [header EXCEPT ![w] = [hashes |-> hashes[w], msgBlock |-> msgBlock[w]]]
    /\ UNCHANGED <<minerVars, listener, watcher, bitses, hashes, lastMerkle, block, msgBlock>>

Hashed(w) ==
    /\ loop[w] = "hashing"
    /\ header' = [header EXCEPT ![w] = None]
    /\ \/ /\ loop' = [loop EXCEPT ![w] = "running"]
          /\ msgBlock' = [msgBlock EXCEPT ![w] = header[w].msgBlock]
          /\ UNCHANGED <<solutions, found>>
       \/ /\ found < MaxSolutions
          /\ loop' = [loop EXCEPT ![w] = "paused"]
          /\ solutions' = solutions \cup {block[w].sender}
          /\ found' = found + 1
          /\ UNCHANGED msgBlock
    /\ UNCHANGED <<firstSender, silent, silences, dropped, up, listener, watcher, bitses,
                   hashes, lastMerkle, block>>

-----------------------------------------------------------------------------
(***************************************************************************)
(* The job handler: jobs of other controllers are ignored while one is     *)
(* active and was received first.  The check, the store of the sender and  *)
(* that of the time are three atomic accesses; the watcher may come in     *)
(* between.                                                                *)
(***************************************************************************)
HandleJob(j) ==
    /\ j.sender \in up /\ listener = Idle
    /\ firstSender \in {None, j.sender}
    /\ listener' = Call("NewJob", j, 0, "sender")
    /\ UNCHANGED <<minerVars, workVars, watcher, loop>>

StoreFirstSender ==
    /\ listener.step = "sender"
    /\ firstSender' = listener.job.sender
    /\ dropped' = FALSE
    /\ listener' = [listener EXCEPT !.step = "sent"]
    /\ UNCHANGED <<workVars, up, silent, solutions, found, silences, watcher, loop>>

StoreLastSent ==
    /\ listener.step = "sent"
    /\ silent' = FALSE
    /\ listener' = Calling("NewJob", listener.job)
    /\ UNCHANGED <<workVars, up, firstSender, solutions, found, silences, dropped, watcher,
                   loop>>

(***************************************************************************)
(* The pause handler.  A controller sends a pause when it shuts down.      *)
(***************************************************************************)
HandlePause(c) ==
    /\ c \in up /\ Cardinality(Controllers \ up) < MaxCrashes
    /\ listener = Idle
    /\ up' = up \ {c}
    /\ listener' = IF firstSender = c THEN Calling("Pause", None) ELSE Idle
    /\ UNCHANGED <<workVars, firstSender, silent, solutions, found, silences, dropped, watcher,
                   loop>>

(***************************************************************************)
(* The solution handler: solutions of all workers are heard, whoever they  *)
(* are for, and the first sender is forgotten.  Without one it returns.    *)
(***************************************************************************)
HandleSolution(c) ==
    /\ c \in solutions /\ listener = Idle
    /\ solutions' = solutions \ {c}
    /\ firstSender' = None
    /\ dropped' = (dropped \/ firstSender # None)
    /\ UNCHANGED <<workVars, up, silent, found, silences, listener, watcher, loop>>

(***************************************************************************)
(* The watcher: when the last job is too old and there is a first sender,  *)
(* that is forgotten and the workers are paused.  The two loads, the store *)
(* and the calls are steps of their own.  The fault leaves the workers     *)
(* alone.                                                                  *)
(***************************************************************************)
WatcherTick ==
    /\ watcher = Idle
    /\ silent
    /\ watcher' = Call("Pause", None, 0, "check")
    /\ UNCHANGED <<minerVars, workVars, listener, loop>>

WatcherChecks ==
    /\ watcher.step = "check"
    /\ watcher' = IF firstSender # None THEN [watcher EXCEPT !.step = "forget"] ELSE Idle
    /\ UNCHANGED <<minerVars, workVars, listener, loop>>

OnlyForget == Idle
PauseWorkers == Calling("Pause", None)

WatcherForgets ==
    /\ watcher.step = "forget"
    /\ firstSender' = None
    /\ dropped' = (dropped \/ listener.op = "NewJob")
    /\ watcher' = PauseWorkers
    /\ UNCHANGED <<workVars, up, silent, solutions, found, silences, listener, loop>>

(***************************************************************************)
(* The environment: a controller crashes, and time passes without a job,   *)
(* because all of them are lost, no controller is left to send any, or     *)
(* the listener is still in the calls for the last one.                    *)
(***************************************************************************)
Crash(c) ==
    /\ c \in up /\ Cardinality(Controllers \ up) < MaxCrashes
    /\ up' = up \ {c}
    /\ UNCHANGED <<workVars, firstSender, silent, solutions, found, silences, dropped, listener,
                   watcher, loop>>

Silence ==
    /\ ~silent
    /\ silent' = TRUE
    /\ \/ up = {} /\ UNCHANGED silences
       \/ up # {} /\ silences < MaxSilences /\ silences' = silences + 1
    /\ UNCHANGED <<workVars, up, firstSender, solutions, found, dropped, listener, watcher, loop>>

NewJob == NewJobBitses \/ NewJobHashes \/ NewJobPrepares \/ NewJobStarts

Next ==
    \/ StoreFirstSender \/ StoreLastSent \/ NewJob \/ ListenerStops
    \/ WatcherTick \/ WatcherChecks \/ WatcherForgets \/ WatcherPauses \/ Silence
    \/ \E w \in Workers : Hash(w) \/ Hashed(w)
    \/ \E j \in Jobs : HandleJob(j)
    \/ \E c \in Controllers : HandlePause(c) \/ HandleSolution(c) \/ Crash(c)

(***************************************************************************)
(* The goroutines of the miner and its workers run, the channels serve a   *)
(* waiting sender sooner or later, the watcher's ticker ticks, and time    *)
(* passes when no controller is left.                                      *)
(***************************************************************************)
Fairness ==
    /\ WF_vars(StoreFirstSender \/ StoreLastSent \/ NewJob)
    /\ SF_vars(ListenerStops \/ NewJobStarts) /\ SF_vars(WatcherPauses)
    /\ WF_vars(WatcherTick \/ WatcherChecks \/ WatcherForgets)
    /\ WF_vars(up = {} /\ Silence)
    /\ \A w \in Workers : WF_vars(Hashed(w))

Spec == Init /\ [][Next]_vars /\ Fairness

-----------------------------------------------------------------------------
(***************************************************************************)
(* Type correctness.                                                       *)
(***************************************************************************)
CallType ==
    [op : {"none", "NewJob", "Pause"}, job : Jobs \cup {None}, at : 0..Threads,
     step : {"none", "sender", "sent", "bitses", "hashes", "stop", "prepare", "start",
             "check", "forget"}]

TypeOK ==
    /\ up \subseteq Controllers /\ solutions \subseteq Controllers
    /\ firstSender \in Controllers \cup {None}
    /\ {silent, dropped} \subseteq BOOLEAN /\ found \in 0..MaxSolutions /\ silences \in 0..MaxSilences
    /\ listener \in CallType /\ watcher \in CallType
    /\ loop \in [Workers -> {"paused", "running", "hashing"}]
    /\ bitses \in [Workers -> Jobs \cup {None}] /\ hashes \in [Workers -> Jobs \cup {None}]
    /\ block \in [Workers -> Jobs \cup {None}] /\ msgBlock \in [Workers -> Jobs \cup {None}]
    /\ header \in [Workers -> [hashes : Jobs, msgBlock : Jobs] \cup {None}]
    /\ lastMerkle \in [Workers -> {j.merkle : j \in Jobs} \cup {None}]

(***************************************************************************)
(* A worker that mines while no job is being delivered to it mines the     *)
(* last job it got: its block, the merkle roots, the targets and the       *)
(* header in the works all have the merkle root NewJob has noted, although *)
(* the loop stores its header after every hash and pauses and solutions    *)
(* may come in between (implementation.go 256, 281-335).                   *)
(***************************************************************************)
LastJobMined ==
    \A w \in Workers : loop[w] # "paused" /\ ~InNewJob(w) =>
        /\ {block[w], msgBlock[w], hashes[w], bitses[w]} \subseteq Jobs
        /\ \A j \in {block[w], msgBlock[w], hashes[w], bitses[w]} : j.merkle = lastMerkle[w]
        /\ loop[w] = "hashing" =>
              /\ header[w].msgBlock.merkle = lastMerkle[w]
              /\ header[w].hashes.merkle = lastMerkle[w]

(***************************************************************************)
(* Every call to a worker returns: NewJob, Pause and the mining loop never *)
(* wait for each other for good.                                           *)
(***************************************************************************)
CallsReturn ==
    /\ [](listener # Idle => <>(listener = Idle))
    /\ [](watcher # Idle => <>(watcher = Idle))

(***************************************************************************)
(* When all controllers are gone the workers are paused in the end: "if    *)
(* the last message sent was 3 seconds ago the server is almost certainly  *)
(* disconnected or crashed so clear FirstSender ... pause the workers"     *)
(* (main.go 174-182).  Two cases are excepted, in which FirstSender is     *)
(* emptied while workers mine and the watcher, which takes that for having *)
(* paused them, leaves them alone: solutionHandler forgets FirstSender for *)
(* any solution (main.go 343), and the watcher may store the empty sender  *)
(* while a job is still being handed to the workers.  The exception lasts  *)
(* until the next job of any controller.                                   *)
(***************************************************************************)
PausedWhenSilent == [](up = {} => <>(dropped \/ \A w \in Workers : loop[w] = "paused"))
=============================================================================
