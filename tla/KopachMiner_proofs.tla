-------------------------- MODULE KopachMiner_proofs --------------------------
(***************************************************************************)
(* Proofs about KopachMiner: type correctness, and that a worker mines the *)
(* last job it got, for any number of workers, controllers and jobs.       *)
(***************************************************************************)
EXTENDS KopachMiner, TLAPS

(***************************************************************************)
(* The steps of a call.  Only the listener calls NewJob.                   *)
(***************************************************************************)
NewJobCall(c) ==
    /\ c.op = "NewJob" /\ c.job \in Jobs /\ c.at \in Workers
    /\ c.step \in {"bitses", "hashes", "stop", "prepare", "start"}

PauseCall(c) == c.op = "Pause" /\ c.job = None /\ c.at \in Workers /\ c.step = "stop"

(***************************************************************************)
(* What comes before the calls: the job handler's stores, and the          *)
(* watcher's second load and its store.                                    *)
(***************************************************************************)
JobStored(c) == c.op = "NewJob" /\ c.job \in Jobs /\ c.at = 0 /\ c.step \in {"sender", "sent"}

WatcherLooks(c) == c.op = "Pause" /\ c.job = None /\ c.at = 0 /\ c.step \in {"check", "forget"}

CallsWellFormed ==
    /\ listener = Idle \/ NewJobCall(listener) \/ PauseCall(listener) \/ JobStored(listener)
    /\ watcher = Idle \/ PauseCall(watcher) \/ WatcherLooks(watcher)

(***************************************************************************)
(* What NewJob has done so far, at each of its steps.                      *)
(***************************************************************************)
InStep(w, s) == InNewJob(w) /\ listener.step = s

NewJobProgress(w) ==
    LET j == listener.job IN
    /\ InStep(w, "hashes") => bitses[w] = j
    /\ InStep(w, "stop") \/ InStep(w, "prepare") \/ InStep(w, "start") =>
          bitses[w] = j /\ hashes[w] = j /\ lastMerkle[w] = j.merkle
    /\ InStep(w, "prepare") \/ InStep(w, "start") => loop[w] = "paused"
    /\ InStep(w, "start") => block[w] = j /\ msgBlock[w] = j

(***************************************************************************)
(* A loop that is not paused has a whole job, and it is the last one until *)
(* NewJob has changed the merkle roots and waits for the loop to stop.     *)
(***************************************************************************)
HasWork(w) ==
    loop[w] # "paused" =>
        /\ block[w] \in Jobs /\ msgBlock[w] \in Jobs /\ hashes[w] \in Jobs /\ bitses[w] \in Jobs
        /\ loop[w] = "hashing" => header[w] \in [hashes : Jobs, msgBlock : Jobs]

HasLastJob(w) ==
    loop[w] # "paused" /\ ~InStep(w, "stop") =>
        /\ block[w].merkle = lastMerkle[w] /\ msgBlock[w].merkle = lastMerkle[w]
        /\ hashes[w].merkle = lastMerkle[w]
        /\ ~InStep(w, "hashes") => bitses[w].merkle = lastMerkle[w]
        /\ loop[w] = "hashing" => /\ header[w].msgBlock.merkle = lastMerkle[w]
                                  /\ header[w].hashes.merkle = lastMerkle[w]

WorkerInv(w) == NewJobProgress(w) /\ HasWork(w) /\ HasLastJob(w)

Inv == TypeOK /\ CallsWellFormed /\ \A w \in Workers : WorkerInv(w)

-----------------------------------------------------------------------------
(***************************************************************************)
(* A call that has returned is at its first step at the next worker, or    *)
(* over.                                                                   *)
(***************************************************************************)
LEMMA ReturnedShape ==
    ASSUME NEW c \in CallType, NewJobCall(c) \/ PauseCall(c)
    PROVE  /\ Returned(c) \in CallType
           /\ Returned(c) = Idle \/ NewJobCall(Returned(c)) \/ PauseCall(Returned(c))
           /\ c.op = "Pause" => Returned(c) = Idle \/ PauseCall(Returned(c))
           /\ Returned(c).op = "NewJob" => Returned(c).step = "bitses" /\ Returned(c).at # c.at
<1> USE MinerAssumption
<1>1. CASE c.at = Threads
  BY <1>1 DEF Returned, Idle, CallType
<1>2. CASE c.at # Threads
  <2>1. c.at + 1 \in Workers /\ c.at + 1 \in 0..Threads /\ c.at + 1 # c.at
    BY <1>2 DEF NewJobCall, PauseCall, Workers
  <2>2. Returned(c) = [op |-> c.op, job |-> c.job, at |-> c.at + 1, step |-> FirstStep(c.op)]
    BY <1>2 DEF Returned, Call
  <2>3. FirstStep("NewJob") = "bitses" /\ FirstStep("Pause") = "stop"
    BY DEF FirstStep
  <2>4. CASE NewJobCall(c)
    BY <2>1, <2>2, <2>3, <2>4 DEF NewJobCall, CallType
  <2>5. CASE PauseCall(c)
    BY <2>1, <2>2, <2>3, <2>5 DEF PauseCall, CallType
  <2> QED
    BY <2>4, <2>5
<1> QED
  BY <1>1, <1>2

(***************************************************************************)
(* A call that begins is at its first step at worker 1.                    *)
(***************************************************************************)
LEMMA CallingShape ==
    /\ \A j \in Jobs : Calling("NewJob", j) \in CallType /\ NewJobCall(Calling("NewJob", j))
                       /\ Calling("NewJob", j).step = "bitses"
    /\ Calling("Pause", None) \in CallType /\ PauseCall(Calling("Pause", None))
<1>1. 1 \in Workers /\ 1 \in 0..Threads
  BY MinerAssumption DEF Workers
<1>2. /\ \A j : Calling("NewJob", j) = [op |-> "NewJob", job |-> j, at |-> 1, step |-> "bitses"]
      /\ Calling("Pause", None) = [op |-> "Pause", job |-> None, at |-> 1, step |-> "stop"]
  BY DEF Calling, Call, FirstStep
<1>3. ASSUME NEW j \in Jobs
      PROVE  /\ Calling("NewJob", j) \in CallType /\ NewJobCall(Calling("NewJob", j))
             /\ Calling("NewJob", j).step = "bitses"
  BY <1>1, <1>2 DEF CallType, NewJobCall
<1>4. Calling("Pause", None) \in CallType /\ PauseCall(Calling("Pause", None))
  BY <1>1, <1>2 DEF CallType, PauseCall
<1> QED
  BY <1>3, <1>4

LEMMA InitInv == Init => Inv
<1> SUFFICES ASSUME Init PROVE Inv
  OBVIOUS
<1>1. TypeOK
  <2>1. 0 \in 0..Threads /\ 0 \in 0..MaxSolutions /\ 0 \in 0..MaxSilences
    BY MinerAssumption
  <2>2. Idle \in CallType
    BY <2>1 DEF Idle, CallType
  <2> QED
    BY <2>1, <2>2 DEF Init, TypeOK
<1>2. CallsWellFormed
  BY DEF Init, CallsWellFormed
<1>3. \A w \in Workers : WorkerInv(w)
  BY DEF Init, WorkerInv, NewJobProgress, HasWork, HasLastJob, InStep, InNewJob, Idle
<1> QED
  BY <1>1, <1>2, <1>3 DEF Inv

(***************************************************************************)
(* An action that leaves the workers alone and the listener out of NewJob  *)
(* preserves what is known of the workers.                                 *)
(***************************************************************************)
LEMMA WorkersAlone ==
    ASSUME Inv, UNCHANGED <<workVars, loop>>,
           \/ UNCHANGED listener
           \/ /\ listener = Idle \/ listener.at = 0
              /\ listener'.op = "NewJob" => listener'.step = "bitses" \/ listener'.at = 0
    PROVE  (\A w \in Workers : WorkerInv(w))'
<1> SUFFICES ASSUME NEW w \in Workers PROVE WorkerInv(w)'
  BY DEF Workers
<1>1. WorkerInv(w)
  BY DEF Inv
<1>2. w # 0
  BY MinerAssumption DEF Workers
<1>3. listener = Idle \/ listener.at = 0 => ~InNewJob(w)
  BY <1>2 DEF Idle, InNewJob
<1> QED
  BY <1>1, <1>2, <1>3 DEF workVars, WorkerInv, NewJobProgress, HasWork, HasLastJob, InStep, InNewJob

LEMMA NewJobInv == ASSUME Inv, NewJob PROVE Inv'
<1> USE DEF Inv
<1>1. NewJobCall(listener)
  BY DEF NewJob, NewJobBitses, NewJobHashes, NewJobPrepares, NewJobStarts, CallsWellFormed, Idle, PauseCall, JobStored
<1> DEFINE v == listener.at
           j == listener.job
<1>2. v \in Workers /\ j \in Jobs /\ listener \in CallType
  BY <1>1 DEF NewJobCall, TypeOK
<1>3. j.merkle \in {i.merkle : i \in Jobs}
  BY <1>2
<1>4. CASE NewJobBitses
  <2>1. /\ listener'.op = "NewJob" /\ listener'.job = j /\ listener'.at = v
        /\ listener'.step = "hashes" /\ listener' \in CallType
    BY <1>4, <1>1, <1>2 DEF NewJobBitses, NewJobCall, CallType
  <2>2. TypeOK'
    BY <1>4, <1>2, <2>1 DEF NewJobBitses, TypeOK, minerVars
  <2>3. CallsWellFormed'
    BY <1>4, <1>1, <1>2, <2>1 DEF NewJobBitses, CallsWellFormed, NewJobCall, PauseCall, JobStored, WatcherLooks
  <2>4. ASSUME NEW w \in Workers PROVE WorkerInv(w)'
    <3>1. CASE w = v
      BY <3>1, <1>4, <1>1, <1>2, <2>1 DEF NewJobBitses, WorkerInv, NewJobProgress, HasWork, HasLastJob, InStep, InNewJob, TypeOK, NewJobCall
    <3>2. CASE w # v
      BY <3>2, <1>4, <1>1, <1>2, <2>1 DEF NewJobBitses, WorkerInv, NewJobProgress, HasWork, HasLastJob, InStep, InNewJob, TypeOK, NewJobCall
    <3> QED
      BY <3>1, <3>2
  <2> QED
    BY <2>2, <2>3, <2>4 DEF Workers
<1>5. CASE NewJobHashes
  <2>1. CASE j.merkle = lastMerkle[v]
    <3>1. listener' = Returned(listener) /\ UNCHANGED lastMerkle
      BY <1>5, <2>1 DEF NewJobHashes
    <3>2. TypeOK'
      BY <1>5, <1>1, <1>2, <3>1, ReturnedShape DEF NewJobHashes, TypeOK, minerVars
    <3>3. CallsWellFormed'
      BY <1>5, <1>1, <1>2, <3>1, ReturnedShape DEF NewJobHashes, CallsWellFormed, PauseCall, JobStored, WatcherLooks, Idle
    <3>4. listener'.op = "NewJob" => listener'.step = "bitses" /\ listener'.at # v
      BY <1>1, <1>2, <3>1, ReturnedShape
    <3>5. ASSUME NEW w \in Workers PROVE WorkerInv(w)'
      <4>1. CASE w = v
        BY <4>1, <1>5, <1>1, <1>2, <2>1, <3>1, <3>4 DEF NewJobHashes, WorkerInv, NewJobProgress, HasWork, HasLastJob, InStep, InNewJob, TypeOK, NewJobCall
      <4>2. CASE w # v
        BY <4>2, <1>5, <1>1, <1>2, <2>1, <3>1, <3>4 DEF NewJobHashes, WorkerInv, NewJobProgress, HasWork, HasLastJob, InStep, InNewJob, TypeOK, NewJobCall
      <4> QED
        BY <4>1, <4>2
    <3> QED
      BY <3>2, <3>3, <3>5 DEF Workers
  <2>2. CASE j.merkle # lastMerkle[v]
    <3>1. /\ listener'.op = "NewJob" /\ listener'.job = j /\ listener'.at = v
          /\ listener'.step = "stop" /\ listener' \in CallType
          /\ lastMerkle' = [lastMerkle EXCEPT ![v] = j.merkle]
      BY <1>5, <1>1, <1>2, <2>2 DEF NewJobHashes, NewJobCall, CallType
    <3>2. TypeOK'
      BY <1>5, <1>2, <1>3, <3>1 DEF NewJobHashes, TypeOK, minerVars
    <3>3. CallsWellFormed'
      BY <1>5, <1>1, <1>2, <3>1 DEF NewJobHashes, CallsWellFormed, NewJobCall, PauseCall, JobStored, WatcherLooks
    <3>5. ASSUME NEW w \in Workers PROVE WorkerInv(w)'
      <4>1. CASE w = v
        BY <4>1, <1>5, <1>1, <1>2, <3>1 DEF NewJobHashes, WorkerInv, NewJobProgress, HasWork, HasLastJob, InStep, InNewJob, TypeOK, NewJobCall
      <4>2. CASE w # v
        BY <4>2, <1>5, <1>1, <1>2, <3>1 DEF NewJobHashes, WorkerInv, NewJobProgress, HasWork, HasLastJob, InStep, InNewJob, TypeOK, NewJobCall
      <4> QED
        BY <4>1, <4>2
    <3> QED
      BY <3>2, <3>3, <3>5 DEF Workers
  <2> QED
    BY <2>1, <2>2
<1>6. CASE NewJobPrepares
  <2>1. CASE listener' = Returned(listener) /\ UNCHANGED <<block, msgBlock>>
    <3>2. TypeOK'
      BY <1>6, <1>1, <1>2, <2>1, ReturnedShape DEF NewJobPrepares, TypeOK, minerVars
    <3>3. CallsWellFormed'
      BY <1>6, <1>1, <1>2, <2>1, ReturnedShape DEF NewJobPrepares, CallsWellFormed, PauseCall, JobStored, WatcherLooks, Idle
    <3>4. listener'.op = "NewJob" => listener'.step = "bitses" /\ listener'.at # v
      BY <1>1, <1>2, <2>1, ReturnedShape
    <3>5. ASSUME NEW w \in Workers PROVE WorkerInv(w)'
      BY <1>6, <1>1, <1>2, <2>1, <3>4 DEF NewJobPrepares, WorkerInv, NewJobProgress, HasWork, HasLastJob, InStep, InNewJob, NewJobCall
    <3> QED
      BY <3>2, <3>3, <3>5 DEF Workers
  <2>2. CASE /\ block' = [block EXCEPT ![v] = j] /\ msgBlock' = [msgBlock EXCEPT ![v] = j]
             /\ listener' = [listener EXCEPT !.step = "start"]
    <3>1. /\ listener'.op = "NewJob" /\ listener'.job = j /\ listener'.at = v
          /\ listener'.step = "start" /\ listener' \in CallType
      BY <1>1, <1>2, <2>2 DEF NewJobCall, CallType
    <3>2. TypeOK'
      BY <1>6, <1>2, <2>2, <3>1 DEF NewJobPrepares, TypeOK, minerVars
    <3>3. CallsWellFormed'
      BY <1>6, <1>1, <1>2, <3>1 DEF NewJobPrepares, CallsWellFormed, NewJobCall, PauseCall, JobStored, WatcherLooks
    <3>5. ASSUME NEW w \in Workers PROVE WorkerInv(w)'
      <4>1. CASE w = v
        BY <4>1, <1>6, <1>1, <1>2, <2>2, <3>1 DEF NewJobPrepares, WorkerInv, NewJobProgress, HasWork, HasLastJob, InStep, InNewJob, TypeOK, NewJobCall
      <4>2. CASE w # v
        BY <4>2, <1>6, <1>1, <1>2, <2>2, <3>1 DEF NewJobPrepares, WorkerInv, NewJobProgress, HasWork, HasLastJob, InStep, InNewJob, TypeOK, NewJobCall
      <4> QED
        BY <4>1, <4>2
    <3> QED
      BY <3>2, <3>3, <3>5 DEF Workers
  <2> QED
    BY <1>6, <2>1, <2>2 DEF NewJobPrepares
<1>7. CASE NewJobStarts
  <2>2. TypeOK'
    BY <1>7, <1>1, <1>2, ReturnedShape DEF NewJobStarts, TypeOK, minerVars, workVars
  <2>3. CallsWellFormed'
    BY <1>7, <1>1, <1>2, ReturnedShape DEF NewJobStarts, CallsWellFormed, PauseCall, JobStored, WatcherLooks, Idle
  <2>4. listener'.op = "NewJob" => listener'.step = "bitses" /\ listener'.at # v
    BY <1>7, <1>1, <1>2, ReturnedShape DEF NewJobStarts
  <2>5. ASSUME NEW w \in Workers PROVE WorkerInv(w)'
    <4>1. CASE w = v
      BY <4>1, <1>7, <1>1, <1>2, <2>4 DEF NewJobStarts, WorkerInv, NewJobProgress, HasWork, HasLastJob, InStep, InNewJob, TypeOK, NewJobCall, workVars
    <4>2. CASE w # v
      BY <4>2, <1>7, <1>1, <1>2, <2>4 DEF NewJobStarts, WorkerInv, NewJobProgress, HasWork, HasLastJob, InStep, InNewJob, TypeOK, NewJobCall, workVars
    <4> QED
      BY <4>1, <4>2
  <2> QED
    BY <2>2, <2>3, <2>5 DEF Workers
<1> QED
  BY <1>4, <1>5, <1>6, <1>7 DEF NewJob

(***************************************************************************)
(* The stop signal only pauses a loop.                                     *)
(***************************************************************************)
LEMMA StopsInv == ASSUME Inv, ListenerStops \/ WatcherPauses PROVE Inv'
<1> USE DEF Inv
<1>1. CASE ListenerStops
  <2>1. NewJobCall(listener) \/ PauseCall(listener)
    BY <1>1 DEF ListenerStops, StopSignal, CallsWellFormed, Idle, JobStored
  <2>2. listener.at \in Workers /\ listener \in CallType /\ listener.step = "stop"
    BY <1>1, <2>1 DEF ListenerStops, StopSignal, NewJobCall, PauseCall, TypeOK
  <2>3. loop' = [loop EXCEPT ![listener.at] = "paused"]
    BY <1>1 DEF ListenerStops, StopSignal, LoopStops
  <2>4. CASE listener.op = "NewJob"
    <3>1. NewJobCall(listener)
      BY <2>1, <2>4 DEF PauseCall
    <3>2. /\ listener'.op = "NewJob" /\ listener'.job = listener.job
          /\ listener'.at = listener.at /\ listener'.step = "prepare" /\ listener' \in CallType
      BY <1>1, <2>2, <2>4 DEF ListenerStops, CallType
    <3>3. TypeOK' /\ CallsWellFormed'
      BY <1>1, <2>3, <3>1, <3>2 DEF ListenerStops, TypeOK, minerVars, workVars, CallsWellFormed, NewJobCall, PauseCall, JobStored, WatcherLooks
    <3>4. ASSUME NEW w \in Workers PROVE WorkerInv(w)'
      BY <1>1, <2>2, <2>3, <2>4, <3>1, <3>2 DEF ListenerStops, workVars, WorkerInv, NewJobProgress, HasWork, HasLastJob, InStep, InNewJob, TypeOK
    <3> QED
      BY <3>3, <3>4 DEF Workers
  <2>5. CASE listener.op # "NewJob"
    <3>1. PauseCall(listener) /\ listener' = Returned(listener)
      BY <1>1, <2>1, <2>5 DEF NewJobCall, ListenerStops
    <3>2. listener' \in CallType /\ (listener' = Idle \/ PauseCall(listener'))
      BY <2>2, <3>1, ReturnedShape DEF PauseCall
    <3>3. TypeOK' /\ CallsWellFormed'
      BY <1>1, <2>3, <3>2 DEF ListenerStops, TypeOK, minerVars, workVars, CallsWellFormed, PauseCall, JobStored, WatcherLooks
    <3>4. ASSUME NEW w \in Workers PROVE WorkerInv(w)'
      BY <1>1, <2>2, <2>3, <2>5, <3>2 DEF ListenerStops, workVars, WorkerInv, NewJobProgress, HasWork, HasLastJob, InStep, InNewJob, TypeOK, PauseCall, Idle
    <3> QED
      BY <3>3, <3>4 DEF Workers
  <2> QED
    BY <2>4, <2>5
<1>2. CASE WatcherPauses
  <2>1. PauseCall(watcher) /\ watcher \in CallType
    BY <1>2 DEF WatcherPauses, StopSignal, CallsWellFormed, Idle, WatcherLooks, TypeOK
  <2>2. watcher' \in CallType /\ (watcher' = Idle \/ PauseCall(watcher'))
    BY <1>2, <2>1, ReturnedShape DEF WatcherPauses, PauseCall
  <2>3. loop' = [loop EXCEPT ![watcher.at] = "paused"] /\ watcher.at \in Workers
    BY <1>2, <2>1 DEF WatcherPauses, StopSignal, LoopStops, PauseCall
  <2>4. TypeOK' /\ CallsWellFormed'
    BY <1>2, <2>2, <2>3 DEF WatcherPauses, TypeOK, minerVars, workVars, CallsWellFormed, PauseCall, JobStored, WatcherLooks, NewJobCall
  <2>5. ASSUME NEW w \in Workers PROVE WorkerInv(w)'
    BY <1>2, <2>3 DEF WatcherPauses, workVars, WorkerInv, NewJobProgress, HasWork, HasLastJob, InStep, InNewJob, TypeOK
  <2> QED
    BY <2>4, <2>5 DEF Workers
<1> QED
  BY <1>1, <1>2

(***************************************************************************)
(* The mining loop of v.                                                   *)
(***************************************************************************)
LEMMA LoopInv == ASSUME Inv, NEW v \in Workers, Hash(v) \/ Hashed(v) PROVE Inv'
<1> USE DEF Inv
<1>0. WorkerInv(v)
  OBVIOUS
<1>1. CASE Hash(v)
  <2>1. hashes[v] \in Jobs /\ msgBlock[v] \in Jobs
    BY <1>1, <1>0 DEF Hash, WorkerInv, HasWork
  <2>2. TypeOK' /\ CallsWellFormed'
    BY <1>1, <2>1 DEF Hash, TypeOK, minerVars, CallsWellFormed, NewJobCall, PauseCall, JobStored, WatcherLooks
  <2>3. ASSUME NEW w \in Workers PROVE WorkerInv(w)'
    <3>1. CASE w = v
      BY <3>1, <1>0, <1>1, <2>1 DEF Hash, WorkerInv, NewJobProgress, HasWork, HasLastJob, InStep, InNewJob, TypeOK
    <3>2. CASE w # v
      BY <3>2, <1>1 DEF Hash, WorkerInv, NewJobProgress, HasWork, HasLastJob, InStep, InNewJob, TypeOK
    <3> QED
      BY <3>1, <3>2
  <2> QED
    BY <2>2, <2>3 DEF Workers
<1>2. CASE Hashed(v)
  <2>1. header[v] \in [hashes : Jobs, msgBlock : Jobs] /\ block[v] \in Jobs
    BY <1>2, <1>0 DEF Hashed, WorkerInv, HasWork
  <2>2. block[v].sender \in Controllers /\ header[v].msgBlock \in Jobs
    BY <2>1, MinerAssumption
  <2>3. found < MaxSolutions => found + 1 \in 0..MaxSolutions
    BY MinerAssumption DEF TypeOK
  <2>4. TypeOK'
    BY <1>2, <2>2, <2>3 DEF Hashed, TypeOK
  <2>5. CallsWellFormed'
    BY <1>2 DEF Hashed, CallsWellFormed, NewJobCall, PauseCall, JobStored, WatcherLooks
  <2>6. ASSUME NEW w \in Workers PROVE WorkerInv(w)'
    <3>1. CASE w = v
      BY <3>1, <1>0, <1>2, <2>1, <2>2 DEF Hashed, WorkerInv, NewJobProgress, HasWork, HasLastJob, InStep, InNewJob, TypeOK
    <3>2. CASE w # v
      BY <3>2, <1>2 DEF Hashed, WorkerInv, NewJobProgress, HasWork, HasLastJob, InStep, InNewJob, TypeOK
    <3> QED
      BY <3>1, <3>2
  <2> QED
    BY <2>4, <2>5, <2>6 DEF Workers
<1> QED
  BY <1>1, <1>2

LEMMA NextInv == Inv /\ [Next]_vars => Inv'
<1> SUFFICES ASSUME Inv, [Next]_vars PROVE Inv'
  OBVIOUS
<1>1. CASE NewJob
  BY <1>1, NewJobInv
<1>2. CASE ListenerStops \/ WatcherPauses
  BY <1>2, StopsInv
<1>3. CASE WatcherTick \/ WatcherChecks \/ WatcherForgets
  <2>1. watcher' \in CallType /\ (watcher' = Idle \/ PauseCall(watcher') \/ WatcherLooks(watcher'))
    <3>0. 0 \in 0..Threads /\ Idle \in CallType
      BY MinerAssumption DEF Idle, CallType
    <3>1. CASE WatcherTick
      BY <3>0, <3>1 DEF WatcherTick, Call, CallType, WatcherLooks
    <3>2. CASE WatcherChecks
      <4>1. WatcherLooks(watcher) /\ watcher \in CallType
        BY <3>2 DEF WatcherChecks, Inv, CallsWellFormed, Idle, PauseCall, TypeOK
      <4>2. watcher' = Idle \/ watcher' = [watcher EXCEPT !.step = "forget"]
        BY <3>2 DEF WatcherChecks
      <4> QED
        BY <3>0, <4>1, <4>2 DEF CallType, WatcherLooks
    <3>3. CASE WatcherForgets
      BY <3>3, CallingShape DEF WatcherForgets, PauseWorkers
    <3> QED
      BY <1>3, <3>1, <3>2, <3>3
  <2>2. /\ UNCHANGED <<workVars, loop, listener, up, silent, solutions, found, silences>>
        /\ firstSender' \in {firstSender, None}
        /\ dropped' \in BOOLEAN
    BY <1>3 DEF WatcherTick, WatcherChecks, WatcherForgets, minerVars, Inv, TypeOK
  <2>3. TypeOK'
    BY <2>1, <2>2 DEF Inv, TypeOK, workVars
  <2>4. CallsWellFormed'
    BY <2>1, <2>2 DEF Inv, CallsWellFormed, NewJobCall, PauseCall, JobStored, WatcherLooks
  <2>5. (\A w \in Workers : WorkerInv(w))'
    BY <2>2, WorkersAlone
  <2> QED
    BY <2>3, <2>4, <2>5 DEF Inv
<1>4. CASE Silence
  <2>1. TypeOK' /\ CallsWellFormed'
    BY <1>4, MinerAssumption DEF Silence, Inv, TypeOK, CallsWellFormed, NewJobCall, PauseCall, JobStored, WatcherLooks, workVars
  <2>2. (\A w \in Workers : WorkerInv(w))'
    BY <1>4, WorkersAlone DEF Silence
  <2> QED
    BY <2>1, <2>2 DEF Inv
<1>5. ASSUME NEW w \in Workers, Hash(w) \/ Hashed(w) PROVE Inv'
  BY <1>5, LoopInv
<1>6. ASSUME NEW j \in Jobs, HandleJob(j) PROVE Inv'
  <2>1. listener' \in CallType /\ JobStored(listener')
    BY <1>6, MinerAssumption DEF HandleJob, Call, CallType, JobStored
  <2>2. TypeOK' /\ CallsWellFormed'
    BY <1>6, <2>1 DEF HandleJob, Inv, TypeOK, CallsWellFormed, PauseCall, JobStored,
                      WatcherLooks, minerVars, workVars
  <2>3. (\A w \in Workers : WorkerInv(w))'
    BY <1>6, <2>1, WorkersAlone DEF HandleJob, JobStored
  <2> QED
    BY <2>2, <2>3 DEF Inv
<1>10. CASE StoreFirstSender \/ StoreLastSent
  <2>1. JobStored(listener) /\ listener \in CallType
    BY <1>10 DEF StoreFirstSender, StoreLastSent, Inv, CallsWellFormed, Idle, NewJobCall,
                 PauseCall, TypeOK
  <2>2. listener.job \in Jobs /\ listener.job.sender \in Controllers
    BY <2>1, MinerAssumption DEF JobStored
  <2>3. /\ listener' \in CallType
        /\ JobStored(listener') \/ NewJobCall(listener')
        /\ listener'.step = "bitses" \/ listener'.at = 0
    <3>1. CASE StoreFirstSender
      BY <2>1, <3>1 DEF StoreFirstSender, JobStored, CallType
    <3>2. CASE StoreLastSent
      BY <2>2, <3>2, CallingShape DEF StoreLastSent
    <3> QED
      BY <1>10, <3>1, <3>2
  <2>4. TypeOK'
    BY <1>10, <2>2, <2>3 DEF StoreFirstSender, StoreLastSent, Inv, TypeOK, workVars
  <2>5. CallsWellFormed'
    BY <1>10, <2>3 DEF StoreFirstSender, StoreLastSent, Inv, CallsWellFormed, PauseCall,
                       WatcherLooks
  <2>6. (\A w \in Workers : WorkerInv(w))'
    BY <1>10, <2>1, <2>3, WorkersAlone DEF StoreFirstSender, StoreLastSent, JobStored
  <2> QED
    BY <2>4, <2>5, <2>6 DEF Inv
<1>7. ASSUME NEW c \in Controllers, HandlePause(c) PROVE Inv'
  <2>1. TypeOK' /\ CallsWellFormed'
    BY <1>7, CallingShape DEF HandlePause, Inv, TypeOK, CallsWellFormed, PauseCall, JobStored, WatcherLooks, workVars
  <2>2. listener'.op # "NewJob"
    BY <1>7, CallingShape DEF HandlePause, PauseCall, Idle
  <2>3. (\A w \in Workers : WorkerInv(w))'
    BY <1>7, <2>2, WorkersAlone DEF HandlePause
  <2> QED
    BY <2>1, <2>3 DEF Inv
<1>8. ASSUME NEW c \in Controllers, HandleSolution(c) \/ Crash(c) PROVE Inv'
  <2>1. TypeOK' /\ CallsWellFormed'
    BY <1>8 DEF HandleSolution, Crash, Inv, TypeOK, CallsWellFormed, NewJobCall, PauseCall, JobStored, WatcherLooks, workVars
  <2>2. (\A w \in Workers : WorkerInv(w))'
    BY <1>8, WorkersAlone DEF HandleSolution, Crash
  <2> QED
    BY <2>1, <2>2 DEF Inv
<1>9. CASE UNCHANGED vars
  <2>1. TypeOK' /\ CallsWellFormed'
    BY <1>9 DEF vars, minerVars, workVars, Inv, TypeOK, CallsWellFormed, NewJobCall, PauseCall, JobStored, WatcherLooks
  <2>2. (\A w \in Workers : WorkerInv(w))'
    BY <1>9, WorkersAlone DEF vars
  <2> QED
    BY <2>1, <2>2 DEF Inv
<1> QED
  BY <1>1, <1>2, <1>3, <1>4, <1>5, <1>6, <1>7, <1>8, <1>9, <1>10 DEF Next

LEMMA InvHolds == Spec => []Inv
BY InitInv, NextInv, PTL DEF Spec

-----------------------------------------------------------------------------
(***************************************************************************)
(* Type correctness: among others, no handler calls a worker that does not *)
(* exist.                                                                  *)
(***************************************************************************)
THEOREM MinerTypeCorrect == Spec => []TypeOK
<1>1. Inv => TypeOK
  BY DEF Inv
<1> QED
  BY <1>1, InvHolds, PTL

(***************************************************************************)
(* A worker that mines while no job is being delivered mines the last job  *)
(* it got, however NewJob, Pause, the mining loop and its solutions        *)
(* interleave.                                                             *)
(***************************************************************************)
THEOREM MinerLastJobMined == Spec => []LastJobMined
<1>1. Inv => LastJobMined
  BY DEF Inv, WorkerInv, HasWork, HasLastJob, LastJobMined, InStep
<1> QED
  BY <1>1, InvHolds, PTL
=============================================================================
